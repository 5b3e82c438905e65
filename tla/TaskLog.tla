------------------------------ MODULE TaskLog ------------------------------
(***************************************************************************)
(* The log of a background task, internal/infra/task: a buffer of lines    *)
(* that the task appends to (TaskLog.Write, TaskLog.Append) and the loop   *)
(* with which an SSE handler streams it to a browser (GetLogs in           *)
(* internal/domain/runtimeenv/http; the database and cron handlers have    *)
(* the same loop).                                                         *)
(*                                                                         *)
(* Lines are numbered in the order in which they are written. TaskLog.Tail *)
(* returns a slice of the buffer, and the handler reads its elements after *)
(* Tail has given up the lock; so the model keeps the backing arrays, and  *)
(* the slice of the handler is a window into one of them.                  *)
(***************************************************************************)
EXTENDS Naturals, Sequences, SequencesExt

CONSTANTS MaxLogLines,  \* maxLogLines
          MaxTotal,     \* bound on the lines a task writes
          MaxChunk      \* bound on the lines of one Write

LogBounds == MaxLogLines \in Nat \ {0} /\ MaxTotal \in Nat /\ MaxChunk \in Nat

VARIABLES
  arrays,    \* the backing arrays of TaskLog.lines, the last one current
  length,    \* len(TaskLog.lines)
  total,     \* the lines written so far
  wpc,       \* the writer: no lock, lock held, or copying in appendLocked
  chunk,     \* the lines of the current Write not appended yet
  taskDone,  \* whether Task.done is closed
  rpc,       \* the control point of the handler
  window,    \* the slice that Tail returned, and the position in it
  cursor,    \* the handler's cursor
  sent       \* the lines sent to the browser

writerVars == <<arrays, length, total, wpc, chunk, taskDone>>
readerVars == <<rpc, window, cursor, sent>>
vars == <<writerVars, readerVars>>

Torn == 0          \* what a read that races with a copy may return
NoLine == 0        \* the empty string in an array element not used yet
Line == 1..MaxTotal

Current == Last(arrays)
Kept == (MaxLogLines * 3) \div 4
Buffer == SubSeq(Current, 1, length)

TypeOK ==
  /\ arrays \in Seq(Seq(Line \cup {NoLine})) /\ arrays # <<>>
  /\ length \in 0..MaxLogLines
  /\ total \in 0..MaxTotal
  /\ wpc \in {"idle", "locked", "copying"}
  /\ chunk \in 0..MaxChunk
  /\ taskDone \in BOOLEAN
  /\ rpc \in {"tail", "sending", "wait", "flush", "flushing", "end", "gone"}
  /\ window \in [array : 1..Len(arrays), next : Nat, end : Nat]
  /\ cursor \in Nat
  /\ sent \in Seq(Line \cup {Torn})

Init ==
  /\ arrays = <<<<>>>>
  /\ length = 0
  /\ total = 0
  /\ wpc = "idle"
  /\ chunk = 0
  /\ taskDone = FALSE
  /\ rpc = "tail"
  /\ window = [array |-> 1, next |-> 0, end |-> 0]
  /\ cursor = 0
  /\ sent = <<>>

----------------------------------------------------------------------------
(* The writer.                                                              *)

\* Write takes the lock for all the lines of its chunk; Append is a chunk of
\* one line.
Write(n) ==
  /\ wpc = "idle" /\ ~taskDone
  /\ n <= MaxTotal - total
  /\ wpc' = "locked"
  /\ chunk' = n
  /\ UNCHANGED <<arrays, length, total, taskDone, readerVars>>

\* What the built-in append does to the current array: it fills the next
\* element, or allocates an array twice as long and copies.
Grown(line) ==
  IF length < Len(Current)
    THEN [arrays EXCEPT ![Len(arrays)][length + 1] = line]
    ELSE Append(arrays,
           [i \in 1..(IF length = 0 THEN 1 ELSE 2 * length) |->
              IF i <= length THEN Current[i] ELSE IF i = length + 1 THEN line ELSE NoLine])

\* appendLocked drops the oldest quarter of a full buffer.
FullOneLate == length > MaxLogLines
Full == length >= MaxLogLines

\* appendLocked below the limit.
AppendLine ==
  /\ wpc = "locked" /\ chunk > 0
  /\ ~Full
  /\ arrays' = Grown(total + 1)
  /\ length' = length + 1
  /\ total' = total + 1
  /\ chunk' = chunk - 1
  /\ UNCHANGED <<wpc, taskDone, readerVars>>

\* appendLocked at the limit starts to copy the newest lines to the front of
\* the same array ...
StartTrim ==
  /\ wpc = "locked" /\ chunk > 0
  /\ Full
  /\ wpc' = "copying"
  /\ UNCHANGED <<arrays, length, total, chunk, taskDone, readerVars>>

\* ... the array after the copy ...
TrimmedFromFront ==
  [i \in 1..Len(Current) |-> Current[i]]
Trimmed ==
  [i \in 1..Len(Current) |-> IF i <= Kept THEN Current[length - Kept + i] ELSE Current[i]]

\* ... and then appends the line behind them.
FinishTrim ==
  /\ wpc = "copying"
  /\ arrays' = [arrays EXCEPT ![Len(arrays)] = [Trimmed EXCEPT ![Kept + 1] = total + 1]]
  /\ length' = Kept + 1
  /\ total' = total + 1
  /\ chunk' = chunk - 1
  /\ wpc' = "locked"
  /\ UNCHANGED <<taskDone, readerVars>>

Unlock ==
  /\ wpc = "locked" /\ chunk = 0
  /\ wpc' = "idle"
  /\ UNCHANGED <<arrays, length, total, chunk, taskDone, readerVars>>

\* The task ends after its last line.
Finish ==
  /\ wpc = "idle" /\ ~taskDone
  /\ taskDone' = TRUE
  /\ UNCHANGED <<arrays, length, total, wpc, chunk, readerVars>>

----------------------------------------------------------------------------
(* TaskLog.Tail and the handler.                                            *)

\* The slice that Tail returns for the cursor, as a window into the current
\* array.
TailFrom(from) ==
  [array |-> Len(arrays),
   next  |-> IF from >= length THEN length ELSE from,
   end   |-> length]

\* One round of the handler's loop: Tail, with the lock.
Poll ==
  /\ rpc = "tail" /\ wpc = "idle"
  /\ window' = TailFrom(cursor)
  /\ cursor' = length
  /\ rpc' = "sending"
  /\ UNCHANGED <<writerVars, sent>>

\* The browser has gone away: the loop returns before its next round.
Disconnect ==
  /\ rpc = "tail"
  /\ rpc' = "gone"
  /\ UNCHANGED <<writerVars, window, cursor, sent>>

\* What the handler may read, without the lock, from element i of its slice:
\* the element, or while appendLocked copies over it also the new value or a
\* mixture of both.
Readable(a, i) ==
  IF wpc = "copying" /\ a = Len(arrays) /\ i <= Kept
    THEN {arrays[a][i], Trimmed[i], Torn}
    ELSE {arrays[a][i]}

Send ==
  /\ rpc \in {"sending", "flushing"}
  /\ window.next < window.end
  /\ \E l \in Readable(window.array, window.next + 1) : sent' = Append(sent, l)
  /\ window' = [window EXCEPT !.next = @ + 1]
  /\ UNCHANGED <<writerVars, rpc, cursor>>

\* All lines of the round are sent.
Sent ==
  /\ rpc \in {"sending", "flushing"}
  /\ window.next = window.end
  /\ rpc' = IF rpc = "sending" THEN "wait" ELSE "end"
  /\ UNCHANGED <<writerVars, window, cursor, sent>>

\* The select of the loop: the timer, or the end of the task (either of them
\* when both are ready).
TimerFires ==
  /\ rpc = "wait"
  /\ rpc' = "tail"
  /\ UNCHANGED <<writerVars, window, cursor, sent>>

AfterDoneNoFlush == "end"
AfterDoneLoops == "tail"
AfterDone == "flush"

SeeDone ==
  /\ rpc = "wait" /\ taskDone
  /\ rpc' = AfterDone
  /\ UNCHANGED <<writerVars, window, cursor, sent>>

\* The second Tail, for lines that landed between the first and the end.
Flush ==
  /\ rpc = "flush" /\ wpc = "idle"
  /\ window' = TailFrom(cursor)
  /\ rpc' = "flushing"
  /\ UNCHANGED <<writerVars, cursor, sent>>

\* The stream is over and the request returns.
Stop ==
  /\ rpc \in {"end", "gone"} /\ taskDone
  /\ UNCHANGED vars

Writer ==
  \/ \E n \in 1..MaxChunk : Write(n)
  \/ AppendLine \/ StartTrim \/ FinishTrim \/ Unlock \/ Finish

Handler == Poll \/ Send \/ Sent \/ TimerFires \/ SeeDone \/ Flush

Next == Writer \/ Handler \/ Disconnect \/ Stop

Spec == Init /\ [][Next]_vars

\* The handler's goroutine is scheduled, and of the two cases of its select
\* the done channel, once closed, is taken in the end: select chooses at
\* random among the cases that are ready.
FairSpec ==
  /\ Spec
  /\ WF_vars(Handler)
  /\ SF_vars(SeeDone)
  /\ WF_vars(AppendLine \/ StartTrim \/ FinishTrim \/ Unlock)

----------------------------------------------------------------------------
\* The buffer is always the newest lines without a gap, and at least
\* three quarters of the limit once that many were written: appendLocked
\* copies within one array and must take the newest lines of it.
BufferIsNewest ==
  /\ Buffer = [i \in 1..length |-> total - length + i]
  /\ wpc = "idle" => length >= total \/ length > Kept

\* The browser of a task that stays below the limit gets every line, once and
\* in order, before the end of the stream, however the polls interleave with
\* the writes and the end of the task. Beyond the limit a trim moves the lines
\* and not the handler's cursor and slice: lines are repeated, torn or skipped.
StreamComplete ==
  rpc = "end" /\ total <= MaxLogLines => sent = [i \in 1..total |-> i]

\* The stream ends once the task has ended, unless the browser left before.
StreamEnds == taskDone ~> rpc \in {"end", "gone"}
=============================================================================
