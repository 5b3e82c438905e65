-------------------------- MODULE BackgroundProofs --------------------------
(***************************************************************************)
(* Proofs about Background, for every value of its constants: the stream   *)
(* of a log is complete, subscribers get events in order and lose no more  *)
(* than they must, nothing is left behind that nothing can end, and every  *)
(* variable keeps its type. Every part has its inductive invariant, with a *)
(* lemma for its initial states, one for its steps (a lemma per action     *)
(* where the argument is long), one for the steps of the other parts and   *)
(* one for what it implies. The last section puts them together.           *)
(***************************************************************************)
EXTENDS Background, FiniteSetTheorems, SequenceTheorems, TLAPS

-----------------------------------------------------------------------------
(* The log of a task and its stream. The buffer is the newest lines; until  *)
(* the first trim it is all lines, the window of the handler is a part of   *)
(* them that no append touches, and what was sent is the lines up to the    *)
(* handler's position. A trim is possible only when the lines have reached  *)
(* the limit, and never after the end of the task.                          *)
LogCell == 0..MaxTotal
LogCur == arrays[Len(arrays)]
LogFirst(n) == [i \in 1..n |-> i]

LogTypes ==
    /\ arrays \in Seq(Seq(LogCell)) /\ Len(arrays) >= 1
    /\ length \in 0..MaxLogLines /\ length <= Len(LogCur) /\ length <= total
    /\ total \in 0..MaxTotal
    /\ wpc \in {"idle", "locked", "copying"}
    /\ chunk \in 0..MaxChunk /\ total + chunk <= MaxTotal
    /\ taskDone \in BOOLEAN
    /\ taskDone => wpc = "idle"
    /\ wpc = "copying" => length = MaxLogLines /\ chunk > 0

LogWindow ==
    /\ window \in [array : 1..Len(arrays), next : Nat, end : Nat]
    /\ window.next <= window.end /\ window.end <= Len(arrays[window.array])
    /\ rpc \in {"tail", "sending", "wait", "flush", "flushing", "end", "gone"}
    /\ rpc \in {"flush", "flushing", "end"} => taskDone
    /\ cursor \in Nat
    /\ sent \in Seq(LogCell)

LogNewest ==
    /\ \A i \in 1..length : LogCur[i] = total - length + i
    /\ length >= total \/ length > Log!Kept
    /\ total <= MaxLogLines => length = total

LogBelow == total <= MaxLogLines /\ wpc # "copying"
LogStream ==
    LogBelow =>
      /\ window.end <= total /\ cursor <= total
      /\ \A i \in 1..window.end : arrays[window.array][i] = i
      /\ rpc \in {"tail", "wait", "flush"} => sent = LogFirst(cursor)
      /\ rpc = "sending" => cursor = window.end /\ sent = LogFirst(window.next)
      /\ rpc = "flushing" => window.end = total /\ sent = LogFirst(window.next)
      /\ rpc = "end" => sent = LogFirst(total)

LogInv == LogTypes /\ LogWindow /\ LogNewest /\ LogStream

-----------------------------------------------------------------------------
(* The bounds; a trim keeps fewer lines than the limit.                     *)
LEMMA LogNumbers ==
    /\ MaxLogLines \in Nat \ {0} /\ MaxTotal \in Nat /\ MaxChunk \in Nat
    /\ Log!Kept \in Nat /\ Log!Kept < MaxLogLines
<1>1. MaxLogLines \in Nat \ {0} /\ MaxTotal \in Nat /\ MaxChunk \in Nat
    BY LogAssumption DEF Log!LogBounds
<1> QED
    BY <1>1 DEF Log!Kept

(* Sequences with one element replaced, with one more, and as functions.    *)
LEMMA LogPut ==
    ASSUME NEW S, NEW a \in Seq(S), NEW k \in 1..Len(a), NEW d \in S, NEW A, A = [a EXCEPT ![k] = d]
    PROVE  /\ A \in Seq(S) /\ Len(A) = Len(a) /\ A[k] = d
           /\ \A j \in 1..Len(a) : j # k => A[j] = a[j]
OBVIOUS

(* One element more.                                                        *)
LEMMA LogPush ==
    ASSUME NEW S, NEW a \in Seq(S), NEW d \in S, NEW A, A = Append(a, d)
    PROVE  /\ A \in Seq(S) /\ Len(A) = Len(a) + 1 /\ A[Len(a) + 1] = d
           /\ \A j \in 1..Len(a) : A[j] = a[j]
OBVIOUS

(* A function on an interval.                                               *)
LEMMA LogFun ==
    ASSUME NEW S, NEW n \in Nat, NEW d \in [1..n -> S]
    PROVE  d \in Seq(S) /\ Len(d) = n
OBVIOUS

(* The current array.                                                       *)
LEMMA LogCurrent == Log!Current = LogCur
BY DEF Log!Current, Log!Last, LogCur

(* One line more was sent.                                                  *)
LEMMA LogFirstMore ==
    ASSUME NEW n \in Nat
    PROVE  Append(LogFirst(n), n + 1) = LogFirst(n + 1) /\ LogFirst(n) \in Seq(Nat)
<1>1. LogFirst(n) \in Seq(Nat) /\ Len(LogFirst(n)) = n
    BY DEF LogFirst
<1>2. LogFirst(n + 1) \in Seq(Nat) /\ Len(LogFirst(n + 1)) = n + 1
    BY DEF LogFirst
<1>3. Append(LogFirst(n), n + 1) \in Seq(Nat) /\ Len(Append(LogFirst(n), n + 1)) = n + 1
    BY <1>1
<1>4. \A i \in 1..(n + 1) : Append(LogFirst(n), n + 1)[i] = LogFirst(n + 1)[i]
  <2>1. \A i \in 1..n : LogFirst(n)[i] = i
    BY DEF LogFirst
  <2>2. \A i \in 1..(n + 1) : LogFirst(n + 1)[i] = i
    BY DEF LogFirst
  <2> QED
    BY <1>1, <2>1, <2>2
<1> QED
    BY <1>1, <1>2, <1>3, <1>4

(* The invariant holds at the start.                                        *)
LEMMA LogInit == Log!Init => LogInv
<1> SUFFICES ASSUME Log!Init PROVE LogInv
    OBVIOUS
<1>1. /\ arrays = << << >> >> /\ length = 0 /\ total = 0 /\ wpc = "idle" /\ chunk = 0
      /\ taskDone = FALSE /\ rpc = "tail" /\ window = [array |-> 1, next |-> 0, end |-> 0]
      /\ cursor = 0 /\ sent = << >>
    BY DEF Log!Init
<1>2. arrays \in Seq(Seq(LogCell)) /\ Len(arrays) = 1 /\ arrays[1] = << >> /\ Len(arrays[1]) = 0
    BY <1>1
<1>3. taskDone \in BOOLEAN
    BY <1>1, Zenon
<1>4. LogTypes
    BY <1>1, <1>2, <1>3, LogNumbers DEF LogTypes, LogCur
<1>5. LogWindow
    BY <1>1, <1>2 DEF LogWindow
<1>6. LogNewest
    BY <1>1, LogNumbers DEF LogNewest
<1>7. LogStream
  <2>1. LogFirst(0) = << >>
    BY DEF LogFirst
  <2> QED
    BY <1>1, <2>1 DEF LogStream
<1> QED
    BY <1>4, <1>5, <1>6, <1>7 DEF LogInv

-----------------------------------------------------------------------------
(* What append does to the arrays.                                          *)
LogMoved(A) ==
    /\ A \in Seq(Seq(LogCell)) /\ Len(A) >= Len(arrays)
    /\ \A k \in 1..Len(arrays) : Len(A[k]) = Len(arrays[k])

(* The next element is filled, or a longer array is allocated.              *)
LEMMA LogGrows ==
    ASSUME LogTypes, total + 1 <= MaxTotal, NEW A, A = Log!Grown(total + 1)
    PROVE  /\ LogMoved(A)
           /\ length + 1 <= Len(A[Len(A)]) /\ A[Len(A)][length + 1] = total + 1
           /\ \A i \in 1..length : A[Len(A)][i] = LogCur[i]
           /\ \A k \in 1..Len(arrays) : \A i \in 1..Len(arrays[k]) :
                 i # length + 1 => A[k][i] = arrays[k][i]
<1> DEFINE L == Len(arrays)
           c == LogCur
<1>1. /\ arrays \in Seq(Seq(LogCell)) /\ L \in Nat /\ L >= 1 /\ length \in Nat /\ length <= Len(c)
      /\ total + 1 \in LogCell /\ 0 \in LogCell
    BY LogNumbers DEF LogTypes, LogCell
<1>2. c \in Seq(LogCell) /\ Len(c) \in Nat /\ c = arrays[L] /\ L \in 1..L
    BY <1>1 DEF LogCur
<1>3. CASE length < Len(c)
  <2> DEFINE d == [c EXCEPT ![length + 1] = total + 1]
  <2>1. A = [arrays EXCEPT ![L] = d]
    BY <1>1, <1>2, <1>3, LogCurrent DEF Log!Grown
  <2>2. /\ d \in Seq(LogCell) /\ Len(d) = Len(c) /\ d[length + 1] = total + 1
        /\ \A i \in 1..Len(c) : i # length + 1 => d[i] = c[i]
    BY <1>1, <1>2, <1>3
  <2> HIDE DEF d
  <2>3. /\ A \in Seq(Seq(LogCell)) /\ Len(A) = L /\ A[L] = d
        /\ \A k \in 1..L : k # L => A[k] = arrays[k]
    BY <1>1, <1>2, <2>1, <2>2, LogPut
  <2>4. ASSUME NEW k \in 1..L
        PROVE  /\ Len(A[k]) = Len(arrays[k])
               /\ \A i \in 1..Len(arrays[k]) : i # length + 1 => A[k][i] = arrays[k][i]
    <3>1. CASE k = L
      BY <1>2, <2>2, <2>3, <3>1
    <3>2. CASE k # L
      BY <2>3, <3>2
    <3> QED
      BY <3>1, <3>2
  <2>5. LogMoved(A)
    BY <1>1, <2>3, <2>4 DEF LogMoved
  <2>6. length + 1 <= Len(d)
    BY <1>1, <1>2, <1>3, <2>2
  <2>7. \A i \in 1..length : d[i] = c[i]
    BY <1>1, <1>2, <2>2
  <2> QED
    BY <2>2, <2>3, <2>4, <2>5, <2>6, <2>7
<1>4. CASE ~(length < Len(c))
  <2> DEFINE n == IF length = 0 THEN 1 ELSE 2 * length
             d == [i \in 1..n |-> IF i <= length THEN c[i] ELSE IF i = length + 1 THEN total + 1 ELSE 0]
  <2>1. A = Append(arrays, d)
    BY <1>4, LogCurrent DEF Log!Grown, Log!NoLine
  <2>2. n \in Nat /\ length + 1 <= n
    BY <1>1
  <2> HIDE DEF n
  <2>3. \A i \in 1..length : c[i] \in LogCell
    BY <1>1, <1>2
  <2>4. d \in [1..n -> LogCell]
    BY <1>1, <2>2, <2>3
  <2>5. d \in Seq(LogCell) /\ Len(d) = n
    BY <2>2, <2>4
  <2>6. d[length + 1] = total + 1 /\ \A i \in 1..length : d[i] = c[i]
    BY <1>1, <2>2
  <2> HIDE DEF d
  <2>7. /\ A \in Seq(Seq(LogCell)) /\ Len(A) = L + 1 /\ A[L + 1] = d
        /\ \A k \in 1..L : A[k] = arrays[k]
    <3>1. arrays \in Seq(Seq(LogCell)) /\ d \in Seq(LogCell) /\ A = Append(arrays, d)
      BY <1>1, <2>1, <2>5
    <3>2. /\ A \in Seq(Seq(LogCell)) /\ Len(A) = Len(arrays) + 1 /\ A[Len(arrays) + 1] = d
          /\ \A k \in 1..Len(arrays) : A[k] = arrays[k]
      BY ONLY <3>1, LogPush
    <3> QED
      BY <3>2, Zenon
  <2>8. LogMoved(A)
    BY SMTT(30), <1>1, <2>7 DEF LogMoved
  <2> QED
    BY <2>2, <2>5, <2>6, <2>7, <2>8
<1> QED
    BY <1>3, <1>4

(* What a trim does to the array.                                           *)
LEMMA LogTrims ==
    ASSUME LogTypes, wpc = "copying", NEW A,
           A = [arrays EXCEPT ![Len(arrays)] = [Log!Trimmed EXCEPT ![Log!Kept + 1] = total + 1]]
    PROVE  /\ LogMoved(A) /\ Len(A) = Len(arrays)
           /\ Log!Kept + 1 <= Len(A[Len(A)]) /\ A[Len(A)][Log!Kept + 1] = total + 1
           /\ \A i \in 1..Log!Kept : A[Len(A)][i] = LogCur[length - Log!Kept + i]
<1> DEFINE L == Len(arrays)
           c == LogCur
           K == Log!Kept
           d == [Log!Trimmed EXCEPT ![K + 1] = total + 1]
<1>1. /\ arrays \in Seq(Seq(LogCell)) /\ L \in Nat /\ L >= 1 /\ length \in Nat /\ length <= Len(c)
      /\ length = MaxLogLines /\ total + 1 \in LogCell /\ K \in Nat /\ K < length
    BY LogNumbers DEF LogTypes, LogCell
<1>2. c \in Seq(LogCell) /\ Len(c) \in Nat /\ c = arrays[L] /\ L \in 1..L
    BY <1>1 DEF LogCur
<1>3. Log!Trimmed = [i \in 1..Len(c) |-> IF i <= K THEN c[length - K + i] ELSE c[i]]
    BY LogCurrent DEF Log!Trimmed
<1>4. A = [arrays EXCEPT ![L] = d]
    OBVIOUS
<1> HIDE DEF K, c
<1>5. \A i \in 1..K : length - K + i \in 1..Len(c)
    BY <1>1, <1>2
<1>6. Log!Trimmed \in [1..Len(c) -> LogCell]
    BY <1>2, <1>3, <1>5
<1>7. K + 1 \in 1..Len(c) /\ \A i \in 1..K : i \in 1..Len(c) /\ i # K + 1 /\ i <= K
    BY <1>1, <1>2
<1>8. /\ d \in [1..Len(c) -> LogCell] /\ d[K + 1] = total + 1
      /\ \A i \in 1..K : d[i] = c[length - K + i]
    BY <1>1, <1>3, <1>6, <1>7
<1> HIDE DEF d
<1>9. d \in Seq(LogCell) /\ Len(d) = Len(c)
  <2>1. d \in [1..Len(c) -> LogCell] /\ Len(c) \in Nat
    BY <1>2, <1>8
  <2> QED
    BY ONLY <2>1, LogFun, Zenon
<1>10. /\ A \in Seq(Seq(LogCell)) /\ Len(A) = L /\ A[L] = d
       /\ \A k \in 1..L : k # L => A[k] = arrays[k]
  <2>1. arrays \in Seq(Seq(LogCell)) /\ L \in 1..Len(arrays) /\ d \in Seq(LogCell) /\ A = [arrays EXCEPT ![L] = d]
    BY <1>1, <1>2, <1>4, <1>9
  <2>2. /\ A \in Seq(Seq(LogCell)) /\ Len(A) = Len(arrays) /\ A[L] = d
        /\ \A k \in 1..Len(arrays) : k # L => A[k] = arrays[k]
    BY ONLY <2>1, LogPut
  <2> QED
    BY <2>2, Zenon
<1>11. LogMoved(A)
  <2>1. \A k \in 1..L : Len(A[k]) = Len(arrays[k])
    BY <1>2, <1>9, <1>10
  <2> QED
    <3>1. Len(A) >= Len(arrays)
      <4>1. Len(A) = L /\ L \in Nat
        BY <1>1, <1>10, ZenonT(60)
      <4> QED
        BY ONLY <4>1, SMTT(40)
    <3> QED
      BY <1>10, <2>1, <3>1 DEF LogMoved
<1>12. K + 1 <= Len(d)
    BY <1>7, <1>9
<1> QED
    BY <1>8, <1>10, <1>11, <1>12 DEF K, c

-----------------------------------------------------------------------------
(* The writer.                                                              *)
LEMMA LogSameLines ==
    ASSUME LogNewest, UNCHANGED <<arrays, length, total>>
    PROVE  LogNewest' /\ LogCur' = LogCur
BY DEF LogNewest, LogCur

(* Nothing of the handler changes.                                          *)
LEMMA LogSameReader ==
    ASSUME LogWindow, UNCHANGED <<arrays, rpc, window, cursor, sent>>, taskDone => taskDone'
    PROVE  LogWindow'
BY DEF LogWindow

(* The writer takes or gives up the lock, begins a trim or ends.            *)
LEMMA LogLocks ==
    ASSUME LogInv, (\E n \in 1..MaxChunk : Log!Write(n)) \/ Log!StartTrim \/ Log!Unlock \/ Log!Finish
    PROVE  LogInv'
<1>0. LogTypes /\ LogWindow /\ LogNewest /\ LogStream
    BY DEF LogInv
<1>1. /\ UNCHANGED <<arrays, length, total>>
      /\ UNCHANGED <<rpc, window, cursor, sent>>
      /\ taskDone => taskDone'
    BY DEF Log!Write, Log!StartTrim, Log!Unlock, Log!Finish, Log!readerVars
<1>2. LogNewest' /\ LogCur' = LogCur
    BY <1>0, <1>1, LogSameLines
<1>3. LogWindow'
    BY <1>0, <1>1, LogSameReader
<1>4. wpc # "copying"
    BY DEF Log!Write, Log!StartTrim, Log!Unlock, Log!Finish
<1>5. LogStream'
  <2>1. CASE ~LogBelow'
    BY <2>1 DEF LogStream
  <2>2. CASE LogBelow'
    <3>1. LogBelow
      BY <1>1, <1>4, <2>2 DEF LogBelow
    <3> QED
      BY <1>0, <1>1, <3>1 DEF LogStream
  <2> QED
    BY <2>1, <2>2
<1>6. LogTypes'
  <2>1. ASSUME NEW n \in 1..MaxChunk, Log!Write(n) PROVE LogTypes'
    <3>1. wpc = "idle" /\ ~taskDone /\ n <= MaxTotal - total /\ wpc' = "locked" /\ chunk' = n /\ UNCHANGED taskDone
      BY <2>1 DEF Log!Write
    <3>2. chunk' \in 0..MaxChunk /\ total' + chunk' <= MaxTotal
      BY <1>0, <1>1, <3>1, LogNumbers DEF LogTypes
    <3> QED
      BY <1>0, <1>1, <1>2, <3>1, <3>2 DEF LogTypes
  <2>2. CASE Log!StartTrim
    <3>1. wpc = "locked" /\ chunk > 0 /\ length >= MaxLogLines /\ wpc' = "copying" /\ UNCHANGED <<chunk, taskDone>>
      BY <2>2 DEF Log!StartTrim, Log!Full
    <3>2. length = MaxLogLines
      BY <1>0, <3>1, LogNumbers DEF LogTypes
    <3> QED
      BY <1>0, <1>1, <1>2, <3>1, <3>2 DEF LogTypes
  <2>3. CASE Log!Unlock
    <3>1. wpc = "locked" /\ wpc' = "idle" /\ UNCHANGED <<chunk, taskDone>>
      BY <2>3 DEF Log!Unlock
    <3> QED
      BY <1>0, <1>1, <1>2, <3>1 DEF LogTypes
  <2>4. CASE Log!Finish
    <3>1. wpc = "idle" /\ taskDone' = TRUE /\ UNCHANGED <<wpc, chunk>>
      BY <2>4 DEF Log!Finish
    <3>2. taskDone' \in BOOLEAN
      BY <3>1, Zenon
    <3> QED
      BY <1>0, <1>1, <1>2, <3>1, <3>2 DEF LogTypes
  <2> QED
    BY <2>1, <2>2, <2>3, <2>4
<1> QED
    BY <1>2, <1>3, <1>5, <1>6 DEF LogInv

(* The window of the handler lies within its array wherever that is moved.  *)
LEMMA LogWindowMoved ==
    ASSUME LogTypes, LogWindow, LogMoved(arrays'), UNCHANGED <<rpc, window, cursor, sent, taskDone>>
    PROVE  LogWindow'
<1>1. /\ Len(arrays) \in Nat /\ Len(arrays') \in Nat /\ Len(arrays) <= Len(arrays')
      /\ \A k \in 1..Len(arrays) : Len(arrays'[k]) = Len(arrays[k])
    BY DEF LogMoved, LogTypes
<1>2. window \in [array : 1..Len(arrays), next : Nat, end : Nat] /\ window.array \in 1..Len(arrays)
    BY DEF LogWindow
<1>3. 1..Len(arrays) \subseteq 1..Len(arrays')
    BY <1>1
<1>4. window' \in [array : 1..Len(arrays'), next : Nat, end : Nat]
    BY <1>2, <1>3
<1>5. Len(arrays'[window.array]) = Len(arrays[window.array])
    BY <1>1, <1>2
<1> QED
    BY <1>4, <1>5 DEF LogWindow

(* A line is appended below the limit.                                      *)
LEMMA LogAppends == ASSUME LogInv, Log!AppendLine PROVE LogInv'
<1>0. LogTypes /\ LogWindow /\ LogNewest /\ LogStream
    BY DEF LogInv
<1>1. /\ wpc = "locked" /\ chunk > 0 /\ ~(length >= MaxLogLines) /\ arrays' = Log!Grown(total + 1)
      /\ length' = length + 1 /\ total' = total + 1 /\ chunk' = chunk - 1
      /\ UNCHANGED <<wpc, taskDone>> /\ UNCHANGED <<rpc, window, cursor, sent>>
    BY DEF Log!AppendLine, Log!Full, Log!readerVars
<1>2. /\ length \in Nat /\ total \in Nat /\ chunk \in Nat /\ length <= total /\ total + chunk <= MaxTotal
      /\ length <= MaxLogLines /\ chunk <= MaxChunk /\ taskDone \in BOOLEAN
      /\ taskDone => wpc = "idle"
    BY <1>0 DEF LogTypes
<1>3. total + 1 <= MaxTotal
    BY <1>1, <1>2, LogNumbers
<1>4. /\ LogMoved(arrays')
      /\ length + 1 <= Len(arrays'[Len(arrays')]) /\ arrays'[Len(arrays')][length + 1] = total + 1
      /\ \A i \in 1..length : arrays'[Len(arrays')][i] = LogCur[i]
      /\ \A k \in 1..Len(arrays) : \A i \in 1..Len(arrays[k]) :
            i # length + 1 => arrays'[k][i] = arrays[k][i]
    BY <1>0, <1>1, <1>3, LogGrows
<1>5. LogCur' = arrays'[Len(arrays')]
    BY DEF LogCur
<1>6. LogTypes'
  <2>1. arrays' \in Seq(Seq(LogCell)) /\ Len(arrays') >= 1
    BY <1>0, <1>4 DEF LogMoved, LogTypes
  <2>2. length' \in 0..MaxLogLines /\ length' <= total' /\ total' \in 0..MaxTotal
        /\ chunk' \in 0..MaxChunk /\ total' + chunk' <= MaxTotal
    BY <1>1, <1>2, <1>3, LogNumbers
  <2>3. length' <= Len(LogCur')
    BY <1>1, <1>4, <1>5
  <2> QED
    BY <1>1, <1>2, <2>1, <2>2, <2>3 DEF LogTypes
<1>7. LogWindow'
    BY <1>0, <1>1, <1>4, LogWindowMoved
<1>8. LogNewest'
  <2>1. \A i \in 1..length : LogCur[i] = total - length + i
    BY <1>0 DEF LogNewest
  <2>2. ASSUME NEW i \in 1..length' PROVE LogCur'[i] = total' - length' + i
    <3>1. CASE i \in 1..length
      <4>1. LogCur'[i] = total - length + i
        BY <1>4, <1>5, <2>1, <3>1
      <4>2. total - length + i = total' - length' + i
        BY <1>1, <1>2, <3>1
      <4> QED
        BY <4>1, <4>2
    <3>2. CASE i = length + 1
      <4>1. LogCur'[i] = total + 1
        BY <1>4, <1>5, <3>2
      <4>2. total + 1 = total' - length' + i
        BY <1>1, <1>2, <3>2
      <4> QED
        BY <4>1, <4>2
    <3> QED
      BY <1>1, <1>2, <3>1, <3>2
  <2>3. length' >= total' \/ length' > Log!Kept
    BY <1>0, <1>1, <1>2, LogNumbers DEF LogNewest
  <2>4. total' <= MaxLogLines => length' = total'
    BY <1>0, <1>1, <1>2, LogNumbers DEF LogNewest
  <2> QED
    BY <2>2, <2>3, <2>4 DEF LogNewest
<1>9. LogStream'
  <2>1. SUFFICES ASSUME LogBelow' PROVE LogStream'
    BY DEF LogStream
  <2>2. LogBelow /\ length = total
    BY <1>0, <1>1, <1>2, <2>1, LogNumbers DEF LogBelow, LogNewest
  <2>3. /\ window.end <= total /\ cursor <= total
        /\ \A i \in 1..window.end : arrays[window.array][i] = i
        /\ rpc \in {"tail", "wait", "flush"} => sent = LogFirst(cursor)
        /\ rpc = "sending" => cursor = window.end /\ sent = LogFirst(window.next)
    BY <1>0, <2>2 DEF LogStream
  <2>4. rpc # "flushing" /\ rpc # "end"
    BY <1>0, <1>1, <1>2 DEF LogWindow
  <2>5. window.array \in 1..Len(arrays) /\ window.end \in Nat /\ cursor \in Nat
        /\ window.end <= Len(arrays[window.array])
    BY <1>0 DEF LogWindow
  <2>6. Len(arrays[window.array]) \in Nat
    BY <1>0, <2>5 DEF LogTypes
  <2>7. ASSUME NEW i \in 1..window.end PROVE arrays'[window.array][i] = i
    <3>1. i \in 1..Len(arrays[window.array]) /\ i # length + 1
      BY <1>2, <2>2, <2>3, <2>5, <2>6
    <3>2. arrays'[window.array][i] = arrays[window.array][i]
      BY <1>4, <2>5, <3>1
    <3> QED
      BY <2>3, <3>2
  <2>8. window.end <= total' /\ cursor <= total'
    BY <1>1, <1>2, <2>3, <2>5
  <2>9. /\ window'.end <= total' /\ cursor' <= total'
        /\ \A i \in 1..window'.end : arrays'[window'.array][i] = i
        /\ rpc' \in {"tail", "wait", "flush"} => sent' = LogFirst(cursor')
        /\ rpc' = "sending" => cursor' = window'.end /\ sent' = LogFirst(window'.next)
        /\ rpc' # "flushing" /\ rpc' # "end"
    BY <1>1, <2>3, <2>4, <2>7, <2>8
  <2> QED
    BY <2>9 DEF LogStream
<1> QED
    BY <1>6, <1>7, <1>8, <1>9 DEF LogInv

(* The oldest quarter goes, and a line is appended.                         *)
LEMMA LogTrimmed == ASSUME LogInv, Log!FinishTrim PROVE LogInv'
<1> DEFINE K == Log!Kept
<1>0. LogTypes /\ LogWindow /\ LogNewest
    BY DEF LogInv
<1>1. /\ wpc = "copying" /\ wpc' = "locked"
      /\ arrays' = [arrays EXCEPT ![Len(arrays)] = [Log!Trimmed EXCEPT ![K + 1] = total + 1]]
      /\ length' = K + 1 /\ total' = total + 1 /\ chunk' = chunk - 1
      /\ UNCHANGED taskDone /\ UNCHANGED <<rpc, window, cursor, sent>>
    BY DEF Log!FinishTrim, Log!readerVars
<1>2. /\ length \in Nat /\ total \in Nat /\ chunk \in Nat /\ length <= total /\ total + chunk <= MaxTotal
      /\ chunk <= MaxChunk /\ taskDone \in BOOLEAN /\ length = MaxLogLines /\ chunk > 0
      /\ ~taskDone
    BY <1>0, <1>1 DEF LogTypes
<1>3. K \in Nat /\ K < MaxLogLines /\ MaxLogLines \in Nat /\ MaxTotal \in Nat /\ MaxChunk \in Nat
    BY LogNumbers
<1>4. /\ LogMoved(arrays') /\ Len(arrays') = Len(arrays)
      /\ K + 1 <= Len(arrays'[Len(arrays')]) /\ arrays'[Len(arrays')][K + 1] = total + 1
      /\ \A i \in 1..K : arrays'[Len(arrays')][i] = LogCur[length - K + i]
    BY <1>0, <1>1, LogTrims
<1>5. LogCur' = arrays'[Len(arrays')]
    BY DEF LogCur
<1> HIDE DEF K
<1>6. LogTypes'
  <2>1. arrays' \in Seq(Seq(LogCell)) /\ Len(arrays') >= 1
    BY <1>0, <1>4 DEF LogMoved, LogTypes
  <2>2. length' \in 0..MaxLogLines /\ length' <= total' /\ total' \in 0..MaxTotal
        /\ chunk' \in 0..MaxChunk /\ total' + chunk' <= MaxTotal
    BY <1>1, <1>2, <1>3
  <2>3. length' <= Len(LogCur')
    BY <1>1, <1>4, <1>5
  <2> QED
    BY <1>1, <1>2, <2>1, <2>2, <2>3 DEF LogTypes
<1>7. LogWindow'
    BY <1>0, <1>1, <1>4, LogWindowMoved
<1>8. LogNewest'
  <2>1. \A i \in 1..length : LogCur[i] = total - length + i
    BY <1>0 DEF LogNewest
  <2>2. ASSUME NEW i \in 1..length' PROVE LogCur'[i] = total' - length' + i
    <3>1. CASE i \in 1..K
      <4>1. length - K + i \in 1..length
        BY <1>2, <1>3, <3>1
      <4>2. LogCur'[i] = total - length + (length - K + i)
        BY <1>4, <1>5, <2>1, <3>1, <4>1
      <4>3. total - length + (length - K + i) = total' - length' + i
        BY <1>1, <1>2, <1>3, <3>1
      <4> QED
        BY <4>2, <4>3
    <3>2. CASE i = K + 1
      <4>1. LogCur'[i] = total + 1
        BY <1>4, <1>5, <3>2
      <4>2. total + 1 = total' - length' + i
        BY <1>1, <1>2, <1>3, <3>2
      <4> QED
        BY <4>1, <4>2
    <3> QED
      BY <1>1, <1>3, <3>1, <3>2
  <2>3. length' > Log!Kept /\ ~(total' <= MaxLogLines)
    BY <1>1, <1>2, <1>3 DEF K
  <2> QED
    BY <2>2, <2>3 DEF LogNewest
<1>9. LogStream'
    BY <1>1, <1>2, <1>3 DEF LogStream, LogBelow
<1> QED
    BY <1>6, <1>7, <1>8, <1>9 DEF LogInv

-----------------------------------------------------------------------------
(* The handler. Its steps leave the log alone.                              *)
LEMMA LogSameTypes ==
    ASSUME LogTypes, LogNewest, UNCHANGED <<arrays, length, total, wpc, chunk, taskDone>>
    PROVE  LogTypes' /\ LogNewest' /\ (LogBelow' <=> LogBelow)
BY DEF LogTypes, LogNewest, LogCur, LogBelow

(* Tail returns a part of the buffer; below the limit it is what was not    *)
(* sent yet.                                                                *)
LEMMA LogTails ==
    ASSUME LogInv, window' = Log!TailFrom(cursor)
    PROVE  /\ window' \in [array : 1..Len(arrays), next : Nat, end : Nat]
           /\ window'.next <= window'.end /\ window'.end <= Len(arrays[window'.array])
           /\ window'.end = length
           /\ LogBelow => /\ window'.next = cursor /\ length = total
                          /\ \A i \in 1..window'.end : arrays[window'.array][i] = i
<1> DEFINE n == IF cursor >= length THEN length ELSE cursor
<1>1. window' = [array |-> Len(arrays), next |-> n, end |-> length]
    BY DEF Log!TailFrom
<1>2. /\ Len(arrays) \in Nat /\ Len(arrays) >= 1 /\ length \in Nat /\ cursor \in Nat
      /\ length <= Len(LogCur) /\ total \in Nat
    BY DEF LogInv, LogTypes, LogWindow
<1>3. n \in Nat /\ n <= length
    BY <1>2
<1>4. ASSUME LogBelow
      PROVE  n = cursor /\ length = total /\ \A i \in 1..length : LogCur[i] = i
  <2>1. length = total /\ \A i \in 1..length : LogCur[i] = total - length + i
    BY <1>4 DEF LogInv, LogNewest, LogBelow
  <2>2. cursor <= total
    BY <1>4 DEF LogInv, LogStream
  <2>3. n = cursor
    BY <1>2, <2>1, <2>2
  <2>4. \A i \in 1..length : total - length + i = i
    BY <1>2, <2>1
  <2> QED
    BY <2>1, <2>3, <2>4
<1> HIDE DEF n
<1>5. Len(arrays) \in 1..Len(arrays)
    BY <1>2
<1>6. /\ window'.array = Len(arrays) /\ window'.next = n /\ window'.end = length
      /\ window' \in [array : 1..Len(arrays), next : Nat, end : Nat]
    BY <1>1, <1>2, <1>3, <1>5
<1>7. arrays[window'.array] = LogCur
    BY <1>6 DEF LogCur
<1> QED
    BY <1>2, <1>3, <1>4, <1>6, <1>7

(* The two calls of Tail.                                                   *)
LEMMA LogPolls == ASSUME LogInv, Log!Poll \/ Log!Flush PROVE LogInv'
<1>0. LogTypes /\ LogWindow /\ LogNewest /\ LogStream
    BY DEF LogInv
<1>1. /\ UNCHANGED <<arrays, length, total, wpc, chunk, taskDone>> /\ UNCHANGED sent
      /\ window' = Log!TailFrom(cursor)
    BY DEF Log!Poll, Log!Flush, Log!writerVars
<1>2. LogTypes' /\ LogNewest' /\ (LogBelow' <=> LogBelow)
    BY <1>0, <1>1, LogSameTypes
<1>3. /\ window' \in [array : 1..Len(arrays), next : Nat, end : Nat]
      /\ window'.next <= window'.end /\ window'.end <= Len(arrays[window'.array])
      /\ window'.end = length
      /\ LogBelow => /\ window'.next = cursor /\ length = total
                     /\ \A i \in 1..window'.end : arrays[window'.array][i] = i
    BY <1>1, LogTails
<1>4. \/ rpc = "tail" /\ cursor' = length /\ rpc' = "sending"
      \/ rpc = "flush" /\ UNCHANGED cursor /\ rpc' = "flushing"
    BY DEF Log!Poll, Log!Flush
<1>5. length \in Nat /\ total \in Nat /\ cursor \in Nat /\ (rpc = "flush" => taskDone) /\ sent \in Seq(LogCell)
    BY <1>0 DEF LogTypes, LogWindow
<1>6. LogWindow'
    BY <1>1, <1>3, <1>4, <1>5 DEF LogWindow
<1>7. LogStream'
  <2> SUFFICES ASSUME LogBelow' PROVE LogStream'
    BY DEF LogStream
  <2>1. LogBelow
    BY <1>2
  <2>2. cursor <= total /\ sent = LogFirst(cursor)
    BY <1>0, <1>4, <2>1 DEF LogStream
  <2>3. /\ window'.end <= total' /\ cursor' <= total'
        /\ \A i \in 1..window'.end : arrays'[window'.array][i] = i
    BY <1>1, <1>3, <1>4, <1>5, <2>1, <2>2
  <2>4. sent' = LogFirst(window'.next) /\ window'.end = total'
    BY <1>1, <1>3, <2>1, <2>2
  <2>5. rpc' = "sending" => cursor' = window'.end
    BY <1>3, <1>4
  <2>6. rpc' \in {"sending", "flushing"}
    BY <1>4
  <2> QED
    BY <2>3, <2>4, <2>5, <2>6 DEF LogStream
<1> QED
    BY <1>2, <1>6, <1>7 DEF LogInv

(* A line is sent.                                                          *)
LEMMA LogSends == ASSUME LogInv, Log!Send PROVE LogInv'
<1> DEFINE a == window.array
           n == window.next + 1
<1>0. LogTypes /\ LogWindow /\ LogNewest /\ LogStream
    BY DEF LogInv
<1>1. /\ UNCHANGED <<arrays, length, total, wpc, chunk, taskDone>> /\ UNCHANGED <<rpc, cursor>>
      /\ rpc \in {"sending", "flushing"} /\ window.next < window.end
      /\ window' = [window EXCEPT !.next = @ + 1]
    BY DEF Log!Send, Log!writerVars
<1>2. PICK l \in Log!Readable(a, n) : sent' = Append(sent, l)
    BY DEF Log!Send
<1>3. LogTypes' /\ LogNewest' /\ (LogBelow' <=> LogBelow)
    BY <1>0, <1>1, LogSameTypes
<1>4. /\ window \in [array : 1..Len(arrays), next : Nat, end : Nat] /\ a \in 1..Len(arrays)
      /\ window.next \in Nat /\ window.end \in Nat /\ window.end <= Len(arrays[a])
      /\ sent \in Seq(LogCell) /\ cursor \in Nat
      /\ rpc \in {"flush", "flushing", "end"} => taskDone
    BY <1>0 DEF LogWindow
<1>5. /\ window' \in [array : 1..Len(arrays), next : Nat, end : Nat]
      /\ window'.array = a /\ window'.next = n /\ window'.end = window.end
    BY <1>1, <1>4
<1>6. arrays[a] \in Seq(LogCell) /\ Len(arrays[a]) \in Nat
    BY <1>0, <1>4 DEF LogTypes
<1>7. n \in 1..Len(arrays[a]) /\ n <= window.end /\ n \in Nat
    BY <1>1, <1>4, <1>6
<1>8. arrays[a][n] \in LogCell
    BY <1>6, <1>7
<1>9. l \in LogCell
  <2>1. 0 \in LogCell
    BY LogNumbers DEF LogCell
  <2>2. CASE wpc = "copying" /\ a = Len(arrays) /\ n <= Log!Kept
    <3>1. l \in {arrays[a][n], Log!Trimmed[n], 0}
      BY <1>2, <2>2 DEF Log!Readable, Log!Torn
    <3>2. /\ length \in Nat /\ length = MaxLogLines /\ length <= Len(LogCur) /\ Log!Kept \in Nat
          /\ Log!Kept < length /\ Len(LogCur) \in Nat
      BY <1>0, <1>6, <2>2, LogNumbers DEF LogTypes, LogCur
    <3>3. length - Log!Kept + n \in 1..Len(LogCur)
      BY <1>7, <2>2, <3>2
    <3>4. Log!Trimmed[n] = LogCur[length - Log!Kept + n]
      BY <1>7, <2>2, LogCurrent DEF Log!Trimmed, LogCur
    <3>5. LogCur[length - Log!Kept + n] \in LogCell
      BY <1>6, <2>2, <3>3 DEF LogCur
    <3> QED
      BY <1>8, <2>1, <3>1, <3>4, <3>5
  <2>3. CASE ~(wpc = "copying" /\ a = Len(arrays) /\ n <= Log!Kept)
    <3>1. l = arrays[a][n]
      BY <1>2, <2>3 DEF Log!Readable
    <3> QED
      BY <1>8, <3>1
  <2> QED
    BY <2>2, <2>3
<1>10. sent' \in Seq(LogCell)
    BY <1>2, <1>4, <1>9
<1>11. LogWindow'
    BY <1>1, <1>4, <1>5, <1>7, <1>10 DEF LogWindow
<1>12. LogStream'
  <2> SUFFICES ASSUME LogBelow' PROVE LogStream'
    BY DEF LogStream
  <2>1. LogBelow
    BY <1>3
  <2>2. /\ window.end <= total /\ cursor <= total
        /\ \A i \in 1..window.end : arrays[a][i] = i
        /\ rpc = "sending" => cursor = window.end /\ sent = LogFirst(window.next)
        /\ rpc = "flushing" => window.end = total /\ sent = LogFirst(window.next)
    BY <1>0, <2>1 DEF LogStream
  <2>3. l = n
    <3>1. l = arrays[a][n]
      BY <1>2, <2>1 DEF Log!Readable, LogBelow
    <3>2. n \in 1..window.end
      BY <1>4, <1>7
    <3> QED
      BY <2>2, <3>1, <3>2
  <2>4. sent = LogFirst(window.next)
    BY <1>1, <2>2
  <2>5. sent' = LogFirst(n)
    BY <1>2, <1>4, <2>3, <2>4, LogFirstMore
  <2>6. /\ window'.end <= total' /\ cursor' <= total'
        /\ \A i \in 1..window'.end : arrays'[window'.array][i] = i
        /\ sent' = LogFirst(window'.next)
        /\ rpc' = "sending" => cursor' = window'.end
        /\ rpc' = "flushing" => window'.end = total'
        /\ rpc' \in {"sending", "flushing"}
    BY <1>1, <1>5, <2>2, <2>5
  <2> QED
    BY <2>6 DEF LogStream
<1> QED
    BY <1>3, <1>11, <1>12 DEF LogInv

(* The round is over, the select chooses, or the browser is gone.           *)
LEMMA LogChooses ==
    ASSUME LogInv, Log!Sent \/ Log!TimerFires \/ Log!SeeDone \/ Log!Disconnect
    PROVE  LogInv'
<1>0. LogTypes /\ LogWindow /\ LogNewest /\ LogStream
    BY DEF LogInv
<1>1. /\ UNCHANGED <<arrays, length, total, wpc, chunk, taskDone>> /\ UNCHANGED <<window, cursor, sent>>
    BY DEF Log!Sent, Log!TimerFires, Log!SeeDone, Log!Disconnect, Log!writerVars
<1>2. LogTypes' /\ LogNewest' /\ (LogBelow' <=> LogBelow)
    BY <1>0, <1>1, LogSameTypes
<1>3. \/ rpc = "sending" /\ window.next = window.end /\ rpc' = "wait"
      \/ rpc = "flushing" /\ window.next = window.end /\ rpc' = "end"
      \/ rpc = "wait" /\ rpc' = "tail"
      \/ rpc = "wait" /\ taskDone /\ rpc' = "flush"
      \/ rpc' = "gone"
    BY DEF Log!Sent, Log!TimerFires, Log!SeeDone, Log!AfterDone, Log!Disconnect
<1>4. LogWindow'
    BY <1>0, <1>1, <1>3 DEF LogWindow
<1>5. LogStream'
    BY <1>0, <1>1, <1>2, <1>3 DEF LogStream
<1> QED
    BY <1>2, <1>4, <1>5 DEF LogInv

(* The invariant holds on while the part does nothing.                      *)
LEMMA LogStutter == LogInv /\ UNCHANGED logVars => LogInv'
<1> SUFFICES ASSUME LogInv, UNCHANGED logVars PROVE LogInv'
    OBVIOUS
<1>1. UNCHANGED <<arrays, length, total, wpc, chunk, taskDone, rpc, window, cursor, sent>>
    BY DEF logVars
<1>2. LogTypes' /\ LogNewest' /\ (LogBelow' <=> LogBelow)
    BY <1>1, LogSameTypes DEF LogInv
<1>3. LogWindow'
    BY <1>1, LogSameReader DEF LogInv
<1>4. LogStream'
    BY <1>1, <1>2 DEF LogInv, LogStream
<1> QED
    BY <1>2, <1>3, <1>4 DEF LogInv

(* Every step of the log keeps the invariant.                               *)
LEMMA LogStep == LogInv /\ Log!Next => LogInv'
<1> SUFFICES ASSUME LogInv, Log!Next PROVE LogInv'
    OBVIOUS
<1>1. CASE Log!Writer
    BY <1>1, LogLocks, LogAppends, LogTrimmed DEF Log!Writer
<1>2. CASE Log!Handler
    BY <1>2, LogPolls, LogSends, LogChooses DEF Log!Handler
<1>3. CASE Log!Disconnect
    BY <1>3, LogChooses
<1>4. CASE Log!Stop
    BY <1>4, LogStutter DEF Log!Stop, Log!vars, Log!writerVars, Log!readerVars, logVars
<1> QED
    BY <1>1, <1>2, <1>3, <1>4 DEF Log!Next

(* What the invariant says: the types, the buffer and the stream.           *)
LEMMA LogShows == LogInv => Log!TypeOK /\ Log!BufferIsNewest /\ Log!StreamComplete
<1> SUFFICES ASSUME LogInv PROVE Log!TypeOK /\ Log!BufferIsNewest /\ Log!StreamComplete
    OBVIOUS
<1>0. LogTypes /\ LogWindow /\ LogNewest /\ LogStream
    BY DEF LogInv
<1>1. LogCell = Log!Line \cup {Log!NoLine} /\ LogCell = Log!Line \cup {Log!Torn}
    BY LogNumbers DEF LogCell, Log!Line, Log!NoLine, Log!Torn
<1>2. Log!TypeOK
  <2>1. arrays # << >>
    BY <1>0 DEF LogTypes
  <2> QED
    BY <1>0, <1>1, <2>1 DEF Log!TypeOK, LogTypes, LogWindow
<1>3. Log!BufferIsNewest
  <2>1. /\ LogCur \in Seq(LogCell) /\ length \in Nat /\ length <= Len(LogCur)
        /\ \A i \in 1..length : LogCur[i] = total - length + i
    BY <1>0 DEF LogTypes, LogNewest, LogCur
  <2>2. SubSeq(LogCur, 1, length) = [i \in 1..length |-> LogCur[i]]
    BY <2>1
  <2>3. Log!Buffer = [i \in 1..length |-> total - length + i]
    BY <2>1, <2>2, LogCurrent DEF Log!Buffer
  <2> QED
    BY <1>0, <2>3 DEF Log!BufferIsNewest, LogNewest
<1>4. Log!StreamComplete
  <2> SUFFICES ASSUME rpc = "end", total <= MaxLogLines PROVE sent = LogFirst(total)
    BY DEF Log!StreamComplete, LogFirst
  <2>1. wpc # "copying"
    BY <1>0 DEF LogWindow, LogTypes
  <2> QED
    BY <1>0, <2>1 DEF LogStream, LogBelow
<1> QED
    BY <1>2, <1>3, <1>4

-----------------------------------------------------------------------------
(* The event bus. What a subscription has taken and what its queue holds is *)
(* in the order of publication and was offered to it; what it lost is the   *)
(* rest, so the losses can be counted. While Publish holds the lock its     *)
(* event is newer than all that the subscribers to come have seen, and      *)
(* between its two sends the queue has room, since nobody else fills it.    *)
(* The subscription of an id that is not closed stands under every event    *)
(* of the plugin's list, so that the next Subscribe finds it.               *)
BusSub == [id : Ids, queue : Seq(Nat), closed : BOOLEAN,
           pc : {"idle", "delivering", "waiting", "gone"}, evt : Nat,
           attempt : 0..MaxAttempts, offered : Seq(Nat), taken : Seq(Nat)]

BusIncreasing(q) == \A i, j \in 1..Len(q) : i < j => q[i] < q[j]
BusElems(q) == {q[i] : i \in 1..Len(q)}
BusHas(r) == BusElems(r.queue) \cup BusElems(r.taken)
BusLost(r) == BusElems(r.offered) \ BusHas(r)

BusOrder(r) ==
    /\ BusIncreasing(r.queue) /\ BusIncreasing(r.taken)
    /\ \A x \in BusElems(r.taken), y \in BusElems(r.queue) : x < y

BusCount(r) ==
    /\ BusHas(r) \subseteq BusElems(r.offered)
    /\ IsFiniteSet(BusLost(r))
    /\ Cardinality(BusLost(r)) = Len(r.offered) - Len(r.queue) - Len(r.taken)

-----------------------------------------------------------------------------
(* The elements of a sequence after Append, of its Head and Tail, and of a  *)
(* concatenation.                                                           *)
LEMMA BusElemsAppend ==
    ASSUME NEW q \in Seq(Nat), NEW e \in Nat
    PROVE  /\ Append(q, e) \in Seq(Nat) /\ Len(Append(q, e)) = Len(q) + 1
           /\ BusElems(Append(q, e)) = BusElems(q) \cup {e}
<1>1. /\ Append(q, e) \in Seq(Nat) /\ Len(q) \in Nat /\ Len(Append(q, e)) = Len(q) + 1
      /\ \A i \in 1..Len(q) : Append(q, e)[i] = q[i]
      /\ Append(q, e)[Len(q) + 1] = e
    OBVIOUS
<1> DEFINE a == Append(q, e)
<1> HIDE DEF a
<1>2. ASSUME NEW x PROVE x \in BusElems(a) <=> x \in BusElems(q) \cup {e}
  <2>1. 1..(Len(q) + 1) = 1..Len(q) \cup {Len(q) + 1}
    BY <1>1
  <2> QED
    BY <1>1, <2>1 DEF BusElems, a
<1> QED
    BY <1>1, <1>2 DEF a

(* A sequence with its first element taken away.                            *)
LEMMA BusElemsTail ==
    ASSUME NEW q \in Seq(Nat), q # << >>
    PROVE  /\ Tail(q) \in Seq(Nat) /\ Len(q) \in Nat \ {0} /\ Len(Tail(q)) = Len(q) - 1
           /\ Head(q) \in Nat /\ Head(q) = q[1]
           /\ \A i \in 1..Len(Tail(q)) : Tail(q)[i] = q[i + 1]
           /\ BusElems(q) = BusElems(Tail(q)) \cup {Head(q)}
<1>1. /\ Tail(q) \in Seq(Nat) /\ Len(q) \in Nat \ {0} /\ Len(Tail(q)) = Len(q) - 1
      /\ Head(q) \in Nat /\ Head(q) = q[1]
      /\ \A i \in 1..Len(Tail(q)) : Tail(q)[i] = q[i + 1]
    OBVIOUS
<1> DEFINE t == Tail(q)
           h == Head(q)
<1> HIDE DEF t, h
<1>2. ASSUME NEW x PROVE x \in BusElems(q) <=> x \in BusElems(t) \cup {h}
  <2>0. /\ Len(t) = Len(q) - 1 /\ h = q[1] /\ \A i \in 1..Len(t) : t[i] = q[i + 1]
    BY <1>1 DEF t, h
  <2>1. ASSUME x \in BusElems(q) PROVE x \in BusElems(t) \cup {h}
    <3>1. PICK i \in 1..Len(q) : x = q[i]
      BY <2>1 DEF BusElems
    <3>2. CASE i = 1
      BY <2>0, <3>1, <3>2
    <3>3. CASE i # 1
      <4>1. i - 1 \in 1..Len(t) /\ (i - 1) + 1 = i
        BY <1>1, <2>0, <3>3
      <4>2. t[i - 1] = q[i]
        BY <2>0, <4>1
      <4> QED
        BY <3>1, <4>1, <4>2 DEF BusElems
    <3> QED
      BY <3>2, <3>3
  <2>2. ASSUME x \in BusElems(t) \cup {h} PROVE x \in BusElems(q)
    <3>1. CASE x = h
      <4>1. 1 \in 1..Len(q)
        BY <1>1
      <4> QED
        BY <2>0, <3>1, <4>1 DEF BusElems
    <3>2. CASE x \in BusElems(t)
      <4>1. PICK i \in 1..Len(t) : x = t[i]
        BY <3>2 DEF BusElems
      <4>2. i + 1 \in 1..Len(q) /\ x = q[i + 1]
        BY <1>1, <2>0, <4>1
      <4> QED
        BY <4>2 DEF BusElems
    <3> QED
      BY <2>2, <3>1, <3>2
  <2> QED
    BY <2>1, <2>2
<1> QED
    BY <1>1, <1>2 DEF t, h

(* Elements are those that ToSet finds.                                     *)
LEMMA BusElemsAre ==
    /\ BusElems(<< >>) = {}
    /\ \A q \in Seq(Nat) : BusElems(q) \subseteq Nat /\ Len(q) \in Nat
    /\ \A q \in Seq(Nat) : Bus!ToSet(q) = BusElems(q)
    /\ \A p, q \in Seq(Nat) : Bus!ToSet(p \o q) = BusElems(p) \cup BusElems(q)
<1>1. BusElems(<< >>) = {}
    BY DEF BusElems
<1>2. \A q \in Seq(Nat) : BusElems(q) \subseteq Nat /\ Len(q) \in Nat
    BY DEF BusElems
<1>3. \A q \in Seq(Nat) : Bus!ToSet(q) = BusElems(q)
    BY DEF BusElems, Bus!ToSet
<1>4. ASSUME NEW p \in Seq(Nat), NEW q \in Seq(Nat)
      PROVE  Bus!ToSet(p \o q) = BusElems(p) \cup BusElems(q)
  <2> DEFINE c == p \o q
  <2>1. /\ c \in Seq(Nat) /\ Len(p) \in Nat /\ Len(q) \in Nat /\ Len(c) = Len(p) + Len(q)
        /\ \A i \in 1..Len(p) : c[i] = p[i]
        /\ \A i \in 1..Len(q) : c[Len(p) + i] = q[i]
    OBVIOUS
  <2>2. Bus!ToSet(c) = BusElems(c)
    BY <1>3, <2>1
  <2> HIDE DEF c
  <2>3. ASSUME NEW x \in BusElems(c) PROVE x \in BusElems(p) \cup BusElems(q)
    <3>1. PICK i \in 1..Len(c) : x = c[i]
      BY DEF BusElems
    <3>2. CASE i <= Len(p)
      <4>1. i \in 1..Len(p) /\ x = p[i]
        BY <2>1, <3>1, <3>2
      <4> QED
        BY <4>1 DEF BusElems
    <3>3. CASE i > Len(p)
      <4>1. i - Len(p) \in 1..Len(q) /\ Len(p) + (i - Len(p)) = i
        BY <2>1, <3>3
      <4>2. c[i] = q[i - Len(p)]
        BY <2>1, <4>1
      <4> QED
        BY <3>1, <4>1, <4>2 DEF BusElems
    <3> QED
      BY <2>1, <3>2, <3>3
  <2>4. ASSUME NEW x \in BusElems(p) PROVE x \in BusElems(c)
    <3>1. PICK i \in 1..Len(p) : x = p[i]
      BY DEF BusElems
    <3>2. i \in 1..Len(c) /\ x = c[i]
      BY <2>1, <3>1
    <3> QED
      BY <3>2 DEF BusElems
  <2>5. ASSUME NEW x \in BusElems(q) PROVE x \in BusElems(c)
    <3>1. PICK i \in 1..Len(q) : x = q[i]
      BY DEF BusElems
    <3>2. Len(p) + i \in 1..Len(c) /\ x = c[Len(p) + i]
      BY <2>1, <3>1, SMTT(40)
    <3> QED
      BY <3>2 DEF BusElems
  <2> QED
    BY <2>2, <2>3, <2>4, <2>5 DEF c
<1> QED
    BY <1>1, <1>2, <1>3, <1>4

-----------------------------------------------------------------------------
(* An event that is newer than all of a queue can be appended to it, and    *)
(* the oldest can be removed.                                               *)
LEMMA BusIncreasingAppend ==
    ASSUME NEW q \in Seq(Nat), NEW e \in Nat, BusIncreasing(q), \A x \in BusElems(q) : x < e
    PROVE  BusIncreasing(Append(q, e))
<1>1. /\ Len(q) \in Nat /\ Len(Append(q, e)) = Len(q) + 1
      /\ \A i \in 1..Len(q) : Append(q, e)[i] = q[i] /\ q[i] \in BusElems(q)
      /\ Append(q, e)[Len(q) + 1] = e
    BY DEF BusElems
<1> DEFINE a == Append(q, e)
<1> HIDE DEF a
<1> SUFFICES ASSUME NEW i \in 1..(Len(q) + 1), NEW j \in 1..(Len(q) + 1), i < j
             PROVE  a[i] < a[j]
    BY <1>1 DEF BusIncreasing, a
<1>2. i \in 1..Len(q)
    BY <1>1
<1>3. CASE j \in 1..Len(q)
    BY <1>1, <1>2, <1>3 DEF BusIncreasing, a
<1>4. CASE j = Len(q) + 1
    BY <1>1, <1>2, <1>4 DEF a
<1> QED
    BY <1>1, <1>3, <1>4

(* The oldest event taken out.                                              *)
LEMMA BusIncreasingTail ==
    ASSUME NEW q \in Seq(Nat), q # << >>, BusIncreasing(q)
    PROVE  BusIncreasing(Tail(q)) /\ \A x \in BusElems(Tail(q)) : Head(q) < x
<1> DEFINE t == Tail(q)
<1>1. /\ t \in Seq(Nat) /\ Len(q) \in Nat \ {0} /\ Len(t) = Len(q) - 1 /\ Head(q) = q[1]
      /\ \A i \in 1..Len(t) : t[i] = q[i + 1]
    BY BusElemsTail
<1> HIDE DEF t
<1>2. \A i \in 1..Len(t) : i + 1 \in 1..Len(q) /\ 1 < i + 1
    BY <1>1
<1>3. 1 \in 1..Len(q)
    BY <1>1
<1>4. ASSUME NEW i \in 1..Len(t), NEW j \in 1..Len(t), i < j
      PROVE  t[i] < t[j]
  <2>1. i + 1 < j + 1
    BY <1>1, <1>4
  <2>2. q[i + 1] < q[j + 1]
    BY <1>2, <2>1 DEF BusIncreasing
  <2> QED
    BY <1>1, <2>2
<1>5. ASSUME NEW x \in BusElems(t) PROVE q[1] < x
  <2>1. PICK i \in 1..Len(t) : x = t[i]
    BY DEF BusElems
  <2>2. q[1] < q[i + 1]
    BY <1>2, <1>3 DEF BusIncreasing
  <2> QED
    BY <1>1, <2>1, <2>2
<1> QED
    BY <1>1, <1>4, <1>5 DEF BusIncreasing, t

(* A loss more, a loss less.                                                *)
LEMMA BusCardinal ==
    ASSUME NEW S, IsFiniteSet(S), NEW e
    PROVE  /\ Cardinality(S) \in Nat
           /\ e \notin S => IsFiniteSet(S \cup {e}) /\ Cardinality(S \cup {e}) = Cardinality(S) + 1
           /\ e \in S => IsFiniteSet(S \ {e}) /\ Cardinality(S \ {e}) = Cardinality(S) - 1
BY FS_CardinalityType, FS_AddElement, FS_RemoveElement

(* The sums of the events offered, queued and taken.                        *)
LEMMA BusSums ==
    \A o, k, t \in Nat : /\ (o - k - t) + 1 = o - (k - 1) - t
                         /\ o - k - t = o - (k - 1) - (t + 1)
                         /\ 0 - 0 - 0 = 0
OBVIOUS

(* The sums of the events queued and taken.                                 *)
LEMMA BusSumsOf ==
    \A k, t \in Nat : /\ (k - 1) + (t + 1) = k + t /\ k - 1 <= k
                      /\ (k + 1) + t = k + t + 1 /\ ((k - 1) + t) + 1 = k + t
                      /\ k + t \in Nat
OBVIOUS

(* A full queue.                                                            *)
LEMMA BusSumsFull == \A k, t, z \in Nat : ~(k < z) => k + t >= z
OBVIOUS

(* The newest element.                                                      *)
LEMMA BusNewest ==
    \A q \in Seq(Nat), e \in Nat : Append(q, e)[Len(Append(q, e))] = e /\ Append(q, e) # << >>
OBVIOUS

(* The first send finds room.                                               *)
LEMMA BusSends ==
    ASSUME NEW r \in BusSub, BusOrder(r), BusCount(r), NEW e \in Nat,
           \A x \in BusElems(r.offered) : x < e, NEW q \in BusSub,
           q.offered = Append(r.offered, e), q.queue = Append(r.queue, e), q.taken = r.taken
    PROVE  /\ BusOrder(q) /\ BusCount(q) /\ BusLost(q) = BusLost(r)
           /\ Len(q.queue) = Len(r.queue) + 1 /\ Len(q.offered) = Len(r.offered) + 1
           /\ BusHas(q) = BusHas(r) \cup {e} /\ BusElems(q.offered) = BusElems(r.offered) \cup {e}
<1>1. r.queue \in Seq(Nat) /\ r.offered \in Seq(Nat) /\ r.taken \in Seq(Nat)
    BY DEF BusSub
<1>2. /\ BusElems(q.queue) = BusElems(r.queue) \cup {e} /\ Len(q.queue) = Len(r.queue) + 1
      /\ BusElems(q.offered) = BusElems(r.offered) \cup {e} /\ Len(q.offered) = Len(r.offered) + 1
    BY <1>1, BusElemsAppend
<1>3. \A x \in BusHas(r) : x < e
    BY DEF BusCount
<1>4. BusIncreasing(q.queue)
    BY <1>1, <1>3, BusIncreasingAppend DEF BusHas, BusOrder
<1>5. BusOrder(q)
    BY <1>2, <1>3, <1>4 DEF BusOrder, BusHas
<1>6. BusHas(q) = BusHas(r) \cup {e} /\ BusLost(q) = BusLost(r)
  <2>1. e \notin BusElems(r.offered)
    OBVIOUS
  <2> QED
    BY <1>2, <2>1 DEF BusHas, BusLost
<1>7. BusCount(q)
  <2>1. Len(r.queue) \in Nat /\ Len(r.offered) \in Nat /\ Len(r.taken) \in Nat
    BY <1>1
  <2>2. BusHas(q) \subseteq BusElems(q.offered)
    BY <1>2, <1>6 DEF BusCount
  <2>3. Cardinality(BusLost(q)) = Len(q.offered) - Len(q.queue) - Len(q.taken)
    BY <1>2, <1>6, <2>1 DEF BusCount
  <2> QED
    BY <1>6, <2>2, <2>3 DEF BusCount
<1> QED
    BY <1>2, <1>5, <1>6, <1>7

(* The first send finds the queue full: for now the event is a loss.        *)
LEMMA BusOverflows ==
    ASSUME NEW r \in BusSub, BusOrder(r), BusCount(r), NEW e \in Nat,
           \A x \in BusElems(r.offered) : x < e, NEW q \in BusSub,
           q.offered = Append(r.offered, e), q.queue = r.queue, q.taken = r.taken
    PROVE  /\ BusOrder(q) /\ BusCount(q) /\ e \in BusLost(q) /\ \A x \in BusHas(q) : x < e
           /\ BusElems(q.offered) = BusElems(r.offered) \cup {e} /\ Len(q.offered) = Len(r.offered) + 1
<1>1. r.queue \in Seq(Nat) /\ r.offered \in Seq(Nat) /\ r.taken \in Seq(Nat)
    BY DEF BusSub
<1>2. BusElems(q.offered) = BusElems(r.offered) \cup {e} /\ Len(q.offered) = Len(r.offered) + 1
    BY <1>1, BusElemsAppend
<1>3. BusHas(q) = BusHas(r)
    BY DEF BusHas
<1>4. \A x \in BusHas(r) : x < e
    BY DEF BusCount
<1>5. e \notin BusElems(r.offered) /\ e \notin BusHas(r)
    BY <1>4
<1>6. BusLost(q) = BusLost(r) \cup {e} /\ e \notin BusLost(r)
    BY <1>2, <1>3, <1>5 DEF BusLost
<1>7. BusCount(q)
  <2>1. Len(r.queue) \in Nat /\ Len(r.offered) \in Nat /\ Len(r.taken) \in Nat
    BY <1>1
  <2>2. IsFiniteSet(BusLost(q)) /\ Cardinality(BusLost(q)) = Cardinality(BusLost(r)) + 1
    BY <1>6, BusCardinal DEF BusCount
  <2>3. Cardinality(BusLost(q)) = Len(q.offered) - Len(q.queue) - Len(q.taken)
    BY <1>2, <2>1, <2>2 DEF BusCount
  <2> QED
    BY <1>2, <1>3, <2>2, <2>3 DEF BusCount
<1>8. BusOrder(q)
    BY DEF BusOrder
<1> QED
    BY <1>2, <1>3, <1>4, <1>6, <1>7, <1>8

(* The oldest event is taken out of the queue and lost.                     *)
LEMMA BusEvicts ==
    ASSUME NEW r \in BusSub, BusOrder(r), BusCount(r), r.queue # << >>, NEW q \in BusSub,
           q.offered = r.offered, q.queue = Tail(r.queue), q.taken = r.taken
    PROVE  /\ BusOrder(q) /\ BusCount(q) /\ BusLost(r) \subseteq BusLost(q)
           /\ BusHas(q) \subseteq BusHas(r) /\ Len(q.queue) = Len(r.queue) - 1
<1> DEFINE h == Head(r.queue)
<1>1. r.queue \in Seq(Nat) /\ r.offered \in Seq(Nat) /\ r.taken \in Seq(Nat)
    BY DEF BusSub
<1>2. /\ BusElems(r.queue) = BusElems(q.queue) \cup {h} /\ Len(q.queue) = Len(r.queue) - 1
      /\ h \in Nat
    BY <1>1, BusElemsTail
<1>3. BusIncreasing(q.queue) /\ \A x \in BusElems(q.queue) : h < x
    BY <1>1, BusIncreasingTail DEF BusOrder
<1> HIDE DEF h
<1>4. h \notin BusElems(q.queue) /\ h \notin BusElems(r.taken)
  <2>1. h \in BusElems(r.queue)
    BY <1>2
  <2>2. \A x \in BusElems(r.taken) : x < h
    BY <2>1 DEF BusOrder
  <2>3. ~(h < h)
    BY <1>2
  <2> QED
    BY <1>3, <2>2, <2>3
<1>5. BusOrder(q)
    BY <1>2, <1>3 DEF BusOrder
<1>6. BusHas(r) = BusHas(q) \cup {h} /\ h \notin BusHas(q)
    BY <1>2, <1>4 DEF BusHas
<1>7. BusLost(q) = BusLost(r) \cup {h} /\ h \notin BusLost(r)
    BY <1>6 DEF BusLost, BusCount
<1>8. BusCount(q)
  <2>1. Len(r.queue) \in Nat /\ Len(r.offered) \in Nat /\ Len(r.taken) \in Nat
    BY <1>1
  <2>2. IsFiniteSet(BusLost(q)) /\ Cardinality(BusLost(q)) = Cardinality(BusLost(r)) + 1
    BY <1>7, BusCardinal DEF BusCount
  <2>a. Cardinality(BusLost(r)) = Len(r.offered) - Len(r.queue) - Len(r.taken)
    BY DEF BusCount
  <2>b. Len(q.offered) = Len(r.offered) /\ Len(q.taken) = Len(r.taken)
    OBVIOUS
  <2>d. (Len(r.offered) - Len(r.queue) - Len(r.taken)) + 1 = Len(r.offered) - (Len(r.queue) - 1) - Len(r.taken)
    BY <2>1, BusSums, Zenon
  <2>3. Cardinality(BusLost(q)) = Len(q.offered) - Len(q.queue) - Len(q.taken)
    BY <1>2, <2>2, <2>a, <2>b, <2>d, Zenon
  <2> QED
    BY <1>6, <2>2, <2>3 DEF BusCount
<1> QED
    BY <1>2, <1>5, <1>6, <1>7, <1>8

(* The second send: the event is no loss any more.                          *)
LEMMA BusResends ==
    ASSUME NEW r \in BusSub, BusOrder(r), BusCount(r), NEW e \in Nat, e \in BusElems(r.offered),
           \A x \in BusHas(r) : x < e, NEW q \in BusSub,
           q.offered = r.offered, q.queue = Append(r.queue, e), q.taken = r.taken
    PROVE  /\ BusOrder(q) /\ BusCount(q) /\ BusLost(q) = BusLost(r) \ {e}
           /\ BusHas(q) = BusHas(r) \cup {e} /\ Len(q.queue) = Len(r.queue) + 1
<1>1. r.queue \in Seq(Nat) /\ r.offered \in Seq(Nat) /\ r.taken \in Seq(Nat)
    BY DEF BusSub
<1>2. BusElems(q.queue) = BusElems(r.queue) \cup {e} /\ Len(q.queue) = Len(r.queue) + 1
    BY <1>1, BusElemsAppend
<1>3. BusIncreasing(q.queue)
    BY <1>1, BusIncreasingAppend DEF BusHas, BusOrder
<1>4. BusOrder(q)
    BY <1>2, <1>3 DEF BusOrder, BusHas
<1>5. BusHas(q) = BusHas(r) \cup {e} /\ e \notin BusHas(r)
    BY <1>2 DEF BusHas
<1>6. BusLost(q) = BusLost(r) \ {e} /\ e \in BusLost(r)
    BY <1>5 DEF BusLost
<1>7. BusCount(q)
  <2>1. Len(r.queue) \in Nat /\ Len(r.offered) \in Nat /\ Len(r.taken) \in Nat
    BY <1>1
  <2>c. IsFiniteSet(BusLost(r))
    BY DEF BusCount
  <2>2. IsFiniteSet(BusLost(q)) /\ Cardinality(BusLost(q)) = Cardinality(BusLost(r)) - 1
    BY <1>6, <2>c, BusCardinal
  <2>a. Cardinality(BusLost(r)) = Len(r.offered) - Len(r.queue) - Len(r.taken)
    BY DEF BusCount
  <2>b. Len(q.offered) = Len(r.offered) /\ Len(q.taken) = Len(r.taken)
    OBVIOUS
  <2>3. Cardinality(BusLost(q)) = Len(q.offered) - Len(q.queue) - Len(q.taken)
    BY <1>2, <2>1, <2>2, <2>a, <2>b
  <2> QED
    BY <1>5, <2>2, <2>3 DEF BusCount
<1> QED
    BY <1>2, <1>4, <1>5, <1>6, <1>7

(* The goroutine takes the oldest event: nothing is lost by that.           *)
LEMMA BusTakes ==
    ASSUME NEW r \in BusSub, BusOrder(r), BusCount(r), r.queue # << >>, NEW q \in BusSub,
           q.offered = r.offered, q.queue = Tail(r.queue), q.taken = Append(r.taken, Head(r.queue))
    PROVE  /\ BusOrder(q) /\ BusCount(q) /\ BusLost(q) = BusLost(r) /\ BusHas(q) = BusHas(r)
           /\ Len(q.queue) = Len(r.queue) - 1 /\ Len(q.taken) = Len(r.taken) + 1
<1> DEFINE h == Head(r.queue)
<1>1. r.queue \in Seq(Nat) /\ r.offered \in Seq(Nat) /\ r.taken \in Seq(Nat)
    BY DEF BusSub
<1>2. /\ BusElems(r.queue) = BusElems(q.queue) \cup {h} /\ Len(q.queue) = Len(r.queue) - 1
      /\ h \in Nat
    BY <1>1, BusElemsTail
<1>3. BusIncreasing(q.queue) /\ \A x \in BusElems(q.queue) : h < x
    BY <1>1, BusIncreasingTail DEF BusOrder
<1>4. q.taken = Append(r.taken, h)
    OBVIOUS
<1> HIDE DEF h
<1>5. \A x \in BusElems(r.taken) : x < h
    BY <1>2 DEF BusOrder
<1>6. BusElems(q.taken) = BusElems(r.taken) \cup {h} /\ Len(q.taken) = Len(r.taken) + 1
    BY <1>1, <1>2, <1>4, BusElemsAppend
<1>7. BusIncreasing(q.taken)
    BY <1>1, <1>2, <1>4, <1>5, BusIncreasingAppend DEF BusOrder
<1>8. BusOrder(q)
    BY <1>2, <1>3, <1>6, <1>7 DEF BusOrder
<1>9. BusHas(q) = BusHas(r) /\ BusLost(q) = BusLost(r)
    BY <1>2, <1>6 DEF BusHas, BusLost
<1>10. BusCount(q)
  <2>1. Len(r.queue) \in Nat /\ Len(r.offered) \in Nat /\ Len(r.taken) \in Nat
    BY <1>1
  <2>a. Cardinality(BusLost(r)) = Len(r.offered) - Len(r.queue) - Len(r.taken)
    BY DEF BusCount
  <2>b. Len(q.offered) = Len(r.offered)
    OBVIOUS
  <2>d. Len(r.offered) - Len(r.queue) - Len(r.taken) = Len(r.offered) - (Len(r.queue) - 1) - (Len(r.taken) + 1)
    BY <2>1, BusSums, Zenon
  <2>2. Cardinality(BusLost(q)) = Len(q.offered) - Len(q.queue) - Len(q.taken)
    BY <1>2, <1>6, <1>9, <2>a, <2>b, <2>d, Zenon
  <2> QED
    BY <1>9, <2>2 DEF BusCount
<1> QED
    BY <1>2, <1>6, <1>8, <1>9, <1>10

(* What does not touch a subscription's queue and lists.                    *)
LEMMA BusSameLists ==
    ASSUME NEW r, NEW q, BusOrder(r), BusCount(r),
           q.offered = r.offered, q.queue = r.queue, q.taken = r.taken
    PROVE  BusOrder(q) /\ BusCount(q) /\ BusLost(q) = BusLost(r) /\ BusHas(q) = BusHas(r)
BY DEF BusOrder, BusCount, BusLost, BusHas

-----------------------------------------------------------------------------
(* The invariant of the bus.                                                *)
BusNums == 1..Len(sub)

BusTypes ==
    /\ sub \in Seq(BusSub) /\ Len(sub) <= MaxSubs
    /\ published \in 0..MaxEvents
    /\ DOMAIN starting = Starters
    /\ \A p \in Starters :
          /\ starting[p] \in Seq(Ids) /\ Len(starting[p]) <= 1
          /\ starting[p] # << >> => Events[Head(starting[p])] # << >>

BusQueues ==
    \A s \in BusNums :
        /\ Len(sub[s].queue) <= QueueSize
        /\ sub[s].pc = "waiting" => sub[s].attempt < MaxAttempts
        /\ BusOrder(sub[s]) /\ BusCount(sub[s])
        /\ BusElems(sub[s].offered) \subseteq 1..published

BusPub ==
    /\ DOMAIN pub = {"name", "evt", "todo", "on", "step"}
    /\ pub.step \in {"next", "try", "evict", "put", "done"}
    /\ pub.todo \subseteq BusNums
    /\ pub.step # "done" => pub.evt = published /\ published >= 1
    /\ \A s \in pub.todo : \A x \in BusElems(sub[s].offered) : x < published
    /\ pub.step \in {"try", "evict", "put"} => pub.on \in BusNums /\ pub.on \notin pub.todo
    /\ pub.step = "try" => \A x \in BusElems(sub[pub.on].offered) : x < published
    /\ pub.step \in {"evict", "put"} =>
          /\ published \in BusElems(sub[pub.on].offered)
          /\ sub[pub.on].offered # << >>
          /\ sub[pub.on].offered[Len(sub[pub.on].offered)] = published
          /\ \A x \in BusHas(sub[pub.on]) : x < published

BusBetween(s) == pub.on = s /\ pub.step \in {"evict", "put"}
BusSum(r) == Len(r.queue) + Len(r.taken)
BusSettled(r) ==
    /\ r.offered # << >> => r.offered[Len(r.offered)] \in BusHas(r)
    /\ BusLost(r) # {} => BusSum(r) >= QueueSize

BusRoom ==
    /\ \A s \in BusNums : ~BusBetween(s) => BusSettled(sub[s])
    /\ pub.step = "evict" => BusSum(sub[pub.on]) >= QueueSize
    /\ pub.step = "put" => BusSum(sub[pub.on]) + 1 >= QueueSize /\ Len(sub[pub.on].queue) < QueueSize

BusList(i) == Bus!ToSet(Events[i])

BusRegistered ==
    /\ subs \in [Names -> [Ids -> 0..Len(sub)]]
    /\ \A n \in Names, i \in Ids : subs[n][i] # 0 => n \in BusList(i) /\ sub[subs[n][i]].id = i
    /\ \A i \in Ids : \A m, n \in BusList(i) : subs[m][i] = subs[n][i]
    /\ \A s \in BusNums : ~sub[s].closed =>
          BusList(sub[s].id) # {} /\ \A n \in BusList(sub[s].id) : subs[n][sub[s].id] = s

BusInv == BusTypes /\ BusQueues /\ BusPub /\ BusRoom /\ BusRegistered

-----------------------------------------------------------------------------
(* The bounds, and the event lists.                                         *)
LEMMA BusNumbers ==
    /\ QueueSize \in Nat \ {0} /\ MaxAttempts \in Nat \ {0} /\ MaxEvents \in Nat /\ MaxSubs \in Nat
    /\ Events \in [Ids -> Seq(Names)]
BY BusAssumption DEF Bus!BusBounds

(* The names in an event list are names, and a list that is not empty has   *)
(* one.                                                                     *)
LEMMA BusLists ==
    ASSUME NEW i \in Ids
    PROVE  /\ BusList(i) \subseteq Names
           /\ BusList(i) = {Events[i][k] : k \in 1..Len(Events[i])} /\ Len(Events[i]) \in Nat
           /\ Events[i] # << >> => BusList(i) # {} /\ Len(Events[i]) >= 1
<1>1. Events[i] \in Seq(Names)
    BY BusNumbers
<1>2. Len(Events[i]) \in Nat /\ DOMAIN Events[i] = 1..Len(Events[i])
    BY <1>1
<1>3. BusList(i) = {Events[i][k] : k \in 1..Len(Events[i])}
    BY <1>2 DEF BusList, Bus!ToSet
<1>4. BusList(i) \subseteq Names
    BY <1>1, <1>3
<1>5. ASSUME Events[i] # << >> PROVE Len(Events[i]) >= 1
    BY <1>1, <1>2, <1>5
<1>6. ASSUME Len(Events[i]) >= 1 PROVE Events[i][1] \in BusList(i)
  <2>1. 1 \in 1..Len(Events[i])
    BY <1>2, <1>6
  <2> QED
    BY <1>3, <2>1
<1> QED
    BY <1>2, <1>3, <1>4, <1>5, <1>6

(* Outside of Publish the lock is free.                                     *)
LEMMA BusNoPub ==
    /\ Bus!NoPub.step = "done" /\ Bus!NoPub.todo = {} /\ Bus!NoPub.on = 0
    /\ DOMAIN Bus!NoPub = {"name", "evt", "todo", "on", "step"}
BY DEF Bus!NoPub

(* A subscription that has been offered nothing.                            *)
LEMMA BusFresh ==
    ASSUME NEW r \in BusSub, r.queue = << >>, r.offered = << >>, r.taken = << >>
    PROVE  BusOrder(r) /\ BusCount(r) /\ BusSettled(r) /\ BusElems(r.offered) = {}
<1>1. BusElems(r.queue) = {} /\ BusElems(r.offered) = {} /\ BusElems(r.taken) = {}
    BY BusElemsAre
<1>2. BusHas(r) = {} /\ BusLost(r) = {}
    BY <1>1 DEF BusHas, BusLost
<1>3. IsFiniteSet({}) /\ Cardinality({}) = 0
    BY FS_EmptySet
<1>4. Len(r.offered) - Len(r.queue) - Len(r.taken) = 0
  <2>1. Len(r.offered) = 0 /\ Len(r.queue) = 0 /\ Len(r.taken) = 0
    OBVIOUS
  <2> QED
    BY <2>1, BusSums, Zenon
<1>5. BusOrder(r)
    BY <1>1 DEF BusOrder, BusIncreasing
<1> QED
    BY <1>1, <1>2, <1>3, <1>4, <1>5 DEF BusCount, BusSettled

(* The invariant holds at the start.                                        *)
LEMMA BusInit == Bus!Init => BusInv
<1> SUFFICES ASSUME Bus!Init PROVE BusInv
    OBVIOUS
<1>1. sub = << >> /\ published = 0 /\ pub = Bus!NoPub
    BY DEF Bus!Init
<1>2. BusNums = {}
    BY <1>1 DEF BusNums
<1>3. BusTypes
    BY <1>1, BusNumbers DEF BusTypes, Bus!Init, Bus!NoStart
<1>4. BusQueues
    BY <1>2 DEF BusQueues
<1>5. BusPub /\ BusRoom
    BY <1>1, <1>2, BusNoPub DEF BusPub, BusRoom
<1>6. BusRegistered
  <2>1. Len(sub) = 0 /\ subs = [n \in Names |-> [i \in Ids |-> 0]]
    BY <1>1 DEF Bus!Init
  <2>2. \A i \in Ids : BusList(i) \subseteq Names
    BY BusLists
  <2> QED
    BY <1>2, <2>1, <2>2 DEF BusRegistered
<1> QED
    BY <1>3, <1>4, <1>5, <1>6 DEF BusInv

(* One subscription changes.                                                *)
LEMMA BusUpdate ==
    ASSUME BusTypes, NEW s \in BusNums, NEW q \in BusSub, sub' = [sub EXCEPT ![s] = q]
    PROVE  /\ sub' \in Seq(BusSub) /\ Len(sub') = Len(sub) /\ BusNums' = BusNums
           /\ sub'[s] = q /\ \A t \in BusNums \ {s} : sub'[t] = sub[t]
<1>1. sub \in Seq(BusSub)
    BY DEF BusTypes
<1>2. sub' \in Seq(BusSub) /\ Len(sub') = Len(sub)
    BY <1>1 DEF BusNums
<1> QED
    BY <1>1, <1>2 DEF BusNums

(* Nothing about registrations changes.                                     *)
LEMMA BusStillRegistered ==
    ASSUME BusRegistered, UNCHANGED subs, Len(sub') = Len(sub), BusNums' = BusNums,
           \A s \in BusNums : sub'[s].id = sub[s].id /\ sub'[s].closed = sub[s].closed
    PROVE  BusRegistered'
<1>1. \A n \in Names, i \in Ids : subs[n][i] # 0 => subs[n][i] \in BusNums
    BY DEF BusRegistered, BusNums
<1>2. \A n \in Names, i \in Ids : subs[n][i] # 0 => n \in BusList(i) /\ sub[subs[n][i]].id = i
    BY DEF BusRegistered
<1>3. \A s \in BusNums : ~sub[s].closed =>
          BusList(sub[s].id) # {} /\ \A n \in BusList(sub[s].id) : subs[n][sub[s].id] = s
    BY DEF BusRegistered
<1>4. \A n \in Names, i \in Ids : subs'[n][i] # 0 => n \in BusList(i) /\ sub'[subs'[n][i]].id = i
    BY <1>1, <1>2
<1>5. \A s \in BusNums' : ~sub'[s].closed =>
          BusList(sub'[s].id) # {} /\ \A n \in BusList(sub'[s].id) : subs'[n][sub'[s].id] = s
    BY <1>3
<1>6. subs' \in [Names -> [Ids -> 0..Len(sub')]]
    BY DEF BusRegistered
<1>7. \A i \in Ids : \A m, n \in BusList(i) : subs'[m][i] = subs'[n][i]
    BY DEF BusRegistered
<1>8. \A i : BusList(i)' = BusList(i)
    BY DEF BusList
<1> QED
    BY <1>4, <1>5, <1>6, <1>7, <1>8 DEF BusRegistered

-----------------------------------------------------------------------------
(* The goroutines of the subscriptions.                                     *)
BusAlike(r, q) ==
    /\ q.offered = r.offered /\ BusHas(q) = BusHas(r) /\ BusLost(q) = BusLost(r)
    /\ BusSum(q) = BusSum(r) /\ Len(q.queue) <= Len(r.queue)
    /\ q.id = r.id /\ q.closed = r.closed

(* A goroutine moves its subscription's events and loses none.              *)
LEMMA BusConsumes ==
    ASSUME BusInv, NEW s \in BusNums, NEW q \in BusSub, sub' = [sub EXCEPT ![s] = q],
           BusOrder(q), BusCount(q), BusAlike(sub[s], q),
           q.pc = "waiting" => q.attempt < MaxAttempts,
           UNCHANGED <<subs, published, pub, starting>>
    PROVE  BusInv'
<1>0. BusTypes /\ BusQueues /\ BusPub /\ BusRoom /\ BusRegistered
    BY DEF BusInv
<1>1. /\ sub' \in Seq(BusSub) /\ Len(sub') = Len(sub) /\ BusNums' = BusNums
      /\ sub'[s] = q /\ \A t \in BusNums \ {s} : sub'[t] = sub[t]
    BY <1>0, BusUpdate
<1>2. \A t \in BusNums : sub[t] \in BusSub
    BY <1>0 DEF BusTypes, BusNums
<1>3. \A t \in BusNums : Len(sub[t].queue) \in Nat /\ Len(sub'[t].queue) \in Nat
  <2>1. \A r \in BusSub : Len(r.queue) \in Nat
    BY DEF BusSub
  <2> QED
    BY <1>1, <1>2, <2>1
<1>4. ASSUME NEW t \in BusNums PROVE BusAlike(sub[t], sub'[t])
  <2>1. CASE t = s
    BY <1>1, <2>1
  <2>2. CASE t # s
    BY <1>1, <1>3, <2>2 DEF BusAlike
  <2> QED
    BY <2>1, <2>2
<1>5. BusTypes'
    BY <1>0, <1>1 DEF BusTypes
<1>6. BusQueues'
  <2> SUFFICES ASSUME NEW t \in BusNums
               PROVE  /\ Len(sub'[t].queue) <= QueueSize
                      /\ sub'[t].pc = "waiting" => sub'[t].attempt < MaxAttempts
                      /\ BusOrder(sub'[t]) /\ BusCount(sub'[t])
                      /\ BusElems(sub'[t].offered) \subseteq 1..published
    BY <1>1 DEF BusQueues
  <2>1. /\ Len(sub[t].queue) <= QueueSize
        /\ sub[t].pc = "waiting" => sub[t].attempt < MaxAttempts
        /\ BusOrder(sub[t]) /\ BusCount(sub[t])
        /\ BusElems(sub[t].offered) \subseteq 1..published
    BY <1>0 DEF BusQueues
  <2>2. Len(sub'[t].queue) <= Len(sub[t].queue) /\ sub'[t].offered = sub[t].offered
    BY <1>4 DEF BusAlike
  <2>3. Len(sub'[t].queue) <= QueueSize
    BY <1>3, <2>1, <2>2, BusNumbers
  <2>4. CASE t = s
    BY <1>1, <2>1, <2>2, <2>3, <2>4
  <2>5. CASE t # s
    BY <1>1, <2>1, <2>2, <2>3, <2>5
  <2> QED
    BY <2>4, <2>5
<1>7. \A t \in BusNums : /\ sub'[t].offered = sub[t].offered /\ BusHas(sub'[t]) = BusHas(sub[t])
                         /\ BusLost(sub'[t]) = BusLost(sub[t]) /\ BusSum(sub'[t]) = BusSum(sub[t])
                         /\ Len(sub'[t].queue) <= Len(sub[t].queue)
                         /\ sub'[t].id = sub[t].id /\ sub'[t].closed = sub[t].closed
    BY <1>4 DEF BusAlike
<1>8. BusPub'
  <2>1. BusPub
    BY <1>0
  <2> QED
    BY <1>1, <1>7, <2>1 DEF BusPub
<1>9. BusRoom'
  <2>1. /\ \A t \in BusNums : ~BusBetween(t) => BusSettled(sub[t])
        /\ pub.step = "evict" => BusSum(sub[pub.on]) >= QueueSize
        /\ pub.step = "put" => BusSum(sub[pub.on]) + 1 >= QueueSize /\ Len(sub[pub.on].queue) < QueueSize
    BY <1>0 DEF BusRoom
  <2>2. pub.step \in {"evict", "put"} => pub.on \in BusNums
    BY <1>0 DEF BusPub
  <2>3. \A t \in BusNums : BusSettled(sub[t]) => BusSettled(sub'[t])
    BY <1>7 DEF BusSettled
  <2>4. \A t : BusBetween(t)' <=> BusBetween(t)
    BY DEF BusBetween
  <2>5. pub.step = "put" => Len(sub'[pub.on].queue) < QueueSize
    BY <1>3, <1>7, <2>1, <2>2, BusNumbers
  <2> QED
    BY <1>1, <1>7, <2>1, <2>2, <2>3, <2>4, <2>5 DEF BusRoom
<1>10. BusRegistered'
    BY <1>0, <1>1, <1>7, BusStillRegistered
<1> QED
    BY <1>5, <1>6, <1>8, <1>9, <1>10 DEF BusInv

(* The steps of a goroutine.                                                *)
LEMMA BusConsumer ==
    ASSUME BusInv, NEW s \in BusNums, Bus!Consume(s)
    PROVE  BusInv'
<1> DEFINE r == sub[s]
           q == sub'[s]
<1>0. UNCHANGED <<subs, published, pub, starting>>
    BY DEF Bus!Consume, Bus!Take, Bus!Leave, Bus!Deliver, Bus!AttemptFails, Bus!HandlerPanics,
       Bus!Retry, Bus!AbandonRetries
<1>1. /\ sub \in Seq(BusSub) /\ r \in BusSub /\ DOMAIN sub = BusNums
      /\ r.pc = "waiting" => r.attempt < MaxAttempts
      /\ BusOrder(r) /\ BusCount(r)
    BY DEF BusInv, BusTypes, BusQueues, BusNums
<1>2. CASE Bus!Take(s)
  <2>1. /\ r.queue # << >>
        /\ sub' = [sub EXCEPT ![s] = [r EXCEPT !.pc = "delivering", !.evt = Head(r.queue),
                        !.queue = Tail(r.queue), !.attempt = 1,
                        !.taken = Append(r.taken, Head(r.queue))]]
    BY <1>2 DEF Bus!Take
  <2>2. r.queue \in Seq(Nat) /\ r.taken \in Seq(Nat)
    BY <1>1 DEF BusSub
  <2>3. /\ Tail(r.queue) \in Seq(Nat) /\ Head(r.queue) \in Nat
        /\ Append(r.taken, Head(r.queue)) \in Seq(Nat)
    BY <2>1, <2>2, BusElemsTail, BusElemsAppend
  <2>4. 1 \in 0..MaxAttempts
    BY BusNumbers
  <2>5. q = [r EXCEPT !.pc = "delivering", !.evt = Head(r.queue), !.queue = Tail(r.queue),
                      !.attempt = 1, !.taken = Append(r.taken, Head(r.queue))]
        /\ sub' = [sub EXCEPT ![s] = q]
    BY <1>1, <2>1
  <2>6. /\ q \in BusSub /\ q.offered = r.offered /\ q.queue = Tail(r.queue)
        /\ q.taken = Append(r.taken, Head(r.queue)) /\ q.id = r.id /\ q.closed = r.closed
        /\ q.pc = "delivering"
    BY <1>1, <2>3, <2>4, <2>5 DEF BusSub
  <2> HIDE DEF q, r
  <2>7. /\ BusOrder(q) /\ BusCount(q) /\ BusLost(q) = BusLost(r) /\ BusHas(q) = BusHas(r)
        /\ Len(q.queue) = Len(r.queue) - 1 /\ Len(q.taken) = Len(r.taken) + 1
    BY <1>1, <2>1, <2>6, BusTakes
  <2>8. Len(r.queue) \in Nat /\ Len(r.taken) \in Nat
    BY <2>2
  <2>9. BusSum(q) = BusSum(r) /\ Len(q.queue) <= Len(r.queue)
    <3>1. /\ (Len(r.queue) - 1) + (Len(r.taken) + 1) = Len(r.queue) + Len(r.taken)
          /\ Len(r.queue) - 1 <= Len(r.queue)
      BY <2>8, BusSumsOf
    <3> QED
      BY <2>7, <3>1, Zenon DEF BusSum
  <2>10. BusAlike(r, q)
    BY <2>6, <2>7, <2>9 DEF BusAlike
  <2>11. q.pc = "waiting" => q.attempt < MaxAttempts
    BY <2>6
  <2> QED
    BY <1>0, <2>5, <2>6, <2>7, <2>10, <2>11, BusConsumes DEF q, r
<1>3. CASE ~Bus!Take(s)
  <2>1. PICK c \in {"idle", "delivering", "waiting", "gone"}, a \in 0..MaxAttempts :
           /\ sub' = [sub EXCEPT ![s] = [r EXCEPT !.pc = c, !.attempt = a]]
           /\ c = "waiting" => a < MaxAttempts
    <3>0. r.attempt \in 0..MaxAttempts
      BY <1>1 DEF BusSub
    <3>1. CASE Bus!Leave(s)
      BY <1>1, <3>0, <3>1 DEF Bus!Leave, BusSub
    <3>2. CASE Bus!Deliver(s)
      BY <1>1, <3>0, <3>2 DEF Bus!Deliver, BusSub
    <3>3. CASE Bus!AttemptFails(s)
      <4>1. CASE r.attempt = MaxAttempts
        BY <1>1, <3>0, <3>3, <4>1 DEF Bus!AttemptFails, BusSub
      <4>2. CASE r.attempt # MaxAttempts
        <5>1. r.attempt < MaxAttempts
          BY <3>0, <4>2, BusNumbers
        <5> QED
          BY <1>1, <3>0, <3>3, <4>2, <5>1 DEF Bus!AttemptFails, BusSub
      <4> QED
        BY <4>1, <4>2
    <3>4. CASE Bus!HandlerPanics(s)
      BY <1>1, <3>0, <3>4 DEF Bus!HandlerPanics, Bus!AfterPanic, BusSub
    <3>5. CASE Bus!Retry(s)
      <4>1. r.pc = "waiting" /\ sub' = [sub EXCEPT ![s] = [r EXCEPT !.pc = "delivering", !.attempt = r.attempt + 1]]
        BY <1>1, <3>5 DEF Bus!Retry, BusSub
      <4>2. r.attempt + 1 \in 0..MaxAttempts
        BY <1>1, <3>0, <4>1, BusNumbers
      <4> QED
        BY <4>1, <4>2
    <3>6. CASE Bus!AbandonRetries(s)
      BY <1>1, <3>0, <3>6 DEF Bus!AbandonRetries, BusSub
    <3> QED
      BY <1>3, <3>1, <3>2, <3>3, <3>4, <3>5, <3>6 DEF Bus!Consume
  <2>2. q = [r EXCEPT !.pc = c, !.attempt = a] /\ sub' = [sub EXCEPT ![s] = q]
    BY <1>1, <2>1
  <2>3. /\ q \in BusSub /\ q.offered = r.offered /\ q.queue = r.queue /\ q.taken = r.taken
        /\ q.id = r.id /\ q.closed = r.closed /\ q.pc = c /\ q.attempt = a
    BY <1>1, <2>2 DEF BusSub
  <2> HIDE DEF q, r
  <2>4. BusOrder(q) /\ BusCount(q) /\ BusLost(q) = BusLost(r) /\ BusHas(q) = BusHas(r)
    BY <1>1, <2>3, BusSameLists
  <2>5. Len(r.queue) \in Nat
    BY <1>1 DEF BusSub
  <2>6. BusAlike(r, q)
    BY <2>3, <2>4, <2>5 DEF BusAlike, BusSum
  <2> QED
    BY <1>0, <2>1, <2>2, <2>3, <2>4, <2>6, BusConsumes DEF q, r
<1> QED
    BY <1>2, <1>3

-----------------------------------------------------------------------------
(* Publish takes the lock: its event is newer than all before.              *)
LEMMA BusPublishes ==
    ASSUME BusInv, NEW n \in Names, Bus!Publish(n)
    PROVE  BusInv'
<1>0. BusTypes /\ BusQueues /\ BusPub /\ BusRoom /\ BusRegistered
    BY DEF BusInv
<1>1. /\ pub = Bus!NoPub /\ published < MaxEvents /\ published' = published + 1
      /\ pub' = [name |-> n, evt |-> published + 1,
                 todo |-> {subs[n][i] : i \in Ids} \ {0}, on |-> 0, step |-> "next"]
      /\ UNCHANGED <<subs, sub, starting>>
    BY DEF Bus!Publish, Bus!Locked
<1>2. /\ DOMAIN pub' = {"name", "evt", "todo", "on", "step"} /\ pub'.step = "next"
      /\ pub'.evt = published' /\ pub'.todo = {subs[n][i] : i \in Ids} \ {0}
    BY <1>1
<1>3. published \in Nat /\ published' \in 0..MaxEvents /\ published' >= 1
    BY <1>0, <1>1, BusNumbers DEF BusTypes
<1>4. BusNums' = BusNums
    BY <1>1 DEF BusNums
<1>5. BusTypes'
    BY <1>0, <1>1, <1>3 DEF BusTypes
<1>6. \A s \in BusNums : BusElems(sub[s].offered) \subseteq 1..published
    BY <1>0 DEF BusQueues
<1>7. BusQueues'
  <2>1. 1..published \subseteq 1..published'
    BY <1>1, <1>3
  <2> QED
    BY <1>0, <1>1, <1>4, <2>1 DEF BusQueues
<1>8. BusPub'
  <2>1. pub'.todo \subseteq BusNums
    BY <1>0, <1>2 DEF BusRegistered, BusNums
  <2>2. \A s \in BusNums : \A x \in BusElems(sub[s].offered) : x < published'
    BY <1>1, <1>3, <1>6
  <2>3. \A s \in pub'.todo : \A x \in BusElems(sub'[s].offered) : x < published'
    BY <1>1, <2>1, <2>2
  <2> QED
    BY <1>2, <1>3, <1>4, <2>1, <2>3 DEF BusPub
<1>9. BusRoom'
  <2>1. \A s : ~BusBetween(s) /\ ~BusBetween(s)'
    BY <1>1, <1>2, BusNoPub DEF BusBetween
  <2>2. \A s \in BusNums : BusSettled(sub[s])
    BY <1>0, <2>1 DEF BusRoom
  <2>3. \A s \in BusNums' : BusSettled(sub'[s])
    BY <1>1, <1>4, <2>2
  <2>4. \A s \in BusNums' : ~BusBetween(s)' => BusSettled(sub[s])'
    BY <1>1, <2>3 DEF BusSettled, BusHas, BusLost, BusSum, BusElems
  <2> QED
    BY <1>2, <2>4 DEF BusRoom
<1>10. BusRegistered'
    BY <1>0, <1>1, <1>4, BusStillRegistered
<1> QED
    BY <1>5, <1>7, <1>8, <1>9, <1>10 DEF BusInv

(* Publish goes to the next subscriber, or releases the lock.               *)
LEMMA BusMovesOn ==
    ASSUME BusInv, Bus!NextSubscriber
    PROVE  BusInv'
<1>0. BusTypes /\ BusQueues /\ BusPub /\ BusRoom /\ BusRegistered
    BY DEF BusInv
<1>1. pub.step = "next" /\ UNCHANGED <<subs, sub, published, starting>>
    BY DEF Bus!NextSubscriber
<1>2. BusNums' = BusNums
    BY <1>1 DEF BusNums
<1>3. BusTypes' /\ BusQueues'
    BY <1>0, <1>1, <1>2 DEF BusTypes, BusQueues
<1>4. BusRegistered'
    BY <1>0, <1>1, <1>2, BusStillRegistered
<1>5. \A s : ~BusBetween(s)
    BY <1>1 DEF BusBetween
<1>6. \A s \in BusNums : BusSettled(sub[s])
    BY <1>0, <1>5 DEF BusRoom
<1>7. ASSUME pub'.step \notin {"evict", "put"} PROVE BusRoom'
  <2>1. \A s \in BusNums' : BusSettled(sub'[s])
    BY <1>1, <1>2, <1>6
  <2>2. \A s \in BusNums' : BusSettled(sub[s])'
    BY <1>1, <2>1 DEF BusSettled, BusHas, BusLost, BusSum, BusElems
  <2> QED
    BY <1>7, <2>2 DEF BusRoom
<1>8. CASE pub.todo = {}
  <2>1. pub' = Bus!NoPub
    BY <1>8 DEF Bus!NextSubscriber
  <2>2. pub'.step = "done" /\ pub'.todo = {} /\ DOMAIN pub' = {"name", "evt", "todo", "on", "step"}
    BY <2>1, BusNoPub
  <2>3. BusPub'
    BY <2>2 DEF BusPub
  <2> QED
    BY <1>3, <1>4, <1>7, <2>2, <2>3 DEF BusInv
<1>9. CASE pub.todo # {}
  <2>1. PICK s \in pub.todo : pub' = [pub EXCEPT !.todo = @ \ {s}, !.on = s, !.step = "try"]
    BY <1>9 DEF Bus!NextSubscriber
  <2>2. /\ DOMAIN pub = {"name", "evt", "todo", "on", "step"} /\ pub.todo \subseteq BusNums
        /\ pub.evt = published /\ published >= 1
        /\ \A u \in pub.todo : \A x \in BusElems(sub[u].offered) : x < published
    BY <1>0, <1>1 DEF BusPub
  <2>3. /\ DOMAIN pub' = {"name", "evt", "todo", "on", "step"} /\ pub'.step = "try"
        /\ pub'.todo = pub.todo \ {s} /\ pub'.on = s /\ pub'.evt = pub.evt
    BY <2>1, <2>2
  <2>4. BusPub'
    BY <1>1, <1>2, <2>2, <2>3 DEF BusPub
  <2> QED
    BY <1>3, <1>4, <1>7, <2>3, <2>4 DEF BusInv
<1> QED
    BY <1>8, <1>9

(* Publish is at a subscription whose queue and lists it changes.           *)
LEMMA BusAtOne ==
    ASSUME BusInv, NEW s \in BusNums, pub.on = s, pub.step \in {"try", "evict", "put"},
           NEW q \in BusSub, sub' = [sub EXCEPT ![s] = q], NEW c \in {"next", "evict", "put"},
           pub' = [pub EXCEPT !.step = c], UNCHANGED <<subs, published, starting>>,
           q.id = sub[s].id, q.closed = sub[s].closed, q.pc = sub[s].pc, q.attempt = sub[s].attempt,
           BusOrder(q), BusCount(q), Len(q.queue) <= QueueSize,
           BusElems(q.offered) \subseteq 1..published,
           c = "next" => BusSettled(q),
           c = "evict" => BusSum(q) >= QueueSize,
           c = "put" => BusSum(q) + 1 >= QueueSize /\ Len(q.queue) < QueueSize,
           c \in {"evict", "put"} =>
              /\ published \in BusElems(q.offered) /\ q.offered # << >>
              /\ q.offered[Len(q.offered)] = published
              /\ \A x \in BusHas(q) : x < published
    PROVE  BusInv'
<1>0. BusTypes /\ BusQueues /\ BusPub /\ BusRoom /\ BusRegistered
    BY DEF BusInv
<1>1. /\ sub' \in Seq(BusSub) /\ Len(sub') = Len(sub) /\ BusNums' = BusNums
      /\ sub'[s] = q /\ \A t \in BusNums \ {s} : sub'[t] = sub[t]
    BY <1>0, BusUpdate
<1>2. /\ DOMAIN pub = {"name", "evt", "todo", "on", "step"} /\ pub.todo \subseteq BusNums
      /\ pub.evt = published /\ published >= 1 /\ s \notin pub.todo
      /\ \A u \in pub.todo : \A x \in BusElems(sub[u].offered) : x < published
    BY <1>0 DEF BusPub
<1>3. /\ DOMAIN pub' = {"name", "evt", "todo", "on", "step"} /\ pub'.step = c
      /\ pub'.todo = pub.todo /\ pub'.on = s /\ pub'.evt = pub.evt
    BY <1>2
<1>4. BusTypes'
    BY <1>0, <1>1 DEF BusTypes
<1>5. BusQueues'
  <2> SUFFICES ASSUME NEW t \in BusNums
               PROVE  /\ Len(sub'[t].queue) <= QueueSize
                      /\ sub'[t].pc = "waiting" => sub'[t].attempt < MaxAttempts
                      /\ BusOrder(sub'[t]) /\ BusCount(sub'[t])
                      /\ BusElems(sub'[t].offered) \subseteq 1..published
    BY <1>1 DEF BusQueues
  <2>1. /\ Len(sub[t].queue) <= QueueSize
        /\ sub[t].pc = "waiting" => sub[t].attempt < MaxAttempts
        /\ BusOrder(sub[t]) /\ BusCount(sub[t])
        /\ BusElems(sub[t].offered) \subseteq 1..published
    BY <1>0 DEF BusQueues
  <2>2. CASE t = s
    BY <1>1, <2>1, <2>2
  <2>3. CASE t # s
    BY <1>1, <2>1, <2>3
  <2> QED
    BY <2>2, <2>3
<1>6. BusPub'
  <2>1. \A u \in pub'.todo : \A x \in BusElems(sub'[u].offered) : x < published
    BY <1>1, <1>2, <1>3
  <2>2. pub'.step # "done" /\ pub'.step # "try" /\ pub'.evt = published' /\ published' >= 1
    BY <1>2, <1>3
  <2>3. pub'.todo \subseteq BusNums' /\ pub'.on \in BusNums' /\ pub'.on \notin pub'.todo
    BY <1>1, <1>2, <1>3
  <2>4. sub'[pub'.on] = q
    BY <1>1, <1>3
  <2>5. pub'.step \in {"evict", "put"} =>
          /\ published' \in BusElems(sub'[pub'.on].offered)
          /\ sub'[pub'.on].offered # << >>
          /\ sub'[pub'.on].offered[Len(sub'[pub'.on].offered)] = published'
          /\ \A x \in BusHas(sub'[pub'.on]) : x < published'
    BY <1>3, <2>4
  <2>6. pub'.step \in {"next", "try", "evict", "put", "done"}
    BY <1>3
  <2>7. \A u \in pub'.todo : \A x \in BusElems(sub'[u].offered) : x < published'
    BY <2>1
  <2> QED
    BY <1>3, <2>2, <2>3, <2>5, <2>6, <2>7 DEF BusPub
<1>7. BusRoom'
  <2>1. \A t \in BusNums \ {s} : BusSettled(sub[t])
    BY <1>0 DEF BusRoom, BusBetween
  <2>2. \A t \in BusNums \ {s} : BusSettled(sub'[t])
    BY <1>1, <2>1
  <2>3. ~BusBetween(s)' => c = "next"
    BY <1>3 DEF BusBetween
  <2>4. ~BusBetween(s)' => BusSettled(sub'[s])
    BY <1>1, <2>3
  <2>5. \A t \in BusNums' : ~BusBetween(t)' => BusSettled(sub'[t])
    BY <1>1, <2>2, <2>4
  <2>6. sub'[pub'.on] = q
    BY <1>1, <1>3
  <2>7. pub'.step = "evict" => BusSum(sub'[pub'.on]) >= QueueSize
    BY <1>3, <2>6
  <2>8. pub'.step = "put" => BusSum(sub'[pub'.on]) + 1 >= QueueSize /\ Len(sub'[pub'.on].queue) < QueueSize
    BY <1>3, <2>6
  <2> QED
    BY <2>5, <2>7, <2>8 DEF BusRoom
<1>8. BusRegistered'
    BY <1>0, <1>1, BusStillRegistered
<1> QED
    BY <1>4, <1>5, <1>6, <1>7, <1>8 DEF BusInv

(* The sends and the eviction.                                              *)
LEMMA BusFirstSend ==
    ASSUME BusInv, Bus!TrySend
    PROVE  BusInv'
<1> DEFINE s == pub.on
           r == sub[s]
           q == sub'[s]
<1>1. /\ pub.step = "try" /\ s \in BusNums /\ pub.evt = published /\ published \in Nat /\ published >= 1
      /\ \A x \in BusElems(r.offered) : x < published
    BY DEF Bus!TrySend, BusInv, BusPub, BusTypes
<1>2. /\ sub \in Seq(BusSub) /\ r \in BusSub /\ DOMAIN sub = BusNums
      /\ BusOrder(r) /\ BusCount(r) /\ Len(r.queue) <= QueueSize
      /\ BusElems(r.offered) \subseteq 1..published
    BY <1>1 DEF BusInv, BusTypes, BusQueues, BusNums
<1>3. r.queue \in Seq(Nat) /\ r.offered \in Seq(Nat) /\ r.taken \in Seq(Nat)
    BY <1>2 DEF BusSub
<1>4. UNCHANGED <<subs, published, starting>>
    BY DEF Bus!TrySend
<1>5. Append(r.offered, published) \in Seq(Nat) /\ Append(r.queue, published) \in Seq(Nat)
    BY <1>1, <1>3, BusElemsAppend
<1>6. BusSettled(r)
    BY <1>1 DEF BusInv, BusRoom, BusBetween
<1>7. /\ Len(r.queue) \in Nat /\ Len(r.taken) \in Nat /\ Len(r.offered) \in Nat
    BY <1>3
<1>8. CASE Len(r.queue) < QueueSize
  <2>1. sub' = [sub EXCEPT ![s] = [r EXCEPT !.offered = Append(r.offered, published),
                                            !.queue = Append(r.queue, published)]]
        /\ pub' = [pub EXCEPT !.step = "next"]
    BY <1>1, <1>2, <1>8 DEF Bus!TrySend, Bus!Offer, Bus!HasRoom, Bus!AfterTry
  <2>2. q = [r EXCEPT !.offered = Append(r.offered, published), !.queue = Append(r.queue, published)]
        /\ sub' = [sub EXCEPT ![s] = q]
    BY <1>1, <1>2, <2>1
  <2>3. /\ q \in BusSub /\ q.offered = Append(r.offered, published)
        /\ q.queue = Append(r.queue, published) /\ q.taken = r.taken
        /\ q.id = r.id /\ q.closed = r.closed /\ q.pc = r.pc /\ q.attempt = r.attempt
    BY <1>2, <1>5, <2>2 DEF BusSub
  <2> HIDE DEF q, r
  <2>a. /\ r \in BusSub /\ BusOrder(r) /\ BusCount(r) /\ published \in Nat
        /\ \A x \in BusElems(r.offered) : x < published
    BY <1>1, <1>2
  <2>4. /\ BusOrder(q) /\ BusCount(q) /\ BusLost(q) = BusLost(r)
        /\ Len(q.queue) = Len(r.queue) + 1 /\ Len(q.offered) = Len(r.offered) + 1
        /\ BusHas(q) = BusHas(r) \cup {published}
        /\ BusElems(q.offered) = BusElems(r.offered) \cup {published}
    BY ONLY <2>a, <2>3, BusSends
  <2>5. q.offered[Len(q.offered)] = published
    BY <1>1, <1>3, <2>3, <2>4
  <2>6. BusSum(q) = BusSum(r) + 1 /\ BusSum(r) \in Nat
    <3>1. (Len(r.queue) + 1) + Len(r.taken) = Len(r.queue) + Len(r.taken) + 1
      BY <1>7, BusSumsOf
    <3>2. Len(r.queue) + Len(r.taken) \in Nat
      BY <1>7, BusSumsOf, Zenon
    <3> QED
      BY <2>3, <2>4, <3>1, <3>2, Zenon DEF BusSum
  <2>7. BusLost(q) # {} => BusSum(q) >= QueueSize
    BY <1>6, <2>4, <2>6, BusNumbers DEF BusSettled
  <2>8. BusSettled(q)
    BY <2>4, <2>5, <2>7 DEF BusSettled
  <2>9. Len(q.queue) <= QueueSize
    BY <1>7, <1>8, <2>4, BusNumbers DEF r
  <2>10. BusElems(q.offered) \subseteq 1..published
    BY <1>1, <1>2, <2>4
  <2> QED
    BY <1>1, <1>4, <2>1, <2>2, <2>3, <2>4, <2>8, <2>9, <2>10, BusAtOne DEF q, r
<1>9. CASE ~(Len(r.queue) < QueueSize)
  <2>1. sub' = [sub EXCEPT ![s] = [r EXCEPT !.offered = Append(r.offered, published)]]
        /\ pub' = [pub EXCEPT !.step = "evict"]
    BY <1>1, <1>2, <1>9 DEF Bus!TrySend, Bus!Offer, Bus!HasRoom, Bus!AfterTry, BusSub
  <2>2. q = [r EXCEPT !.offered = Append(r.offered, published)] /\ sub' = [sub EXCEPT ![s] = q]
    BY <1>1, <1>2, <2>1
  <2>3. /\ q \in BusSub /\ q.offered = Append(r.offered, published)
        /\ q.queue = r.queue /\ q.taken = r.taken
        /\ q.id = r.id /\ q.closed = r.closed /\ q.pc = r.pc /\ q.attempt = r.attempt
    BY <1>2, <1>5, <2>2 DEF BusSub
  <2> HIDE DEF q, r
  <2>a. /\ r \in BusSub /\ BusOrder(r) /\ BusCount(r) /\ published \in Nat
        /\ \A x \in BusElems(r.offered) : x < published
    BY <1>1, <1>2
  <2>4. /\ BusOrder(q) /\ BusCount(q) /\ \A x \in BusHas(q) : x < published
        /\ BusElems(q.offered) = BusElems(r.offered) \cup {published}
        /\ Len(q.offered) = Len(r.offered) + 1
    BY ONLY <2>a, <2>3, BusOverflows
  <2>5. q.offered[Len(q.offered)] = published /\ q.offered # << >>
    BY <1>1, <1>3, <2>3, BusNewest, ZenonT(40)
  <2>6. BusSum(q) >= QueueSize
    <3>1. ~(Len(r.queue) < QueueSize)
      BY <1>9 DEF r
    <3>2. Len(r.queue) + Len(r.taken) >= QueueSize
      BY <1>7, <3>1, BusNumbers, BusSumsFull, Zenon
    <3> QED
      BY <2>3, <3>2, Zenon DEF BusSum
  <2>9. Len(q.queue) <= QueueSize
    BY <1>2, <2>3
  <2>10. BusElems(q.offered) \subseteq 1..published /\ published \in BusElems(q.offered)
    BY <1>1, <1>2, <2>4
  <2> QED
    BY <1>1, <1>4, <2>1, <2>2, <2>3, <2>4, <2>5, <2>6, <2>9, <2>10, BusAtOne DEF q, r
<1> QED
    BY <1>8, <1>9

(* Publish takes the oldest event out of the full queue.                    *)
LEMMA BusEviction ==
    ASSUME BusInv, Bus!EvictOldest
    PROVE  BusInv'
<1> DEFINE s == pub.on
           r == sub[s]
           q == sub'[s]
<1>1. /\ pub.step = "evict" /\ s \in BusNums /\ published \in BusElems(r.offered)
      /\ r.offered # << >> /\ r.offered[Len(r.offered)] = published
      /\ \A x \in BusHas(r) : x < published
    BY DEF Bus!EvictOldest, BusInv, BusPub
<1>2. /\ sub \in Seq(BusSub) /\ r \in BusSub /\ DOMAIN sub = BusNums
      /\ BusOrder(r) /\ BusCount(r) /\ Len(r.queue) <= QueueSize
      /\ BusElems(r.offered) \subseteq 1..published
    BY <1>1 DEF BusInv, BusTypes, BusQueues, BusNums
<1>3. r.queue \in Seq(Nat) /\ r.offered \in Seq(Nat) /\ r.taken \in Seq(Nat)
    BY <1>2 DEF BusSub
<1>4. /\ UNCHANGED <<subs, published, starting>>
      /\ sub' = [sub EXCEPT ![s] = [r EXCEPT !.queue = Bus!Evicted(r.queue)]]
      /\ pub' = [pub EXCEPT !.step = "put"]
    BY <1>1, <1>2 DEF Bus!EvictOldest
<1>5. BusSum(r) >= QueueSize
    BY <1>1 DEF BusInv, BusRoom
<1>6. Len(r.queue) \in Nat /\ Len(r.taken) \in Nat
    BY <1>3
<1>7. Bus!Evicted(r.queue) \in Seq(Nat)
    BY <1>3, BusElemsTail DEF Bus!Evicted
<1>8. q = [r EXCEPT !.queue = Bus!Evicted(r.queue)] /\ sub' = [sub EXCEPT ![s] = q]
    BY <1>1, <1>2, <1>4
<1>9. /\ q \in BusSub /\ q.offered = r.offered /\ q.queue = Bus!Evicted(r.queue) /\ q.taken = r.taken
      /\ q.id = r.id /\ q.closed = r.closed /\ q.pc = r.pc /\ q.attempt = r.attempt
    BY <1>2, <1>7, <1>8 DEF BusSub
<1>0. /\ r \in BusSub /\ BusOrder(r) /\ BusCount(r)
    BY <1>2
<1> HIDE DEF q, r
<1>10. /\ BusOrder(q) /\ BusCount(q) /\ BusHas(q) \subseteq BusHas(r)
       /\ BusSum(q) + 1 >= QueueSize /\ Len(q.queue) < QueueSize
  <2>1. CASE r.queue = << >>
    <3>1. q.queue = r.queue
      BY <1>9, <2>1 DEF Bus!Evicted
    <3>2. BusOrder(q) /\ BusCount(q) /\ BusHas(q) = BusHas(r)
      BY <1>0, <1>9, <3>1, BusSameLists
    <3>3. BusSum(q) = BusSum(r) /\ BusSum(q) \in Nat
      BY <1>6, <1>9, <3>1, BusSumsOf, Zenon DEF BusSum
    <3>4. Len(q.queue) = 0
      BY <2>1, <3>1
    <3>5. Len(q.queue) < QueueSize
      BY <3>4, BusNumbers
    <3>6. BusSum(q) + 1 >= QueueSize
      BY <1>5, <3>3, BusNumbers
    <3> QED
      BY <3>2, <3>5, <3>6
  <2>2. CASE r.queue # << >>
    <3>1. q.queue = Tail(r.queue)
      BY <1>9, <2>2 DEF Bus!Evicted
    <3>2. BusOrder(q) /\ BusCount(q) /\ BusHas(q) \subseteq BusHas(r) /\ Len(q.queue) = Len(r.queue) - 1
      BY ONLY <1>0, <1>9, <2>2, <3>1, BusEvicts
    <3>3. ((Len(r.queue) - 1) + Len(r.taken)) + 1 = Len(r.queue) + Len(r.taken)
      BY <1>6, BusSumsOf, Zenon
    <3>4. BusSum(q) + 1 = BusSum(r)
      BY <1>9, <3>2, <3>3, Zenon DEF BusSum
    <3>5. BusSum(q) + 1 >= QueueSize
      BY <1>5, <3>4, Zenon
    <3>6. Len(r.queue) - 1 < QueueSize
      BY <1>2, <1>6, BusNumbers DEF r
    <3>7. Len(q.queue) < QueueSize
      BY <3>2, <3>6, Zenon
    <3> QED
      BY <3>2, <3>5, <3>7
  <2> QED
    BY <2>1, <2>2
<1>11. Len(q.queue) <= QueueSize
  <2>1. Len(q.queue) \in Nat
    BY <1>9 DEF BusSub
  <2> QED
    BY <1>10, <2>1, BusNumbers
<1>12. /\ published \in BusElems(q.offered) /\ q.offered # << >>
       /\ q.offered[Len(q.offered)] = published /\ \A x \in BusHas(q) : x < published
       /\ BusElems(q.offered) \subseteq 1..published
    BY <1>1, <1>2, <1>9, <1>10, Zenon DEF r
<1> QED
    BY <1>1, <1>4, <1>8, <1>9, <1>10, <1>11, <1>12, BusAtOne DEF q, r

(* Publish sends again, to a queue that has room.                           *)
LEMMA BusSecondSend ==
    ASSUME BusInv, Bus!SendAgain
    PROVE  BusInv'
<1> DEFINE s == pub.on
           r == sub[s]
           q == sub'[s]
<1>1. /\ pub.step = "put" /\ s \in BusNums /\ published \in BusElems(r.offered)
      /\ r.offered # << >> /\ r.offered[Len(r.offered)] = published
      /\ pub.evt = published /\ published \in Nat
      /\ \A x \in BusHas(r) : x < published
    BY DEF Bus!SendAgain, BusInv, BusPub, BusTypes
<1>2. /\ sub \in Seq(BusSub) /\ r \in BusSub /\ DOMAIN sub = BusNums
      /\ BusOrder(r) /\ BusCount(r) /\ BusElems(r.offered) \subseteq 1..published
    BY <1>1 DEF BusInv, BusTypes, BusQueues, BusNums
<1>3. r.queue \in Seq(Nat) /\ r.offered \in Seq(Nat) /\ r.taken \in Seq(Nat)
    BY <1>2 DEF BusSub
<1>5. BusSum(r) + 1 >= QueueSize /\ Len(r.queue) < QueueSize
    BY <1>1 DEF BusInv, BusRoom
<1>4. /\ UNCHANGED <<subs, published, starting>>
      /\ sub' = [sub EXCEPT ![s] = [r EXCEPT !.queue = Append(r.queue, published)]]
      /\ pub' = [pub EXCEPT !.step = "next"]
    BY <1>1, <1>2, <1>5 DEF Bus!SendAgain, Bus!HasRoom
<1>6. Len(r.queue) \in Nat /\ Len(r.taken) \in Nat
    BY <1>3
<1>7. Append(r.queue, published) \in Seq(Nat)
    BY <1>1, <1>3, BusElemsAppend
<1>8. q = [r EXCEPT !.queue = Append(r.queue, published)] /\ sub' = [sub EXCEPT ![s] = q]
    BY <1>1, <1>2, <1>4
<1>9. /\ q \in BusSub /\ q.offered = r.offered /\ q.queue = Append(r.queue, published) /\ q.taken = r.taken
      /\ q.id = r.id /\ q.closed = r.closed /\ q.pc = r.pc /\ q.attempt = r.attempt
    BY <1>2, <1>7, <1>8 DEF BusSub
<1>0. /\ r \in BusSub /\ BusOrder(r) /\ BusCount(r) /\ published \in BusElems(r.offered)
      /\ published \in Nat /\ \A x \in BusHas(r) : x < published
    BY <1>1, <1>2
<1> HIDE DEF q, r
<1>10. /\ BusOrder(q) /\ BusCount(q) /\ BusHas(q) = BusHas(r) \cup {published}
       /\ Len(q.queue) = Len(r.queue) + 1
    BY ONLY <1>0, <1>9, BusResends
<1>11. Len(q.queue) <= QueueSize
  <2>1. Len(r.queue) < QueueSize
    BY <1>5 DEF r
  <2>2. Len(r.queue) + 1 <= QueueSize
    BY <1>6, <2>1, BusNumbers DEF r
  <2> QED
    BY <1>10, <2>2, Zenon
<1>12. BusSettled(q)
  <2>1. (Len(r.queue) + 1) + Len(r.taken) = Len(r.queue) + Len(r.taken) + 1
    BY <1>6, BusSumsOf, Zenon
  <2>2. BusSum(q) = BusSum(r) + 1
    BY <1>9, <1>10, <2>1, Zenon DEF BusSum
  <2>3. BusSum(q) >= QueueSize
    BY <1>5, <2>2, Zenon DEF r
  <2>4. q.offered[Len(q.offered)] = published
    BY <1>1, <1>9, Zenon DEF r
  <2> QED
    BY <1>10, <2>3, <2>4 DEF BusSettled
<1>13. BusElems(q.offered) \subseteq 1..published
    BY <1>2, <1>9, Zenon DEF r
<1> QED
    BY <1>1, <1>4, <1>8, <1>9, <1>10, <1>11, <1>12, <1>13, BusAtOne DEF q, r

-----------------------------------------------------------------------------
(* Steps that hold the lock but publish nothing: flags of subscriptions are *)
(* set and one may be new; no queue changes.                                *)
BusSame(r, q) ==
    /\ q.id = r.id /\ q.queue = r.queue /\ q.offered = r.offered /\ q.taken = r.taken
    /\ q.pc = r.pc /\ q.attempt = r.attempt

(* Outside of Publish all subscriptions are settled.                        *)
LEMMA BusUnlocked ==
    ASSUME BusInv, pub = Bus!NoPub, UNCHANGED <<published, pub>>, sub' \in Seq(BusSub),
           BusNums \subseteq BusNums', \A s \in BusNums : BusSame(sub[s], sub'[s]),
           \A s \in BusNums' \ BusNums :
              /\ sub'[s].queue = << >> /\ sub'[s].offered = << >> /\ sub'[s].taken = << >>
              /\ sub'[s].pc = "idle"
    PROVE  BusQueues' /\ BusPub' /\ BusRoom'
<1>1. \A s \in BusNums' : sub'[s] \in BusSub
    BY DEF BusNums
<1>2. \A s : ~BusBetween(s) /\ ~BusBetween(s)'
    BY BusNoPub DEF BusBetween
<1>3. ASSUME NEW s \in BusNums'
      PROVE  /\ Len(sub'[s].queue) <= QueueSize
             /\ sub'[s].pc = "waiting" => sub'[s].attempt < MaxAttempts
             /\ BusOrder(sub'[s]) /\ BusCount(sub'[s])
             /\ BusElems(sub'[s].offered) \subseteq 1..published
             /\ BusSettled(sub'[s])
  <2>1. CASE s \in BusNums
    <3>1. /\ Len(sub[s].queue) <= QueueSize
          /\ sub[s].pc = "waiting" => sub[s].attempt < MaxAttempts
          /\ BusOrder(sub[s]) /\ BusCount(sub[s])
          /\ BusElems(sub[s].offered) \subseteq 1..published
      BY <2>1 DEF BusInv, BusQueues
    <3>2. BusSettled(sub[s])
      BY <1>2, <2>1 DEF BusInv, BusRoom
    <3>3. /\ sub'[s].queue = sub[s].queue /\ sub'[s].offered = sub[s].offered
          /\ sub'[s].taken = sub[s].taken
          /\ sub'[s].pc = sub[s].pc /\ sub'[s].attempt = sub[s].attempt
      BY <2>1 DEF BusSame
    <3>4. /\ BusOrder(sub'[s]) /\ BusCount(sub'[s])
          /\ BusLost(sub'[s]) = BusLost(sub[s]) /\ BusHas(sub'[s]) = BusHas(sub[s])
      BY <3>1, <3>3, BusSameLists
    <3>5. BusSettled(sub'[s])
      BY <3>2, <3>3, <3>4 DEF BusSettled, BusSum
    <3> QED
      BY <3>1, <3>3, <3>4, <3>5
  <2>2. CASE s \notin BusNums
    <3>1. /\ sub'[s].queue = << >> /\ sub'[s].offered = << >> /\ sub'[s].taken = << >>
          /\ sub'[s].pc = "idle"
      BY <2>2
    <3>2. /\ BusOrder(sub'[s]) /\ BusCount(sub'[s]) /\ BusSettled(sub'[s])
          /\ BusElems(sub'[s].offered) = {}
      BY <1>1, <3>1, BusFresh
    <3>3. Len(sub'[s].queue) <= QueueSize
      BY <3>1, BusNumbers
    <3>4. sub'[s].pc # "waiting"
      BY <3>1
    <3> QED
      BY <3>2, <3>3, <3>4
  <2> QED
    BY <2>1, <2>2
<1>4. BusQueues'
    BY <1>3 DEF BusQueues
<1>5. BusPub'
    BY BusNoPub DEF BusPub
<1>6. BusRoom'
  <2>1. pub'.step # "evict" /\ pub'.step # "put"
    BY BusNoPub
  <2>2. \A s \in BusNums' : ~BusBetween(s)' => BusSettled(sub'[s])
    BY <1>3
  <2> QED
    BY <2>1, <2>2 DEF BusRoom
<1> QED
    BY <1>4, <1>5, <1>6

(* Closing subscriptions.                                                   *)
LEMMA BusCloses ==
    ASSUME BusTypes, NEW S, NEW c, c = Bus!Closing(S)
    PROVE  /\ c \in Seq(BusSub) /\ Len(c) = Len(sub)
           /\ \A s \in BusNums : BusSame(sub[s], c[s]) /\ (c[s].closed <=> sub[s].closed \/ s \in S)
<1>1. sub \in Seq(BusSub) /\ Len(sub) \in Nat /\ \A s \in BusNums : sub[s] \in BusSub
    BY DEF BusTypes, BusNums
<1>2. c = [s \in BusNums |-> [sub[s] EXCEPT !.closed = @ \/ s \in S]]
    BY DEF Bus!Closing, Bus!Sub, BusNums
<1>3. ASSUME NEW s \in BusNums
      PROVE  /\ c[s] \in BusSub /\ BusSame(sub[s], c[s]) /\ (c[s].closed <=> sub[s].closed \/ s \in S)
  <2> DEFINE r == sub[s]
             b == (r.closed \/ s \in S)
  <2>1. c[s] = [r EXCEPT !.closed = b]
    BY <1>2
  <2>2. r \in BusSub /\ b \in BOOLEAN
    BY <1>1
  <2> HIDE DEF b, r
  <2>3. /\ c[s] \in BusSub /\ c[s].closed = b /\ BusSame(r, c[s])
    BY <2>1, <2>2 DEF BusSub, BusSame
  <2> QED
    BY <2>3 DEF b, r
<1>4. c \in Seq(BusSub) /\ Len(c) = Len(sub)
  <2>1. c \in [1..Len(sub) -> BusSub]
    BY <1>2, <1>3 DEF BusNums
  <2> QED
    BY <1>1, <2>1
<1> QED
    BY <1>3, <1>4

(* Unsubscribe leaves no open subscription of the id.                       *)
LEMMA BusUnsubscribes ==
    ASSUME BusInv, NEW id \in Ids, Bus!UnsubscribeEffect(id)
    PROVE  /\ sub' \in Seq(BusSub) /\ Len(sub') = Len(sub) /\ BusNums' = BusNums
           /\ \A s \in BusNums : BusSame(sub[s], sub'[s])
           /\ BusRegistered'
<1> DEFINE S == {subs[n][id] : n \in Names}
<1>0. BusTypes
    BY DEF BusInv
<1>1. /\ sub' \in Seq(BusSub) /\ Len(sub') = Len(sub)
      /\ \A s \in BusNums : BusSame(sub[s], sub'[s]) /\ (sub'[s].closed <=> sub[s].closed \/ s \in S)
    BY <1>0, BusCloses DEF Bus!UnsubscribeEffect
<1>2. BusNums' = BusNums
    BY <1>1 DEF BusNums
<1>3. \A s \in BusNums : sub'[s].id = sub[s].id
    BY <1>1 DEF BusSame
<1>r. /\ subs \in [Names -> [Ids -> 0..Len(sub)]]
      /\ \A n \in Names, i \in Ids : subs[n][i] # 0 => n \in BusList(i) /\ sub[subs[n][i]].id = i
      /\ \A i \in Ids : \A m, n \in BusList(i) : subs[m][i] = subs[n][i]
      /\ \A s \in BusNums : ~sub[s].closed =>
            BusList(sub[s].id) # {} /\ \A n \in BusList(sub[s].id) : subs[n][sub[s].id] = s
    BY DEF BusInv, BusRegistered
<1>4. Len(sub) \in Nat /\ \A n \in Names, i \in Ids : subs[n][i] # 0 => subs[n][i] \in BusNums
    BY <1>0, <1>r DEF BusNums, BusTypes
<1>5. subs' = [n \in Names |-> [subs[n] EXCEPT ![id] = 0]]
    BY DEF Bus!UnsubscribeEffect, Bus!Unsubscribed
<1>6. \A n \in Names, i \in Ids : subs'[n][i] = IF i = id THEN 0 ELSE subs[n][i]
    BY <1>5, <1>r
<1>7. subs' \in [Names -> [Ids -> 0..Len(sub')]]
    BY <1>1, <1>4, <1>5, <1>r
<1>8. \A n \in Names, i \in Ids : subs'[n][i] # 0 => n \in BusList(i) /\ sub'[subs'[n][i]].id = i
    BY <1>3, <1>4, <1>6, <1>r
<1>9. \A i \in Ids : BusList(i) \subseteq Names
    BY BusLists
<1>10. \A i \in Ids : \A m, n \in BusList(i) : subs'[m][i] = subs'[n][i]
    BY <1>6, <1>9, <1>r
<1>11. ASSUME NEW s \in BusNums, ~sub'[s].closed
       PROVE  BusList(sub'[s].id) # {} /\ \A n \in BusList(sub'[s].id) : subs'[n][sub'[s].id] = s
  <2>1. ~sub[s].closed /\ s \notin S /\ sub'[s].id = sub[s].id
    BY <1>1, <1>3, <1>11
  <2>2. BusList(sub[s].id) # {} /\ \A n \in BusList(sub[s].id) : subs[n][sub[s].id] = s
    BY <1>r, <2>1
  <2>a. sub[s] \in BusSub
    BY <1>0 DEF BusTypes, BusNums
  <2>3. sub[s].id \in Ids
    BY <2>a DEF BusSub
  <2>4. sub[s].id # id
    BY <1>9, <2>1, <2>2, <2>3
  <2> QED
    BY <1>6, <1>9, <2>1, <2>2, <2>3, <2>4
<1>12. \A i : BusList(i)' = BusList(i)
    BY DEF BusList
<1>13. BusRegistered'
    BY <1>2, <1>7, <1>8, <1>10, <1>11, <1>12 DEF BusRegistered
<1> QED
    BY <1>1, <1>2, <1>13

(* The old subscription that Subscribe finds is the one of all the events   *)
(* in the list.                                                             *)
LEMMA BusOldIs ==
    ASSUME BusRegistered, NEW id \in Ids, NEW m \in BusList(id)
    PROVE  Bus!Old(id, Events[id]) = subs[m][id]
<1> DEFINE e == Events[id]
           v == subs[m][id]
           I == {i \in 1..Len(e) : subs[e[i]][id] # 0}
           k == Bus!SelectInSeq(e, LAMBDA n : subs[n][id] # 0)
<1>1. BusList(id) = {e[j] : j \in 1..Len(e)} /\ Len(e) \in Nat
    BY BusLists
<1>2. \A j \in 1..Len(e) : subs[e[j]][id] = v
    BY <1>1 DEF BusRegistered
<1>3. k = IF I # {} THEN Bus!Min(I) ELSE 0
    BY DEF Bus!SelectInSeq
<1>4. Len(e) >= 1
    BY <1>1
<1>5. Bus!Old(id, e) = IF k = 0 THEN 0 ELSE subs[e[k]][id]
    BY DEF Bus!Old
<1> HIDE DEF e, v, k
<1>6. CASE v = 0
  <2>1. I = {}
    BY <1>2, <1>6
  <2>2. k = 0
    BY <1>3, <2>1
  <2> QED
    BY <1>5, <1>6, <2>2 DEF e, v
<1>7. CASE v # 0
  <2>1. I = 1..Len(e)
    BY <1>2, <1>7
  <2>2. 1 \in I /\ \A y \in I : 1 <= y
    BY <1>1, <1>4, <2>1
  <2>3. Bus!Min(I) \in I
    BY <2>2 DEF Bus!Min
  <2>4. k \in 1..Len(e)
    BY <1>3, <2>1, <2>2, <2>3
  <2>5. k # 0
    BY <1>1, <2>4
  <2> QED
    BY <1>2, <1>5, <2>4, <2>5 DEF e, v
<1> QED
    BY <1>6, <1>7

(* Subscribe closes the old subscription of the id and registers a new one. *)
LEMMA BusSubscribes ==
    ASSUME BusInv, NEW id \in Ids, Events[id] # << >>, Bus!Subscribe(id, Events[id])
    PROVE  /\ sub' \in Seq(BusSub) /\ Len(sub') = Len(sub) + 1
           /\ BusNums' = BusNums \cup {Len(sub) + 1} /\ Len(sub) + 1 \notin BusNums
           /\ \A s \in BusNums : BusSame(sub[s], sub'[s])
           /\ sub'[Len(sub) + 1] = Bus!NewSub(id)
           /\ BusRegistered'
<1> DEFINE o == Bus!Old(id, Events[id])
           c == Bus!Closing({o})
           z == Bus!NewSub(id)
           N == Len(sub) + 1
<1>0. BusTypes /\ BusRegistered
    BY DEF BusInv
<1>1. /\ c \in Seq(BusSub) /\ Len(c) = Len(sub)
      /\ \A s \in BusNums : BusSame(sub[s], c[s]) /\ (c[s].closed <=> sub[s].closed \/ s \in {o})
    BY <1>0, BusCloses
<1>2. sub' = Append(c, z)
    BY DEF Bus!Subscribe
<1>3. subs' = [n \in Names |-> IF n \in BusList(id) THEN [subs[n] EXCEPT ![id] = N] ELSE subs[n]]
    BY DEF Bus!Subscribe, BusList
<1>4. z \in BusSub /\ z.id = id /\ z.closed = FALSE
  <2>1. << >> \in Seq(Nat) /\ 0 \in 0..MaxAttempts /\ 0 \in Nat /\ FALSE \in BOOLEAN
    BY BusNumbers
  <2> QED
    BY <2>1 DEF BusSub, Bus!NewSub, Bus!NoEvent
<1>5. \A m \in BusList(id) : o = subs[m][id]
    BY <1>0, BusOldIs
<1>6. BusList(id) # {} /\ \A i \in Ids : BusList(i) \subseteq Names
    BY BusLists
<1>7. Len(sub) \in Nat
    BY <1>0 DEF BusTypes
<1> HIDE DEF o, c, z
<1>8. /\ sub' \in Seq(BusSub) /\ Len(sub') = Len(sub) + 1 /\ sub'[N] = z
      /\ \A s \in 1..Len(sub) : sub'[s] = c[s]
    BY <1>1, <1>2, <1>4, <1>7
<1>9. BusNums' = BusNums \cup {N} /\ N \notin BusNums
    BY <1>7, <1>8 DEF BusNums
<1>10. \A s \in BusNums : sub'[s].id = sub[s].id /\ BusSame(sub[s], sub'[s])
                          /\ (sub'[s].closed <=> sub[s].closed \/ s = o)
    BY <1>1, <1>8 DEF BusSame, BusNums
<1>r. /\ subs \in [Names -> [Ids -> 0..Len(sub)]]
      /\ \A n \in Names, i \in Ids : subs[n][i] # 0 => n \in BusList(i) /\ sub[subs[n][i]].id = i
      /\ \A i \in Ids : \A m, n \in BusList(i) : subs[m][i] = subs[n][i]
      /\ \A s \in BusNums : ~sub[s].closed =>
            BusList(sub[s].id) # {} /\ \A n \in BusList(sub[s].id) : subs[n][sub[s].id] = s
    BY <1>0 DEF BusRegistered
<1>11. \A n \in Names, i \in Ids : subs[n][i] # 0 => subs[n][i] \in BusNums
    BY <1>7, <1>r DEF BusNums
<1>12. \A n \in Names, i \in Ids :
          subs'[n][i] = IF n \in BusList(id) /\ i = id THEN N ELSE subs[n][i]
    BY <1>3, <1>r
<1>13. subs' \in [Names -> [Ids -> 0..Len(sub')]]
  <2>1. 0..Len(sub) \subseteq 0..Len(sub') /\ N \in 0..Len(sub')
    BY <1>7, <1>8
  <2> HIDE DEF N
  <2> QED
    BY <1>3, <1>r, <2>1
<1>14. ASSUME NEW n \in Names, NEW i \in Ids, subs'[n][i] # 0
       PROVE  n \in BusList(i) /\ sub'[subs'[n][i]].id = i
  <2>1. CASE n \in BusList(id) /\ i = id
    BY <1>4, <1>8, <1>12, <2>1
  <2>2. CASE ~(n \in BusList(id) /\ i = id)
    <3>1. subs'[n][i] = subs[n][i]
      BY <1>12, <2>2
    <3> QED
      BY <1>10, <1>11, <1>14, <1>r, <3>1
  <2> QED
    BY <2>1, <2>2
<1>15. \A i \in Ids : \A m, n \in BusList(i) : subs'[m][i] = subs'[n][i]
    BY <1>6, <1>12, <1>r
<1>16. ASSUME NEW s \in BusNums', ~sub'[s].closed
       PROVE  BusList(sub'[s].id) # {} /\ \A n \in BusList(sub'[s].id) : subs'[n][sub'[s].id] = s
  <2>1. CASE s = N
    BY <1>4, <1>6, <1>8, <1>12, <2>1
  <2>2. CASE s \in BusNums
    <3>1. ~sub[s].closed /\ s # o /\ sub'[s].id = sub[s].id
      BY <1>10, <1>16, <2>2
    <3>2. BusList(sub[s].id) # {} /\ \A n \in BusList(sub[s].id) : subs[n][sub[s].id] = s
      BY <1>r, <2>2, <3>1
    <3>a. sub[s] \in BusSub
      BY <1>0, <2>2 DEF BusTypes, BusNums
    <3>3. sub[s].id \in Ids
      BY <3>a DEF BusSub
    <3>4. sub[s].id # id
      BY <1>5, <3>1, <3>2
    <3> QED
      BY <1>6, <1>12, <3>1, <3>2, <3>3, <3>4
  <2> QED
    BY <1>9, <2>1, <2>2
<1>17. \A i : BusList(i)' = BusList(i)
    BY DEF BusList
<1>18. BusRegistered'
    BY <1>13, <1>14, <1>15, <1>16, <1>17 DEF BusRegistered
<1> QED
    BY <1>8, <1>9, <1>10, <1>18 DEF z

(* The steps of the bridge.                                                 *)
LEMMA BusBridge == ASSUME BusInv, Bus!Bridge PROVE BusInv'
<1>0. BusTypes /\ DOMAIN starting = Starters
    BY DEF BusInv, BusTypes
<1>s. \A p \in Starters :
          /\ starting[p] \in Seq(Ids) /\ Len(starting[p]) <= 1
          /\ starting[p] # << >> => Events[Head(starting[p])] # << >>
    BY <1>0 DEF BusTypes
<1>1. ASSUME NEW id \in Ids, Bus!UnsubscribeEffect(id), ~Bus!Locked, UNCHANGED <<published, pub>>,
             BusTypes'
      PROVE  BusInv'
  <2>1. /\ sub' \in Seq(BusSub) /\ Len(sub') = Len(sub) /\ BusNums' = BusNums
        /\ \A s \in BusNums : BusSame(sub[s], sub'[s]) /\ BusRegistered'
    BY <1>1, BusUnsubscribes
  <2>2. pub = Bus!NoPub
    BY <1>1 DEF Bus!Locked
  <2>3. BusRegistered'
    BY <1>1, BusUnsubscribes
  <2>4. BusQueues' /\ BusPub' /\ BusRoom'
    BY <1>1, <2>1, <2>2, BusUnlocked
  <2> QED
    BY <1>1, <2>3, <2>4 DEF BusInv
<1>2. ASSUME NEW p \in Starters, NEW id \in Ids, Bus!StartDelivery(p, id) PROVE BusInv'
  <2>1. /\ Bus!UnsubscribeEffect(id) /\ ~Bus!Locked /\ UNCHANGED <<published, pub>>
        /\ Events[id] # << >> /\ starting' = [starting EXCEPT ![p] = <<id>>]
    BY <1>2 DEF Bus!StartDelivery
  <2>2. sub' \in Seq(BusSub) /\ Len(sub') = Len(sub)
    BY <2>1, BusUnsubscribes
  <2>3. <<id>> \in Seq(Ids) /\ Len(<<id>>) <= 1 /\ Head(<<id>>) = id
    OBVIOUS
  <2>4. /\ DOMAIN starting' = Starters /\ starting'[p] = <<id>>
        /\ \A u \in Starters \ {p} : starting'[u] = starting[u]
    BY <1>0, <2>1
  <2>5. ASSUME NEW u \in Starters
        PROVE  /\ starting'[u] \in Seq(Ids) /\ Len(starting'[u]) <= 1
               /\ starting'[u] # << >> => Events[Head(starting'[u])] # << >>
    BY <1>s, <2>1, <2>3, <2>4, Zenon
  <2>6. BusTypes'
    BY <1>0, <2>1, <2>2, <2>4, <2>5 DEF BusTypes
  <2> QED
    BY <1>1, <2>1, <2>6
<1>3. ASSUME NEW id \in Ids, Bus!StopDelivery(id) PROVE BusInv'
  <2>1. /\ Bus!UnsubscribeEffect(id) /\ ~Bus!Locked /\ UNCHANGED <<published, pub>>
        /\ UNCHANGED starting
    BY <1>3 DEF Bus!StopDelivery
  <2>2. sub' \in Seq(BusSub) /\ Len(sub') = Len(sub)
    BY <2>1, BusUnsubscribes
  <2>3. BusTypes'
    BY <1>0, <2>1, <2>2 DEF BusTypes
  <2> QED
    BY <1>1, <2>1, <2>3
<1>4. ASSUME NEW p \in Starters, Bus!FinishDelivery(p) PROVE BusInv'
  <2> DEFINE id == Head(starting[p])
  <2>1. /\ Bus!Subscribe(id, Events[id]) /\ ~Bus!Locked /\ UNCHANGED <<published, pub>>
        /\ starting[p] # << >> /\ Len(sub) < MaxSubs
        /\ starting' = [starting EXCEPT ![p] = << >>]
    BY <1>4 DEF Bus!FinishDelivery, Bus!NoStart
  <2>2. id \in Ids /\ Events[id] # << >>
    BY <1>s, <2>1
  <2> HIDE DEF id
  <2>3. /\ sub' \in Seq(BusSub) /\ Len(sub') = Len(sub) + 1
        /\ BusNums' = BusNums \cup {Len(sub) + 1} /\ Len(sub) + 1 \notin BusNums
        /\ \A s \in BusNums : BusSame(sub[s], sub'[s])
        /\ sub'[Len(sub) + 1] = Bus!NewSub(id)
        /\ BusRegistered'
    BY <2>1, <2>2, BusSubscribes
  <2>4. /\ Bus!NewSub(id).queue = << >> /\ Bus!NewSub(id).offered = << >>
        /\ Bus!NewSub(id).taken = << >> /\ Bus!NewSub(id).pc = "idle"
    BY DEF Bus!NewSub
  <2>5. pub = Bus!NoPub
    BY <2>1 DEF Bus!Locked
  <2>6. /\ BusNums \subseteq BusNums'
        /\ \A s \in BusNums' \ BusNums :
              /\ sub'[s].queue = << >> /\ sub'[s].offered = << >> /\ sub'[s].taken = << >>
              /\ sub'[s].pc = "idle"
    BY <2>3, <2>4
  <2>7. BusQueues' /\ BusPub' /\ BusRoom'
    BY <2>1, <2>3, <2>5, <2>6, BusUnlocked
  <2>8. << >> \in Seq(Ids) /\ Len(<< >>) <= 1
    OBVIOUS
  <2>9. /\ DOMAIN starting' = Starters /\ starting'[p] = << >>
        /\ \A u \in Starters \ {p} : starting'[u] = starting[u]
    BY <1>0, <2>1
  <2>10. ASSUME NEW u \in Starters
         PROVE  /\ starting'[u] \in Seq(Ids) /\ Len(starting'[u]) <= 1
                /\ starting'[u] # << >> => Events[Head(starting'[u])] # << >>
    BY <1>s, <2>8, <2>9, Zenon
  <2>11. Len(sub') <= MaxSubs
    BY <1>0, <2>1, <2>3, BusNumbers DEF BusTypes
  <2>12. BusTypes'
    BY <1>0, <2>1, <2>3, <2>9, <2>10, <2>11 DEF BusTypes
  <2> QED
    BY <2>3, <2>7, <2>12 DEF BusInv
<1> QED
    BY <1>2, <1>3, <1>4 DEF Bus!Bridge

(* The invariant holds on while the part does nothing.                      *)
LEMMA BusStutter == BusInv /\ UNCHANGED busVars => BusInv'
<1> SUFFICES ASSUME BusInv, UNCHANGED busVars PROVE BusInv'
    OBVIOUS
<1>0. BusTypes /\ BusQueues /\ BusPub /\ BusRoom /\ BusRegistered
    BY DEF BusInv
<1>1. UNCHANGED <<subs, sub, published, pub, starting>>
    BY DEF busVars
<1>2. BusTypes'
    BY <1>0, <1>1 DEF BusTypes
<1>3. BusQueues'
    BY <1>0, <1>1 DEF BusQueues, BusNums
<1>4. BusPub'
    BY <1>0, <1>1 DEF BusPub, BusNums, BusElems, BusHas
<1>5. BusRoom'
    BY <1>0, <1>1 DEF BusRoom, BusNums, BusBetween
<1>6. BusRegistered'
    BY <1>0, <1>1 DEF BusRegistered, BusNums, BusList
<1> QED
    BY <1>2, <1>3, <1>4, <1>5, <1>6 DEF BusInv

(* Every step of the bus keeps the invariant.                               *)
LEMMA BusStep == BusInv /\ Bus!Next => BusInv'
<1> SUFFICES ASSUME BusInv, Bus!Next PROVE BusInv'
    OBVIOUS
<1>1. CASE Bus!Bridge
    BY <1>1, BusBridge
<1>2. CASE \E n \in Names : Bus!Publish(n)
    BY <1>2, BusPublishes
<1>3. CASE Bus!PublishStep
    BY <1>3, BusMovesOn, BusFirstSend, BusEviction, BusSecondSend DEF Bus!PublishStep
<1>4. CASE \E s \in Bus!Sub : Bus!Consume(s)
    BY <1>4, BusConsumer DEF Bus!Sub, BusNums
<1>5. CASE Bus!Rest
    BY <1>5, BusStutter DEF Bus!Rest, Bus!vars, busVars
<1> QED
    BY <1>1, <1>2, <1>3, <1>4, <1>5 DEF Bus!Next

-----------------------------------------------------------------------------
(* What the invariant says of the bus.                                      *)
LEMMA BusSets == \A S : Bus!Cardinality(S) = Cardinality(S)
BY DEF Bus!Cardinality, Bus!IsFiniteSet, Cardinality, IsFiniteSet

(* The elements of a concatenation.                                         *)
LEMMA BusJoined ==
    \A t, u \in Seq(Nat) :
        /\ Len(t) \in Nat /\ Len(u) \in Nat /\ Len(t \o u) = Len(t) + Len(u)
        /\ \A k \in 1..Len(t) : (t \o u)[k] = t[k]
        /\ \A k \in 1..Len(u) : (t \o u)[Len(t) + k] = u[k]
OBVIOUS

(* In order, nothing twice.                                                 *)
LEMMA BusShowsOrder == BusInv => Bus!TakenInOrder
<1> SUFFICES ASSUME BusInv, NEW s \in BusNums, NEW q, q = sub[s].taken \o sub[s].queue,
                    NEW i \in 1..Len(q), NEW j \in 1..Len(q), i < j
             PROVE  q[i] < q[j]
    BY DEF Bus!TakenInOrder, Bus!Sub, BusNums
<1> DEFINE t == sub[s].taken
           u == sub[s].queue
<1>1. sub[s] \in BusSub /\ BusOrder(sub[s])
    BY DEF BusInv, BusTypes, BusQueues, BusNums
<1>2. t \in Seq(Nat) /\ u \in Seq(Nat)
    BY <1>1 DEF BusSub
<1>3. BusIncreasing(t) /\ BusIncreasing(u) /\ \A x \in BusElems(t), y \in BusElems(u) : x < y
    BY <1>1 DEF BusOrder
<1> HIDE DEF t, u
<1>4. /\ Len(t) \in Nat /\ Len(u) \in Nat /\ Len(q) = Len(t) + Len(u)
      /\ \A k \in 1..Len(t) : q[k] = t[k]
      /\ \A k \in 1..Len(u) : q[Len(t) + k] = u[k]
    BY <1>2, BusJoined, Zenon DEF t, u
<1>5. \A k \in 1..Len(q) : k > Len(t) => k - Len(t) \in 1..Len(u) /\ Len(t) + (k - Len(t)) = k
    BY <1>4
<1>6. \A k \in 1..Len(q) : k > Len(t) => q[k] = u[k - Len(t)]
    BY <1>4, <1>5
<1>7. CASE j <= Len(t)
  <2>1. i \in 1..Len(t) /\ j \in 1..Len(t)
    BY <1>4, <1>7
  <2> QED
    BY <1>3, <1>4, <2>1 DEF BusIncreasing
<1>8. CASE i > Len(t)
  <2>1. j > Len(t) /\ i - Len(t) < j - Len(t)
    BY <1>4, <1>8
  <2>2. u[i - Len(t)] < u[j - Len(t)]
    BY <1>3, <1>5, <1>8, <2>1 DEF BusIncreasing
  <2> QED
    BY <1>6, <1>8, <2>1, <2>2
<1>9. CASE i <= Len(t) /\ j > Len(t)
  <2>1. i \in 1..Len(t)
    BY <1>4, <1>9
  <2>2. q[i] \in BusElems(t)
    BY <1>4, <2>1 DEF BusElems
  <2>3. q[j] \in BusElems(u)
    BY <1>5, <1>6, <1>9 DEF BusElems
  <2> QED
    BY <1>3, <2>2, <2>3
<1>10. j <= Len(t) \/ i > Len(t) \/ (i <= Len(t) /\ j > Len(t))
  <2>1. i \in Nat /\ j \in Nat /\ Len(t) \in Nat
    BY <1>4
  <2> QED
    BY ONLY <2>1
<1> QED
    BY <1>7, <1>8, <1>9, <1>10, Zenon

(* An overflow loses old events, and as few as it must.                     *)
LEMMA BusShowsLosses == BusInv => Bus!OverflowLosesOldest
<1> SUFFICES ASSUME BusInv, NEW s \in BusNums, sub[s].offered # << >>, ~BusBetween(s)
             PROVE  /\ Bus!Last(sub[s].offered) \notin Bus!Lost(s)
                    /\ Bus!Lost(s) # {} => Bus!Cardinality(Bus!Lost(s)) + QueueSize <= Len(sub[s].offered)
    BY DEF Bus!OverflowLosesOldest, Bus!Sub, BusNums, BusBetween
<1>1. sub[s] \in BusSub /\ BusCount(sub[s])
    BY DEF BusInv, BusTypes, BusQueues, BusNums
<1>2. sub[s].queue \in Seq(Nat) /\ sub[s].offered \in Seq(Nat) /\ sub[s].taken \in Seq(Nat)
    BY <1>1 DEF BusSub
<1>3. BusSettled(sub[s])
    BY DEF BusInv, BusRoom
<1>4. Bus!Lost(s) = BusLost(sub[s])
  <2>1. /\ Bus!ToSet(sub[s].offered) = BusElems(sub[s].offered)
        /\ Bus!ToSet(sub[s].queue \o sub[s].taken) = BusElems(sub[s].queue) \cup BusElems(sub[s].taken)
    BY <1>2, BusElemsAre
  <2> QED
    BY <2>1 DEF Bus!Lost, BusLost, BusHas
<1>5. Bus!Last(sub[s].offered) \notin Bus!Lost(s)
    BY <1>3, <1>4 DEF BusSettled, BusLost, Bus!Last
<1>6. ASSUME Bus!Lost(s) # {}
      PROVE  Bus!Cardinality(Bus!Lost(s)) + QueueSize <= Len(sub[s].offered)
  <2> DEFINE o == Len(sub[s].offered)
             k == Len(sub[s].queue)
             t == Len(sub[s].taken)
  <2>1. Bus!Cardinality(Bus!Lost(s)) = o - k - t
    BY <1>1, <1>4, BusSets DEF BusCount
  <2>2. k + t >= QueueSize
    BY <1>3, <1>4, <1>6 DEF BusSettled, BusSum
  <2>3. o \in Nat /\ k \in Nat /\ t \in Nat
    BY <1>2
  <2> HIDE DEF o, k, t
  <2>4. (o - k - t) + QueueSize <= o
    BY <2>2, <2>3, BusNumbers
  <2> QED
    BY <2>1, <2>4, Zenon DEF o
<1> QED
    BY <1>5, <1>6

(* What is open is registered, and once per id.                             *)
LEMMA BusShowsNoLeak == BusInv => Bus!NoLeakedConsumer
<1> SUFFICES ASSUME BusInv PROVE Bus!NoLeakedConsumer
    OBVIOUS
<1>1. \A s \in BusNums : ~sub[s].closed =>
            BusList(sub[s].id) # {} /\ \A n \in BusList(sub[s].id) : subs[n][sub[s].id] = s
    BY DEF BusInv, BusRegistered
<1>2. \A s \in BusNums : sub[s] \in BusSub
    BY DEF BusInv, BusTypes, BusNums
<1>3. \A s \in BusNums : sub[s].id \in Ids
    BY <1>2 DEF BusSub
<1>4. \A i \in Ids : BusList(i) \subseteq Names
    BY BusLists
<1>5. \A s \in BusNums : ~sub[s].closed => \E n \in Names, i \in Ids : subs[n][i] = s
    BY <1>1, <1>3, <1>4
<1>6. \A s, t \in BusNums : sub[s].id = sub[t].id /\ ~sub[s].closed /\ ~sub[t].closed => s = t
    BY <1>1
<1> QED
    BY <1>5, <1>6 DEF Bus!NoLeakedConsumer, Bus!Registered, Bus!Sub, BusNums

(* The types.                                                               *)
LEMMA BusShowsTypes == BusInv => Bus!TypeOK
<1> SUFFICES ASSUME BusInv PROVE Bus!TypeOK
    OBVIOUS
<1>1. /\ subs \in [Names -> [Ids -> 0..Len(sub)]] /\ Len(sub) <= MaxSubs /\ published \in 0..MaxEvents
      /\ \A p \in Starters : starting[p] \in Seq(Ids) /\ Len(starting[p]) <= 1
    BY DEF BusInv, BusTypes, BusRegistered
<1>2. pub.step \in {"next", "try", "evict", "put", "done"}
    BY DEF BusInv, BusPub
<1>3. ASSUME NEW s \in BusNums
      PROVE  /\ sub[s].id \in Ids
             /\ sub[s].queue \in Seq(Bus!Event) /\ Len(sub[s].queue) <= QueueSize
             /\ sub[s].closed \in BOOLEAN
             /\ sub[s].pc \in {"idle", "delivering", "waiting", "gone"}
             /\ sub[s].attempt \in 0..MaxAttempts
  <2>1. sub[s] \in BusSub /\ BusCount(sub[s]) /\ Len(sub[s].queue) <= QueueSize
        /\ BusElems(sub[s].offered) \subseteq 1..published
    BY DEF BusInv, BusTypes, BusQueues, BusNums
  <2>2. BusElems(sub[s].queue) \subseteq 1..published
    BY <2>1 DEF BusCount, BusHas
  <2>3. 1..published \subseteq Bus!Event
    BY <1>1, BusNumbers DEF Bus!Event
  <2>4. sub[s].queue \in Seq(Nat)
    BY <2>1 DEF BusSub
  <2>5. sub[s].queue \in Seq(Bus!Event)
    <3>1. \A i \in 1..Len(sub[s].queue) : sub[s].queue[i] \in Bus!Event
      BY <2>2, <2>3 DEF BusElems
    <3> QED
      BY <2>4, <3>1
  <2> QED
    BY <2>1, <2>5 DEF BusSub
<1> QED
    BY <1>1, <1>2, <1>3 DEF Bus!TypeOK, Bus!Sub, BusNums

-----------------------------------------------------------------------------
(* The supervisor. A start has its handle for itself until its health loop  *)
(* runs; the watcher of a process passes its wait only after the process    *)
(* has died; and the restart timer of a handle is armed only by that        *)
(* watcher, so a handle that is free is referred to by nothing.             *)
SupThreads == Users \cup Shutdowns \cup Procs
SupStatus == {"registered", "starting", "running", "degraded", "stopped", "disabled", "error", None}

SupStarting == {"launch", "register", "wait", "ready", "return"}
SupUsing == SupStarting \cup {"signal", "await", "finish"}

(* A handle that is free is referred to by nothing, and its flags are fresh. *)
SupFree ==
    \A p \in Procs : life[p] = "free" =>
        /\ slot # p /\ pc[p] = "idle" /\ watch[p] = "none" /\ health[p] = "none"
        /\ ~killed[p] /\ ~exited[p] /\ ~stopped[p] /\ ~started[p]
        /\ \A t \in SupThreads : cur[t] # p

(* The watcher is beyond its wait only after the death of the process.      *)
SupWatched ==
    \A p \in Procs :
        /\ watch[p] = "none" => ~started[p] /\ ~exited[p]
        /\ watch[p] \in {"exited", "restart", "end"} => life[p] = "dead"
        /\ exited[p] => life[p] = "dead"
        /\ watch[p] = "exited" => exited[p]
        /\ watch[p] = "restart" => started[p] /\ exited[p]
        /\ life[p] = "created" => watch[p] = "none"
        /\ pc[p] # "idle" => watch[p] = "end" /\ started[p] /\ exited[p]

(* A start has its handle for itself.                                       *)
SupStarts ==
    \A t \in SupThreads :
        /\ pc[t] \in SupUsing => cur[t] \in Procs
        /\ pc[t] = "launch" => life[cur[t]] = "created" /\ watch[cur[t]] = "none"
        /\ pc[t] = "register" => life[cur[t]] \in {"alive", "dead"} /\ watch[cur[t]] = "none"
        /\ pc[t] \in {"wait", "ready", "return"} => watch[cur[t]] # "none"
        /\ pc[t] \in {"ready", "return"} => started[cur[t]]
        /\ pc[t] \in SupStarting =>
              \A u \in SupThreads : pc[u] \in SupStarting /\ cur[u] = cur[t] => u = t

SupChecked ==
    \A p \in Procs :
        life[p] = "alive" /\ started[p] /\ ~killed[p] /\ ~stopping =>
           \/ health[p] \in {"loop", "probing", "good"}
           \/ \E t \in SupThreads : cur[t] = p /\ pc[t] \in {"ready", "return"}

SupTypes ==
    /\ slot \in Procs \cup {None} /\ stopping \in BOOLEAN /\ restarts \in Nat
    /\ life \in [Procs -> {"free", "created", "alive", "dead"}]
    /\ killed \in [Procs -> BOOLEAN] /\ exited \in [Procs -> BOOLEAN]
    /\ stopped \in [Procs -> BOOLEAN] /\ started \in [Procs -> BOOLEAN]
    /\ watch \in [Procs -> {"none", "waiting", "exited", "restart", "end"}]
    /\ health \in [Procs -> {"none", "loop", "probing", "good", "end"}]
    /\ fails \in [Procs -> 0..(FailThreshold - 1)]
    /\ pc \in [SupThreads -> {"idle", "armed", "check", "spawn", "launch", "register", "wait", "ready",
                              "return", "stopall", "signal", "await", "finish"}]
    /\ cur \in [SupThreads -> Procs \cup {None}]

SupStates == state \in [Procs -> SupStatus] /\ pend \in [Sup!Actors -> SupStatus]

SupInv == SupTypes /\ SupStates /\ SupFree /\ SupWatched /\ SupStarts /\ SupChecked

(* The constants; a restart timer is a thread and no request.               *)
LEMMA SupNumbers ==
    /\ BreakerLimit \in Nat /\ FailThreshold \in Nat \ {0} /\ None \notin Procs
    /\ (Users \cup Shutdowns) \cap Procs = {} /\ Procs \subseteq SupThreads
    /\ Users \subseteq SupThreads /\ Shutdowns \subseteq SupThreads
    /\ Sup!Threads = SupThreads /\ Sup!Callers = Users \cup Shutdowns
BY SupAssumption DEF Sup!SupervisorAssumption, SupThreads, Sup!Threads, Sup!Callers

(* Constants of the types.                                                  *)
LEMMA SupZero == 0 \in 0..(FailThreshold - 1) /\ TRUE \in BOOLEAN /\ FALSE \in BOOLEAN
BY SupNumbers

(* The invariant holds at the start.                                        *)
LEMMA SupInit == Sup!Init => SupInv
<1> SUFFICES ASSUME Sup!Init PROVE SupInv
    OBVIOUS
<1>1. SupStates
    BY DEF Sup!Init, SupStates, SupStatus
<1>2. FALSE \in BOOLEAN /\ 0 \in 0..(FailThreshold - 1)
    BY SupNumbers
<1>3. SupTypes
    BY <1>2, SupNumbers DEF Sup!Init, SupTypes
<1>4. SupFree
    BY SupNumbers DEF Sup!Init, SupFree
<1>5. SupWatched
    BY SupNumbers DEF Sup!Init, SupWatched
<1>6. SupStarts
    BY SupNumbers DEF Sup!Init, SupStarts, SupUsing, SupStarting
<1>7. SupChecked
    BY SupNumbers DEF Sup!Init, SupChecked
<1> QED
    BY <1>1, <1>3, <1>4, <1>5, <1>6, <1>7 DEF SupInv

(* setState, and the write of the status.                                   *)
LEMMA SupSets ==
    ASSUME SupStates, NEW a, NEW p, NEW s \in SupStatus, Sup!SetState(a, p, s)
    PROVE  SupStates'
<1>1. CASE UNCHANGED <<state, pend>>
    BY <1>1 DEF SupStates
<1>2. CASE /\ state' = [state EXCEPT ![p] = s]
           /\ pend' = [pend EXCEPT ![a] = s]
    BY <1>2 DEF SupStates
<1> QED
    BY <1>1, <1>2 DEF Sup!SetState

(* No status changes.                                                       *)
LEMMA SupSame == SupStates /\ UNCHANGED <<state, pend>> => SupStates'
BY DEF SupStates

(* The invariant holds on while only statuses are written.                  *)
LEMMA SupFrame ==
    ASSUME SupInv, SupStates',
           UNCHANGED <<slot, stopping, restarts, life, killed, exited, stopped, started, watch,
                       health, fails, pc, cur>>
    PROVE  SupInv'
BY DEF SupInv, SupTypes, SupFree, SupWatched, SupStarts, SupChecked

(* A start takes a free handle.                                             *)
LEMMA SupCreates == ASSUME SupInv, NEW t \in SupThreads, NEW p \in Procs, Sup!Create(t, p) PROVE SupInv'
<1>0. SupTypes /\ SupStates /\ SupFree /\ SupWatched /\ SupStarts /\ SupChecked
    BY DEF SupInv
<1>1. /\ pc[t] = "spawn"
      /\ life[p] = "free"
      /\ life' = [life EXCEPT ![p] = "created"]
      /\ cur' = [cur EXCEPT ![t] = p]
      /\ pc' = [pc EXCEPT ![t] = "launch"]
      /\ UNCHANGED <<slot, stopping, restarts, killed, exited, stopped, started, watch, health, fails>>
    BY DEF Sup!Create, Sup!At, Sup!Goto, Sup!procVars, Sup!healthVars, Sup!threadVars
<1>2. SupStates'
    BY <1>0, SupSets DEF Sup!Create, Sup!At, Sup!Goto, Sup!procVars, Sup!healthVars, Sup!threadVars, SupStatus
<1>3. SupTypes'
    BY <1>0, <1>1, SupNumbers DEF SupTypes
<1>4. SupFree'
    BY <1>0, <1>1, SupNumbers DEF SupTypes, SupFree, SupStarts, SupUsing, SupStarting
<1>5. SupWatched'
    BY <1>0, <1>1, SupNumbers DEF SupTypes, SupFree, SupWatched, SupStarts, SupUsing, SupStarting
<1>6. SupStarts'
    BY <1>0, <1>1, SupNumbers DEF SupTypes, SupFree, SupWatched, SupStarts, SupUsing, SupStarting
<1>7. SupChecked'
    BY <1>0, <1>1, SupNumbers DEF SupTypes, SupFree, SupWatched, SupStarts, SupChecked, SupUsing, SupStarting
<1> QED
    BY <1>2, <1>3, <1>4, <1>5, <1>6, <1>7 DEF SupInv

(* The process starts.                                                      *)
LEMMA SupLaunches == ASSUME SupInv, NEW t \in SupThreads, Sup!Launch(t) PROVE SupInv'
<1>0. SupTypes /\ SupStates /\ SupFree /\ SupWatched /\ SupStarts /\ SupChecked
    BY DEF SupInv
<1>1. /\ pc[t] = "launch"
      /\ life' = [life EXCEPT ![cur[t]] = "alive"]
      /\ pc' = [pc EXCEPT ![t] = "register"]
      /\ UNCHANGED <<slot, stopping, restarts, killed, exited, stopped, started, watch, health, fails, cur>>
    BY DEF Sup!Launch, Sup!At, Sup!Goto, Sup!procVars, Sup!healthVars, Sup!threadVars
<1>2. SupStates'
    BY <1>0, SupSame DEF Sup!Launch, Sup!At, Sup!Goto, Sup!procVars, Sup!healthVars, Sup!threadVars
<1>3. SupTypes'
    BY <1>0, <1>1, SupNumbers DEF SupTypes
<1>4. SupFree'
    BY <1>0, <1>1, SupNumbers DEF SupTypes, SupFree, SupStarts, SupUsing, SupStarting
<1>5. SupWatched'
    BY <1>0, <1>1, SupNumbers DEF SupTypes, SupFree, SupWatched, SupStarts, SupUsing, SupStarting
<1>6. SupStarts'
    BY <1>0, <1>1, SupNumbers DEF SupTypes, SupFree, SupWatched, SupStarts, SupUsing, SupStarting
<1>7. SupChecked'
    BY <1>0, <1>1, SupNumbers DEF SupTypes, SupFree, SupWatched, SupStarts, SupChecked, SupUsing, SupStarting
<1> QED
    BY <1>2, <1>3, <1>4, <1>5, <1>6, <1>7 DEF SupInv

(* The process does not start.                                              *)
LEMMA SupLaunchFails == ASSUME SupInv, NEW t \in SupThreads, Sup!LaunchFails(t) PROVE SupInv'
<1>0. SupTypes /\ SupStates /\ SupFree /\ SupWatched /\ SupStarts /\ SupChecked
    BY DEF SupInv
<1>1. /\ pc[t] = "launch"
      /\ life' = [life EXCEPT ![cur[t]] = "dead"]
      /\ watch' = [watch EXCEPT ![cur[t]] = "end"]
      /\ health' = [health EXCEPT ![cur[t]] = "end"]
      /\ pc' = [pc EXCEPT ![t] = "finish"]
      /\ UNCHANGED <<slot, stopping, restarts, killed, exited, stopped, started, fails, cur>>
    BY DEF Sup!LaunchFails, Sup!At, Sup!Goto, Sup!procVars, Sup!healthVars, Sup!threadVars
<1>2. SupStates'
    BY <1>0, SupSets DEF Sup!LaunchFails, Sup!At, Sup!Goto, Sup!procVars, Sup!healthVars, Sup!threadVars, SupStatus
<1>3. SupTypes'
    BY <1>0, <1>1, SupNumbers DEF SupTypes
<1>4. SupFree'
    BY <1>0, <1>1, SupNumbers DEF SupTypes, SupFree, SupStarts, SupUsing, SupStarting
<1>5. SupWatched'
    BY <1>0, <1>1, SupNumbers DEF SupTypes, SupFree, SupWatched, SupStarts, SupUsing, SupStarting
<1>6. SupStarts'
    BY <1>0, <1>1, SupNumbers DEF SupTypes, SupFree, SupWatched, SupStarts, SupUsing, SupStarting
<1>7. SupChecked'
    BY <1>0, <1>1, SupNumbers DEF SupTypes, SupFree, SupWatched, SupStarts, SupChecked, SupUsing, SupStarting
<1> QED
    BY <1>2, <1>3, <1>4, <1>5, <1>6, <1>7 DEF SupInv

(* The process is registered and watched.                                   *)
LEMMA SupRegisters == ASSUME SupInv, NEW t \in SupThreads, Sup!Register(t) PROVE SupInv'
<1>0. SupTypes /\ SupStates /\ SupFree /\ SupWatched /\ SupStarts /\ SupChecked
    BY DEF SupInv
<1>1. /\ pc[t] = "register"
      /\ slot' = cur[t]
      /\ watch' = [watch EXCEPT ![cur[t]] = "waiting"]
      /\ pc' = [pc EXCEPT ![t] = "wait"]
      /\ UNCHANGED <<stopping, restarts, life, killed, exited, stopped, started, health, fails, cur>>
    BY DEF Sup!Register, Sup!At, Sup!Goto, Sup!procVars, Sup!healthVars, Sup!threadVars
<1>2. SupStates'
    BY <1>0, SupSame DEF Sup!Register, Sup!At, Sup!Goto, Sup!procVars, Sup!healthVars, Sup!threadVars
<1>3. SupTypes'
    BY <1>0, <1>1, SupNumbers DEF SupTypes
<1>4. SupFree'
    BY <1>0, <1>1, SupNumbers DEF SupTypes, SupFree, SupStarts, SupUsing, SupStarting
<1>5. SupWatched'
    BY <1>0, <1>1, SupNumbers DEF SupTypes, SupFree, SupWatched, SupStarts, SupUsing, SupStarting
<1>6. SupStarts'
    BY <1>0, <1>1, SupNumbers DEF SupTypes, SupFree, SupWatched, SupStarts, SupUsing, SupStarting
<1>7. SupChecked'
    BY <1>0, <1>1, SupNumbers DEF SupTypes, SupFree, SupWatched, SupStarts, SupChecked, SupUsing, SupStarting
<1> QED
    BY <1>2, <1>3, <1>4, <1>5, <1>6, <1>7 DEF SupInv

(* The first health answer comes.                                           *)
LEMMA SupAnswers == ASSUME SupInv, NEW t \in SupThreads, Sup!Healthy(t) PROVE SupInv'
<1>0. SupTypes /\ SupStates /\ SupFree /\ SupWatched /\ SupStarts /\ SupChecked
    BY DEF SupInv
<1>1. /\ pc[t] = "wait"
      /\ started' = [started EXCEPT ![cur[t]] = TRUE]
      /\ restarts' = 0
      /\ pc' = [pc EXCEPT ![t] = "ready"]
      /\ UNCHANGED <<slot, stopping, life, killed, exited, stopped, watch, health, fails, cur>>
    BY DEF Sup!Healthy, Sup!At, Sup!Goto, Sup!procVars, Sup!healthVars, Sup!threadVars
<1>2. SupStates'
    BY <1>0, SupSame DEF Sup!Healthy, Sup!At, Sup!Goto, Sup!procVars, Sup!healthVars, Sup!threadVars
<1>3. SupTypes'
    BY <1>0, <1>1, SupNumbers DEF SupTypes
<1>4. SupFree'
    BY <1>0, <1>1, SupNumbers DEF SupTypes, SupFree, SupStarts, SupUsing, SupStarting
<1>5. SupWatched'
    BY <1>0, <1>1, SupNumbers DEF SupTypes, SupFree, SupWatched, SupStarts, SupUsing, SupStarting
<1>6. SupStarts'
    BY <1>0, <1>1, SupNumbers DEF SupTypes, SupFree, SupWatched, SupStarts, SupUsing, SupStarting
<1>7. SupChecked'
    BY <1>0, <1>1, SupNumbers DEF SupTypes, SupFree, SupWatched, SupStarts, SupChecked, SupUsing, SupStarting
<1> QED
    BY <1>2, <1>3, <1>4, <1>5, <1>6, <1>7 DEF SupInv

(* The start fails and kills the process.                                   *)
LEMMA SupStartFails == ASSUME SupInv, NEW t \in SupThreads, Sup!StartupFails(t) PROVE SupInv'
<1>0. SupTypes /\ SupStates /\ SupFree /\ SupWatched /\ SupStarts /\ SupChecked
    BY DEF SupInv
<1>1. /\ pc[t] = "wait"
      /\ killed' = [killed EXCEPT ![cur[t]] = TRUE]
      /\ health' = [health EXCEPT ![cur[t]] = "end"]
      /\ pc' = [pc EXCEPT ![t] = "finish"]
      /\ UNCHANGED <<slot, stopping, restarts, life, exited, stopped, started, watch, fails, cur>>
    BY DEF Sup!StartupFails, Sup!CancelProcess, Sup!At, Sup!Goto, Sup!procVars, Sup!healthVars, Sup!threadVars
<1>2. SupStates'
    BY <1>0, SupSets, SupSame DEF Sup!StartupFails, Sup!CancelProcess, Sup!At, Sup!Goto, Sup!procVars, Sup!healthVars, Sup!threadVars, SupStatus
<1>3. SupTypes'
    BY <1>0, <1>1, SupNumbers DEF SupTypes
<1>4. SupFree'
    BY <1>0, <1>1, SupNumbers DEF SupTypes, SupFree, SupStarts, SupUsing, SupStarting
<1>5. SupWatched'
    BY <1>0, <1>1, SupNumbers DEF SupTypes, SupFree, SupWatched, SupStarts, SupUsing, SupStarting
<1>6. SupStarts'
    BY <1>0, <1>1, SupNumbers DEF SupTypes, SupFree, SupWatched, SupStarts, SupUsing, SupStarting
<1>7. SupChecked'
    BY <1>0, <1>1, SupNumbers DEF SupTypes, SupFree, SupWatched, SupStarts, SupChecked, SupUsing, SupStarting
<1> QED
    BY <1>2, <1>3, <1>4, <1>5, <1>6, <1>7 DEF SupInv

(* The panel stops during the start: the process is killed.                 *)
LEMMA SupStartEnds == ASSUME SupInv, NEW t \in SupThreads, Sup!ContextDone(t) PROVE SupInv'
<1>0. SupTypes /\ SupStates /\ SupFree /\ SupWatched /\ SupStarts /\ SupChecked
    BY DEF SupInv
<1>1. /\ pc[t] = "wait"
      /\ killed' = [killed EXCEPT ![cur[t]] = TRUE]
      /\ health' = [health EXCEPT ![cur[t]] = "end"]
      /\ pc' = [pc EXCEPT ![t] = "idle"]
      /\ cur' = [cur EXCEPT ![t] = None]
      /\ UNCHANGED <<slot, stopping, restarts, life, exited, stopped, started, watch, fails>>
    BY DEF Sup!ContextDone, Sup!CancelProcess, Sup!At, Sup!Return, Sup!procVars, Sup!healthVars, Sup!threadVars
<1>2. SupStates'
    BY <1>0, SupSame DEF Sup!ContextDone, Sup!CancelProcess, Sup!At, Sup!Return, Sup!procVars, Sup!healthVars, Sup!threadVars
<1>3. SupTypes'
    BY <1>0, <1>1, SupNumbers DEF SupTypes
<1>4. SupFree'
    BY <1>0, <1>1, SupNumbers DEF SupTypes, SupFree, SupStarts, SupUsing, SupStarting
<1>5. SupWatched'
    BY <1>0, <1>1, SupNumbers DEF SupTypes, SupFree, SupWatched, SupStarts, SupUsing, SupStarting
<1>6. SupStarts'
    BY <1>0, <1>1, SupNumbers DEF SupTypes, SupFree, SupWatched, SupStarts, SupUsing, SupStarting
<1>7. SupChecked'
    BY <1>0, <1>1, SupNumbers DEF SupTypes, SupFree, SupWatched, SupStarts, SupChecked, SupUsing, SupStarting
<1> QED
    BY <1>2, <1>3, <1>4, <1>5, <1>6, <1>7 DEF SupInv

(* The plugin is marked as running.                                         *)
LEMMA SupRuns == ASSUME SupInv, NEW t \in SupThreads, Sup!MarkRunning(t) PROVE SupInv'
<1>0. SupTypes /\ SupStates /\ SupFree /\ SupWatched /\ SupStarts /\ SupChecked
    BY DEF SupInv
<1>1. /\ pc[t] = "ready"
      /\ pc' = [pc EXCEPT ![t] = "return"]
      /\ UNCHANGED <<slot, stopping, restarts, life, killed, exited, stopped, started, watch, health, fails, cur>>
    BY DEF Sup!MarkRunning, Sup!At, Sup!Goto, Sup!procVars, Sup!healthVars, Sup!threadVars
<1>2. SupStates'
    BY <1>0, SupSets, SupSame DEF Sup!MarkRunning, Sup!At, Sup!Goto, Sup!procVars, Sup!healthVars, Sup!threadVars, SupStatus
<1>3. SupTypes'
    BY <1>0, <1>1, SupNumbers DEF SupTypes
<1>4. SupFree'
    BY <1>0, <1>1, SupNumbers DEF SupTypes, SupFree, SupStarts, SupUsing, SupStarting
<1>5. SupWatched'
    BY <1>0, <1>1, SupNumbers DEF SupTypes, SupFree, SupWatched, SupStarts, SupUsing, SupStarting
<1>6. SupStarts'
    BY <1>0, <1>1, SupNumbers DEF SupTypes, SupFree, SupWatched, SupStarts, SupUsing, SupStarting
<1>7. SupChecked'
    BY <1>0, <1>1, SupNumbers DEF SupTypes, SupFree, SupWatched, SupStarts, SupChecked, SupUsing, SupStarting
<1> QED
    BY <1>2, <1>3, <1>4, <1>5, <1>6, <1>7 DEF SupInv

(* The health loop takes over from the start.                               *)
LEMMA SupChecks == ASSUME SupInv, NEW t \in SupThreads, Sup!StartHealthLoop(t) PROVE SupInv'
<1>0. SupTypes /\ SupStates /\ SupFree /\ SupWatched /\ SupStarts /\ SupChecked
    BY DEF SupInv
<1>1. /\ pc[t] = "return"
      /\ health' = [health EXCEPT ![cur[t]] = "loop"]
      /\ pc' = [pc EXCEPT ![t] = "idle"]
      /\ cur' = [cur EXCEPT ![t] = None]
      /\ UNCHANGED <<slot, stopping, restarts, life, killed, exited, stopped, started, watch, fails>>
    BY DEF Sup!StartHealthLoop, Sup!At, Sup!Return, Sup!procVars, Sup!healthVars, Sup!threadVars
<1>2. SupStates'
    BY <1>0, SupSame DEF Sup!StartHealthLoop, Sup!At, Sup!Return, Sup!procVars, Sup!healthVars, Sup!threadVars
<1>3. SupTypes'
    BY <1>0, <1>1, SupNumbers DEF SupTypes
<1>4. SupFree'
    BY <1>0, <1>1, SupNumbers DEF SupTypes, SupFree, SupStarts, SupUsing, SupStarting
<1>5. SupWatched'
    BY <1>0, <1>1, SupNumbers DEF SupTypes, SupFree, SupWatched, SupStarts, SupUsing, SupStarting
<1>6. SupStarts'
    BY <1>0, <1>1, SupNumbers DEF SupTypes, SupFree, SupWatched, SupStarts, SupUsing, SupStarting
<1>7. SupChecked'
    BY <1>0, <1>1, SupNumbers DEF SupTypes, SupFree, SupWatched, SupStarts, SupChecked, SupUsing, SupStarting
<1> QED
    BY <1>2, <1>3, <1>4, <1>5, <1>6, <1>7 DEF SupInv

(* The process ends.                                                        *)
LEMMA SupDies == ASSUME SupInv, NEW p \in Procs, Sup!Die(p) PROVE SupInv'
<1>0. SupTypes /\ SupStates /\ SupFree /\ SupWatched /\ SupStarts /\ SupChecked
    BY DEF SupInv
<1>1. /\ life[p] = "alive"
      /\ life' = [life EXCEPT ![p] = "dead"]
      /\ UNCHANGED <<slot, stopping, restarts, killed, exited, stopped, started, watch, health, fails, pc, cur>>
    BY DEF Sup!Die, Sup!procVars, Sup!healthVars, Sup!threadVars
<1>2. SupStates'
    BY <1>0, SupSame DEF Sup!Die, Sup!procVars, Sup!healthVars, Sup!threadVars
<1>3. SupTypes'
    BY <1>0, <1>1, SupNumbers DEF SupTypes
<1>4. SupFree'
    BY <1>0, <1>1, SupNumbers DEF SupTypes, SupFree, SupStarts, SupUsing, SupStarting
<1>5. SupWatched'
    BY <1>0, <1>1, SupNumbers DEF SupTypes, SupFree, SupWatched, SupStarts, SupUsing, SupStarting
<1>6. SupStarts'
    BY <1>0, <1>1, SupNumbers DEF SupTypes, SupFree, SupWatched, SupStarts, SupUsing, SupStarting
<1>7. SupChecked'
    BY <1>0, <1>1, SupNumbers DEF SupTypes, SupFree, SupWatched, SupStarts, SupChecked, SupUsing, SupStarting
<1> QED
    BY <1>2, <1>3, <1>4, <1>5, <1>6, <1>7 DEF SupInv

(* The watcher sees the exit.                                               *)
LEMMA SupReaps == ASSUME SupInv, NEW p \in Procs, Sup!Reap(p) PROVE SupInv'
<1>0. SupTypes /\ SupStates /\ SupFree /\ SupWatched /\ SupStarts /\ SupChecked
    BY DEF SupInv
<1>1. /\ life[p] = "dead" /\ watch[p] = "waiting"
      /\ exited' = [exited EXCEPT ![p] = TRUE]
      /\ watch' = [watch EXCEPT ![p] = "exited"]
      /\ UNCHANGED <<slot, stopping, restarts, life, killed, stopped, started, health, fails, pc, cur>>
    BY DEF Sup!Reap, Sup!procVars, Sup!healthVars, Sup!threadVars
<1>2. SupStates'
    BY <1>0, SupSame DEF Sup!Reap, Sup!procVars, Sup!healthVars, Sup!threadVars
<1>3. SupTypes'
    BY <1>0, <1>1, SupNumbers DEF SupTypes
<1>4. SupFree'
    BY <1>0, <1>1, SupNumbers DEF SupTypes, SupFree, SupStarts, SupUsing, SupStarting
<1>5. SupWatched'
    BY <1>0, <1>1, SupNumbers DEF SupTypes, SupFree, SupWatched, SupStarts, SupUsing, SupStarting
<1>6. SupStarts'
    BY <1>0, <1>1, SupNumbers DEF SupTypes, SupFree, SupWatched, SupStarts, SupUsing, SupStarting
<1>7. SupChecked'
    BY <1>0, <1>1, SupNumbers DEF SupTypes, SupFree, SupWatched, SupStarts, SupChecked, SupUsing, SupStarting
<1> QED
    BY <1>2, <1>3, <1>4, <1>5, <1>6, <1>7 DEF SupInv

(* The watcher decides what the exit means.                                 *)
LEMMA SupSeesExit == ASSUME SupInv, NEW p \in Procs, Sup!WatchExit(p) PROVE SupInv'
<1>0. SupTypes /\ SupStates /\ SupFree /\ SupWatched /\ SupStarts /\ SupChecked
    BY DEF SupInv
<1>1. /\ watch[p] = "exited"
      /\ \/ watch' = [watch EXCEPT ![p] = "end"]
         \/ started[p] /\ watch' = [watch EXCEPT ![p] = "restart"]
      /\ UNCHANGED <<slot, stopping, restarts, life, killed, exited, stopped, started, health, fails, pc, cur>>
    BY DEF Sup!WatchExit, Sup!DeservesRestart, Sup!procVars, Sup!healthVars, Sup!threadVars
<1>2. SupStates'
    BY <1>0, SupSets, SupSame DEF Sup!WatchExit, Sup!DeservesRestart, Sup!procVars, Sup!healthVars, Sup!threadVars, SupStatus
<1>3. SupTypes'
    BY <1>0, <1>1, SupNumbers DEF SupTypes
<1>4. SupFree'
    BY <1>0, <1>1, SupNumbers DEF SupTypes, SupFree, SupStarts, SupUsing, SupStarting
<1>5. SupWatched'
    BY <1>0, <1>1, SupNumbers DEF SupTypes, SupFree, SupWatched, SupStarts, SupUsing, SupStarting
<1>6. SupStarts'
    BY <1>0, <1>1, SupNumbers DEF SupTypes, SupFree, SupWatched, SupStarts, SupUsing, SupStarting
<1>7. SupChecked'
    BY <1>0, <1>1, SupNumbers DEF SupTypes, SupFree, SupWatched, SupStarts, SupChecked, SupUsing, SupStarting
<1> QED
    BY <1>2, <1>3, <1>4, <1>5, <1>6, <1>7 DEF SupInv

(* The watcher gives up, or arms the timer of the restart.                  *)
LEMMA SupCounts == ASSUME SupInv, NEW p \in Procs, NEW x \in BOOLEAN, Sup!Restart(p, x) PROVE SupInv'
<1>0. SupTypes /\ SupStates /\ SupFree /\ SupWatched /\ SupStarts /\ SupChecked
    BY DEF SupInv
<1>1. /\ watch[p] = "restart"
      /\ restarts' = 1 \/ restarts' = restarts + 1
      /\ \/ pc' = [pc EXCEPT ![p] = "idle"]
         \/ pc' = [pc EXCEPT ![p] = "armed"]
      /\ watch' = [watch EXCEPT ![p] = "end"]
      /\ UNCHANGED <<slot, stopping, life, killed, exited, stopped, started, health, fails, cur>>
    BY DEF Sup!Restart, Sup!AfterCount, Sup!procVars, Sup!healthVars, Sup!threadVars
<1>2. SupStates'
    BY <1>0, SupSets, SupSame DEF Sup!Restart, Sup!AfterCount, Sup!procVars, Sup!healthVars, Sup!threadVars, SupStatus
<1>3. SupTypes'
    BY <1>0, <1>1, SupNumbers DEF SupTypes
<1>4. SupFree'
    BY <1>0, <1>1, SupNumbers DEF SupTypes, SupFree, SupStarts, SupUsing, SupStarting
<1>5. SupWatched'
    BY <1>0, <1>1, SupNumbers DEF SupTypes, SupFree, SupWatched, SupStarts, SupUsing, SupStarting
<1>6. SupStarts'
    BY <1>0, <1>1, SupNumbers DEF SupTypes, SupFree, SupWatched, SupStarts, SupUsing, SupStarting
<1>7. SupChecked'
    BY <1>0, <1>1, SupNumbers DEF SupTypes, SupFree, SupWatched, SupStarts, SupChecked, SupUsing, SupStarting
<1> QED
    BY <1>2, <1>3, <1>4, <1>5, <1>6, <1>7 DEF SupInv

(* The health loop ends with the process, or probes.                        *)
LEMMA SupTicks == ASSUME SupInv, NEW p \in Procs, Sup!HealthTick(p) PROVE SupInv'
<1>0. SupTypes /\ SupStates /\ SupFree /\ SupWatched /\ SupStarts /\ SupChecked
    BY DEF SupInv
<1>1. /\ health[p] = "loop"
      /\ \/ (exited[p] \/ stopping) /\ health' = [health EXCEPT ![p] = "end"]
         \/ health' = [health EXCEPT ![p] = "probing"]
      /\ UNCHANGED <<slot, stopping, restarts, life, killed, exited, stopped, started, watch, fails, pc, cur>>
    BY DEF Sup!HealthTick, Sup!procVars, Sup!healthVars, Sup!threadVars
<1>2. SupStates'
    BY <1>0, SupSame DEF Sup!HealthTick, Sup!procVars, Sup!healthVars, Sup!threadVars
<1>3. SupTypes'
    BY <1>0, <1>1, SupNumbers DEF SupTypes
<1>4. SupFree'
    BY <1>0, <1>1, SupNumbers DEF SupTypes, SupFree, SupStarts, SupUsing, SupStarting
<1>5. SupWatched'
    BY <1>0, <1>1, SupNumbers DEF SupTypes, SupFree, SupWatched, SupStarts, SupUsing, SupStarting
<1>6. SupStarts'
    BY <1>0, <1>1, SupNumbers DEF SupTypes, SupFree, SupWatched, SupStarts, SupUsing, SupStarting
<1>7. SupChecked'
    BY <1>0, <1>1, SupNumbers DEF SupTypes, SupFree, SupWatched, SupStarts, SupChecked, SupUsing, SupStarting
<1> QED
    BY <1>2, <1>3, <1>4, <1>5, <1>6, <1>7 DEF SupInv

(* The probe is answered.                                                   *)
LEMMA SupProbes == ASSUME SupInv, NEW p \in Procs, Sup!HealthAnswer(p) PROVE SupInv'
<1>0. SupTypes /\ SupStates /\ SupFree /\ SupWatched /\ SupStarts /\ SupChecked
    BY DEF SupInv
<1>1. /\ health[p] = "probing"
      /\ health' = [health EXCEPT ![p] = "good"]
      /\ UNCHANGED <<slot, stopping, restarts, life, killed, exited, stopped, started, watch, fails, pc, cur>>
    BY DEF Sup!HealthAnswer, Sup!procVars, Sup!healthVars, Sup!threadVars
<1>2. SupStates'
    BY <1>0, SupSame DEF Sup!HealthAnswer, Sup!procVars, Sup!healthVars, Sup!threadVars
<1>3. SupTypes'
    BY <1>0, <1>1, SupNumbers DEF SupTypes
<1>4. SupFree'
    BY <1>0, <1>1, SupNumbers DEF SupTypes, SupFree, SupStarts, SupUsing, SupStarting
<1>5. SupWatched'
    BY <1>0, <1>1, SupNumbers DEF SupTypes, SupFree, SupWatched, SupStarts, SupUsing, SupStarting
<1>6. SupStarts'
    BY <1>0, <1>1, SupNumbers DEF SupTypes, SupFree, SupWatched, SupStarts, SupUsing, SupStarting
<1>7. SupChecked'
    BY <1>0, <1>1, SupNumbers DEF SupTypes, SupFree, SupWatched, SupStarts, SupChecked, SupUsing, SupStarting
<1> QED
    BY <1>2, <1>3, <1>4, <1>5, <1>6, <1>7 DEF SupInv

(* The plugin is healthy.                                                   *)
LEMMA SupGood == ASSUME SupInv, NEW p \in Procs, Sup!HealthGood(p) PROVE SupInv'
<1>0. SupTypes /\ SupStates /\ SupFree /\ SupWatched /\ SupStarts /\ SupChecked
    BY DEF SupInv
<1>1. /\ health[p] = "good"
      /\ health' = [health EXCEPT ![p] = "loop"]
      /\ fails' = [fails EXCEPT ![p] = 0]
      /\ UNCHANGED <<slot, stopping, restarts, life, killed, exited, stopped, started, watch, pc, cur>>
    BY DEF Sup!HealthGood, Sup!procVars, Sup!healthVars, Sup!threadVars
<1>2. SupStates'
    BY <1>0, SupSets, SupSame DEF Sup!HealthGood, Sup!procVars, Sup!healthVars, Sup!threadVars, SupStatus
<1>3. SupTypes'
    BY <1>0, <1>1, SupNumbers, SupZero DEF SupTypes
<1>4. SupFree'
    BY <1>0, <1>1, SupNumbers DEF SupTypes, SupFree, SupStarts, SupUsing, SupStarting
<1>5. SupWatched'
    BY <1>0, <1>1, SupNumbers DEF SupTypes, SupFree, SupWatched, SupStarts, SupUsing, SupStarting
<1>6. SupStarts'
    BY <1>0, <1>1, SupNumbers DEF SupTypes, SupFree, SupWatched, SupStarts, SupUsing, SupStarting
<1>7. SupChecked'
    BY <1>0, <1>1, SupNumbers DEF SupTypes, SupFree, SupWatched, SupStarts, SupChecked, SupUsing, SupStarting
<1> QED
    BY <1>2, <1>3, <1>4, <1>5, <1>6, <1>7 DEF SupInv

(* The probe fails, perhaps once too often.                                 *)
LEMMA SupBad == ASSUME SupInv, NEW p \in Procs, Sup!HealthBad(p) PROVE SupInv'
<1>0. SupTypes /\ SupStates /\ SupFree /\ SupWatched /\ SupStarts /\ SupChecked
    BY DEF SupInv
<1>1. /\ health[p] = "probing"
      /\ \/ /\ killed' = [killed EXCEPT ![p] = TRUE] /\ fails' = [fails EXCEPT ![p] = 0]
            /\ health' = [health EXCEPT ![p] = "end"]
         \/ /\ fails' = [fails EXCEPT ![p] = fails[p] + 1] /\ ~(fails[p] + 1 >= FailThreshold)
            /\ health' = [health EXCEPT ![p] = "loop"] /\ UNCHANGED killed
      /\ UNCHANGED <<slot, stopping, restarts, life, exited, stopped, started, watch, pc, cur>>
    BY <1>0 DEF Sup!HealthBad, Sup!CancelProcess, Sup!TooManyFails, Sup!procVars, Sup!healthVars, Sup!threadVars
<1>2. SupStates'
    BY <1>0, SupSame DEF Sup!HealthBad, Sup!CancelProcess, Sup!TooManyFails, Sup!procVars, Sup!healthVars, Sup!threadVars
<1>3. SupTypes'
  <2>1. fails \in [Procs -> 0..(FailThreshold - 1)] /\ killed \in [Procs -> BOOLEAN]
        /\ health \in [Procs -> {"none", "loop", "probing", "good", "end"}]
    BY <1>0 DEF SupTypes
  <2>2. fails' \in [Procs -> 0..(FailThreshold - 1)]
    <3>1. ~(fails[p] + 1 >= FailThreshold) => fails[p] + 1 \in 0..(FailThreshold - 1)
      BY <2>1, SupNumbers
    <3> QED
      BY <1>1, <2>1, <3>1, SupZero
  <2>3. killed' \in [Procs -> BOOLEAN] /\ health' \in [Procs -> {"none", "loop", "probing", "good", "end"}]
    BY <1>1, <2>1
  <2> QED
    BY <1>0, <1>1, <2>2, <2>3 DEF SupTypes
<1>4. SupFree'
    BY <1>0, <1>1, SupNumbers DEF SupTypes, SupFree, SupStarts, SupUsing, SupStarting
<1>5. SupWatched'
    BY <1>0, <1>1, SupNumbers DEF SupTypes, SupFree, SupWatched, SupStarts, SupUsing, SupStarting
<1>6. SupStarts'
    BY <1>0, <1>1, SupNumbers DEF SupTypes, SupFree, SupWatched, SupStarts, SupUsing, SupStarting
<1>7. SupChecked'
    BY <1>0, <1>1, SupNumbers DEF SupTypes, SupFree, SupWatched, SupStarts, SupChecked, SupUsing, SupStarting
<1> QED
    BY <1>2, <1>3, <1>4, <1>5, <1>6, <1>7 DEF SupInv

(* StopPlugin takes the process out of the registry.                        *)
LEMMA SupDetaches == ASSUME SupInv, NEW u \in Users \cup Shutdowns, Sup!CallStop(u) \/ Sup!StopAllPlugin(u) PROVE SupInv'
<1>0. SupTypes /\ SupStates /\ SupFree /\ SupWatched /\ SupStarts /\ SupChecked
    BY DEF SupInv
<1>1. /\ pc[u] \in {"idle", "stopall"}
      /\ \/ /\ slot = None /\ pc' = [pc EXCEPT ![u] = "idle"] /\ cur' = [cur EXCEPT ![u] = None]
         \/ /\ slot # None /\ pc' = [pc EXCEPT ![u] = "signal"] /\ cur' = [cur EXCEPT ![u] = slot]
      /\ slot' = None
      /\ UNCHANGED <<stopping, restarts, life, killed, exited, stopped, started, watch, health, fails>>
    BY DEF Sup!CallStop, Sup!StopAllPlugin, Sup!Detach, Sup!Return, Sup!At, Sup!Goto, Sup!procVars, Sup!healthVars, Sup!threadVars
<1>2. SupStates'
    BY <1>0, SupSame DEF Sup!CallStop, Sup!StopAllPlugin, Sup!Detach, Sup!Return, Sup!At, Sup!Goto, Sup!procVars, Sup!healthVars, Sup!threadVars
<1>3. SupTypes'
    BY <1>0, <1>1, SupNumbers DEF SupTypes
<1>4. SupFree'
    BY <1>0, <1>1, SupNumbers DEF SupTypes, SupFree, SupStarts, SupUsing, SupStarting
<1>5. SupWatched'
    BY <1>0, <1>1, SupNumbers DEF SupTypes, SupFree, SupWatched, SupStarts, SupUsing, SupStarting
<1>6. SupStarts'
    BY <1>0, <1>1, SupNumbers DEF SupTypes, SupFree, SupWatched, SupStarts, SupUsing, SupStarting
<1>7. SupChecked'
    BY <1>0, <1>1, SupNumbers DEF SupTypes, SupFree, SupWatched, SupStarts, SupChecked, SupUsing, SupStarting
<1> QED
    BY <1>2, <1>3, <1>4, <1>5, <1>6, <1>7 DEF SupInv

(* StopPlugin marks the process as stopped and interrupts it.               *)
LEMMA SupSignals == ASSUME SupInv, NEW u \in Users \cup Shutdowns, Sup!Signal(u) PROVE SupInv'
<1>0. SupTypes /\ SupStates /\ SupFree /\ SupWatched /\ SupStarts /\ SupChecked
    BY DEF SupInv
<1>1. /\ pc[u] = "signal"
      /\ stopped' = [stopped EXCEPT ![cur[u]] = TRUE]
      /\ pc' = [pc EXCEPT ![u] = "await"]
      /\ UNCHANGED <<slot, stopping, restarts, life, killed, exited, started, watch, health, fails, cur>>
    BY DEF Sup!Signal, Sup!At, Sup!Goto, Sup!procVars, Sup!healthVars, Sup!threadVars
<1>2. SupStates'
    BY <1>0, SupSame DEF Sup!Signal, Sup!At, Sup!Goto, Sup!procVars, Sup!healthVars, Sup!threadVars
<1>3. SupTypes'
    BY <1>0, <1>1, SupNumbers DEF SupTypes
<1>4. SupFree'
    BY <1>0, <1>1, SupNumbers DEF SupTypes, SupFree, SupStarts, SupUsing, SupStarting
<1>5. SupWatched'
    BY <1>0, <1>1, SupNumbers DEF SupTypes, SupFree, SupWatched, SupStarts, SupUsing, SupStarting
<1>6. SupStarts'
    BY <1>0, <1>1, SupNumbers DEF SupTypes, SupFree, SupWatched, SupStarts, SupUsing, SupStarting
<1>7. SupChecked'
    BY <1>0, <1>1, SupNumbers DEF SupTypes, SupFree, SupWatched, SupStarts, SupChecked, SupUsing, SupStarting
<1> QED
    BY <1>2, <1>3, <1>4, <1>5, <1>6, <1>7 DEF SupInv

(* StopPlugin kills it after ten seconds.                                   *)
LEMMA SupKills == ASSUME SupInv, NEW u \in Users \cup Shutdowns, Sup!KillAfterGrace(u) PROVE SupInv'
<1>0. SupTypes /\ SupStates /\ SupFree /\ SupWatched /\ SupStarts /\ SupChecked
    BY DEF SupInv
<1>1. /\ pc[u] = "await"
      /\ killed' = [killed EXCEPT ![cur[u]] = TRUE]
      /\ UNCHANGED <<slot, stopping, restarts, life, exited, stopped, started, watch, health, fails, pc, cur>>
    BY DEF Sup!KillAfterGrace, Sup!At, Sup!Goto, Sup!procVars, Sup!healthVars, Sup!threadVars
<1>2. SupStates'
    BY <1>0, SupSame DEF Sup!KillAfterGrace, Sup!At, Sup!Goto, Sup!procVars, Sup!healthVars, Sup!threadVars
<1>3. SupTypes'
    BY <1>0, <1>1, SupNumbers DEF SupTypes
<1>4. SupFree'
    BY <1>0, <1>1, SupNumbers DEF SupTypes, SupFree, SupStarts, SupUsing, SupStarting
<1>5. SupWatched'
    BY <1>0, <1>1, SupNumbers DEF SupTypes, SupFree, SupWatched, SupStarts, SupUsing, SupStarting
<1>6. SupStarts'
    BY <1>0, <1>1, SupNumbers DEF SupTypes, SupFree, SupWatched, SupStarts, SupUsing, SupStarting
<1>7. SupChecked'
    BY <1>0, <1>1, SupNumbers DEF SupTypes, SupFree, SupWatched, SupStarts, SupChecked, SupUsing, SupStarting
<1> QED
    BY <1>2, <1>3, <1>4, <1>5, <1>6, <1>7 DEF SupInv

(* StopPlugin has seen the exit.                                            *)
LEMMA SupStopped == ASSUME SupInv, NEW u \in Users \cup Shutdowns, Sup!StopReturns(u) PROVE SupInv'
<1>0. SupTypes /\ SupStates /\ SupFree /\ SupWatched /\ SupStarts /\ SupChecked
    BY DEF SupInv
<1>1. /\ pc[u] = "await"
      /\ pc' = [pc EXCEPT ![u] = "finish"]
      /\ UNCHANGED <<slot, stopping, restarts, life, killed, exited, stopped, started, watch, health, fails, cur>>
    BY DEF Sup!StopReturns, Sup!At, Sup!Goto, Sup!procVars, Sup!healthVars, Sup!threadVars
<1>2. SupStates'
    BY <1>0, SupSets, SupSame DEF Sup!StopReturns, Sup!At, Sup!Goto, Sup!procVars, Sup!healthVars, Sup!threadVars, SupStatus
<1>3. SupTypes'
    BY <1>0, <1>1, SupNumbers DEF SupTypes
<1>4. SupFree'
    BY <1>0, <1>1, SupNumbers DEF SupTypes, SupFree, SupStarts, SupUsing, SupStarting
<1>5. SupWatched'
    BY <1>0, <1>1, SupNumbers DEF SupTypes, SupFree, SupWatched, SupStarts, SupUsing, SupStarting
<1>6. SupStarts'
    BY <1>0, <1>1, SupNumbers DEF SupTypes, SupFree, SupWatched, SupStarts, SupUsing, SupStarting
<1>7. SupChecked'
    BY <1>0, <1>1, SupNumbers DEF SupTypes, SupFree, SupWatched, SupStarts, SupChecked, SupUsing, SupStarting
<1> QED
    BY <1>2, <1>3, <1>4, <1>5, <1>6, <1>7 DEF SupInv

(* The shutdown begins.                                                     *)
LEMMA SupShutsDown == ASSUME SupInv, NEW u \in Users \cup Shutdowns, Sup!CallStopAll(u) PROVE SupInv'
<1>0. SupTypes /\ SupStates /\ SupFree /\ SupWatched /\ SupStarts /\ SupChecked
    BY DEF SupInv
<1>1. /\ pc[u] = "idle"
      /\ stopping' = TRUE
      /\ pc' = [pc EXCEPT ![u] = "stopall"]
      /\ UNCHANGED <<slot, restarts, life, killed, exited, stopped, started, watch, health, fails, cur>>
    BY DEF Sup!CallStopAll, Sup!At, Sup!Goto, Sup!procVars, Sup!healthVars, Sup!threadVars
<1>2. SupStates'
    BY <1>0, SupSame DEF Sup!CallStopAll, Sup!At, Sup!Goto, Sup!procVars, Sup!healthVars, Sup!threadVars
<1>3. SupTypes'
    BY <1>0, <1>1, SupNumbers DEF SupTypes
<1>4. SupFree'
    BY <1>0, <1>1, SupNumbers DEF SupTypes, SupFree, SupStarts, SupUsing, SupStarting
<1>5. SupWatched'
    BY <1>0, <1>1, SupNumbers DEF SupTypes, SupFree, SupWatched, SupStarts, SupUsing, SupStarting
<1>6. SupStarts'
    BY <1>0, <1>1, SupNumbers DEF SupTypes, SupFree, SupWatched, SupStarts, SupUsing, SupStarting
<1>7. SupChecked'
    BY <1>0, <1>1, SupNumbers DEF SupTypes, SupFree, SupWatched, SupStarts, SupChecked, SupUsing, SupStarting
<1> QED
    BY <1>2, <1>3, <1>4, <1>5, <1>6, <1>7 DEF SupInv

(* A thread moves between points that have no process.                      *)
LEMMA SupMoves == ASSUME SupInv, NEW t \in SupThreads, t \in Procs => pc[t] # "idle",
           Sup!CallStart(t) \/ Sup!Check(t) \/ Sup!ExecMissing(t) \/ Sup!Finish(t) \/ Sup!TimerFires(t) PROVE SupInv'
<1>0. SupTypes /\ SupStates /\ SupFree /\ SupWatched /\ SupStarts /\ SupChecked
    BY DEF SupInv
<1>1. /\ pc[t] \in {"idle", "check", "spawn", "finish", "armed"}
      /\ cur' = cur \/ cur' = [cur EXCEPT ![t] = None]
      /\ \/ pc' = [pc EXCEPT ![t] = "idle"] \/ pc' = [pc EXCEPT ![t] = "check"]
         \/ pc' = [pc EXCEPT ![t] = "spawn"]
      /\ UNCHANGED <<slot, stopping, restarts, life, killed, exited, stopped, started, watch, health, fails>>
    BY DEF Sup!CallStart, Sup!Check, Sup!ExecMissing, Sup!Finish, Sup!TimerFires, Sup!Return, Sup!At, Sup!Goto, Sup!procVars, Sup!healthVars, Sup!threadVars
<1>2. SupStates'
    BY <1>0, SupSame DEF Sup!CallStart, Sup!Check, Sup!ExecMissing, Sup!Finish, Sup!TimerFires, Sup!Return, Sup!At, Sup!Goto, Sup!procVars, Sup!healthVars, Sup!threadVars
<1>3. SupTypes'
    BY <1>0, <1>1, SupNumbers DEF SupTypes
<1>4. SupFree'
    BY <1>0, <1>1, SupNumbers DEF SupTypes, SupFree, SupStarts, SupUsing, SupStarting
<1>5. SupWatched'
    BY <1>0, <1>1, SupNumbers DEF SupTypes, SupFree, SupWatched, SupStarts, SupUsing, SupStarting
<1>6. SupStarts'
    BY <1>0, <1>1, SupNumbers DEF SupTypes, SupFree, SupWatched, SupStarts, SupUsing, SupStarting
<1>7. SupChecked'
    BY <1>0, <1>1, SupNumbers DEF SupTypes, SupFree, SupWatched, SupStarts, SupChecked, SupUsing, SupStarting
<1> QED
    BY <1>2, <1>3, <1>4, <1>5, <1>6, <1>7 DEF SupInv

(* The handle of a dead process becomes free.                               *)
LEMMA SupCollects == ASSUME SupInv, NEW p \in Procs, Sup!Collect(p) PROVE SupInv'
<1>0. SupTypes /\ SupStates /\ SupFree /\ SupWatched /\ SupStarts /\ SupChecked
    BY DEF SupInv
<1>1. /\ life[p] = "dead" /\ slot # p /\ pc[p] = "idle"
      /\ \A t \in SupThreads : cur[t] # p
      /\ life' = [life EXCEPT ![p] = "free"]
      /\ killed' = [killed EXCEPT ![p] = FALSE]
      /\ exited' = [exited EXCEPT ![p] = FALSE]
      /\ stopped' = [stopped EXCEPT ![p] = FALSE]
      /\ started' = [started EXCEPT ![p] = FALSE]
      /\ watch' = [watch EXCEPT ![p] = "none"]
      /\ health' = [health EXCEPT ![p] = "none"]
      /\ fails' = [fails EXCEPT ![p] = 0]
      /\ UNCHANGED <<slot, stopping, restarts, pc, cur>>
    BY SupNumbers DEF Sup!Collect, Sup!procVars, Sup!healthVars, Sup!threadVars
<1>2. SupStates'
  <2>1. state' = [state EXCEPT ![p] = None] /\ pend' = pend
    BY DEF Sup!Collect
  <2>2. None \in SupStatus
    BY DEF SupStatus
  <2> QED
    BY <1>0, <2>1, <2>2 DEF SupStates
<1>3. SupTypes'
    BY <1>0, <1>1, SupNumbers, SupZero DEF SupTypes
<1>4. SupFree'
    BY <1>0, <1>1, SupNumbers DEF SupTypes, SupFree, SupStarts, SupUsing, SupStarting
<1>5. SupWatched'
    BY <1>0, <1>1, SupNumbers DEF SupTypes, SupFree, SupWatched, SupStarts, SupUsing, SupStarting
<1>6. SupStarts'
    BY <1>0, <1>1, SupNumbers DEF SupTypes, SupFree, SupWatched, SupStarts, SupUsing, SupStarting
<1>7. SupChecked'
    BY <1>0, <1>1, SupNumbers DEF SupTypes, SupFree, SupWatched, SupStarts, SupChecked, SupUsing, SupStarting
<1> QED
    BY <1>2, <1>3, <1>4, <1>5, <1>6, <1>7 DEF SupInv

(* A status is written to the database.                                     *)
LEMMA SupWrites == ASSUME SupInv, NEW a, Sup!WriteStatus(a) PROVE SupInv'
<1>1. pend' = [pend EXCEPT ![a] = None] /\ UNCHANGED state /\ None \in SupStatus
    BY DEF Sup!WriteStatus, Sup!procVars, SupStatus
<1>2. SupStates'
    BY <1>1 DEF SupInv, SupStates
<1>3. UNCHANGED <<slot, stopping, restarts, life, killed, exited, stopped, started, watch,
                  health, fails, pc, cur>>
    BY DEF Sup!WriteStatus, Sup!procVars, Sup!healthVars, Sup!threadVars
<1> QED
    BY <1>2, <1>3, SupFrame

(* The invariant holds on while the part does nothing.                      *)
LEMMA SupStutter == SupInv /\ UNCHANGED supVars => SupInv'
<1> SUFFICES ASSUME SupInv, UNCHANGED supVars PROVE SupInv'
    OBVIOUS
<1>1. UNCHANGED <<state, pend>> /\
      UNCHANGED <<slot, stopping, restarts, life, killed, exited, stopped, started, watch,
                  health, fails, pc, cur>>
    BY DEF supVars
<1>2. SupStates'
    BY <1>1, SupSame DEF SupInv
<1> QED
    BY <1>1, <1>2, SupFrame

(* Every step of the supervisor keeps the invariant.                        *)
LEMMA SupStep == SupInv /\ Sup!Next => SupInv'
<1> SUFFICES ASSUME SupInv, Sup!Next PROVE SupInv'
    OBVIOUS
<1>1. ASSUME NEW t \in SupThreads, Sup!EnsureRunning(t) PROVE SupInv'
  <2>1. CASE Sup!Check(t) \/ Sup!ExecMissing(t) \/ Sup!Finish(t)
    <3>1. pc[t] # "idle"
      BY <2>1 DEF Sup!Check, Sup!ExecMissing, Sup!Finish, Sup!At
    <3> QED
      BY <2>1, <3>1, SupMoves
  <2> QED
    BY <1>1, <2>1, SupCreates, SupLaunches, SupLaunchFails, SupRegisters, SupAnswers, SupStartFails,
       SupStartEnds, SupRuns, SupChecks DEF Sup!EnsureRunning
<1>2. ASSUME NEW u \in Users \cup Shutdowns, Sup!StopPlugin(u) PROVE SupInv'
    BY <1>2, SupDetaches, SupSignals, SupKills, SupStopped DEF Sup!StopPlugin
<1>3. ASSUME NEW u \in Users \cup Shutdowns, Sup!Request(u) PROVE SupInv'
    BY <1>1, <1>2, <1>3, SupWrites DEF Sup!Request, SupThreads
<1>4. ASSUME NEW p \in Procs, Sup!Timer(p) PROVE SupInv'
  <2>1. CASE Sup!TimerFires(p)
    <3>1. pc[p] # "idle" /\ p \in SupThreads
      BY <2>1 DEF Sup!TimerFires, Sup!At, SupThreads
    <3> QED
      BY <2>1, <3>1, SupMoves
  <2> QED
    BY <1>1, <1>4, <2>1, SupWrites DEF Sup!Timer, SupThreads
<1>5. ASSUME NEW p \in Procs, Sup!Watcher(p) \/ Sup!HealthLoop(p) PROVE SupInv'
    BY <1>5, SupReaps, SupSeesExit, SupCounts, SupTicks, SupProbes, SupGood, SupBad, SupWrites
       DEF Sup!Watcher, Sup!HealthLoop
<1>6. ASSUME NEW u \in Users, Sup!CallStart(u) PROVE SupInv'
  <2>1. u \in SupThreads /\ u \notin Procs
    BY SupNumbers
  <2> QED
    BY <1>6, <2>1, SupMoves
<1>7. ASSUME NEW u \in Users, Sup!CallStop(u) PROVE SupInv'
    BY <1>7, SupDetaches
<1>8. ASSUME NEW u \in Shutdowns, Sup!CallStopAll(u) PROVE SupInv'
    BY <1>8, SupShutsDown
<1>9. Sup!Callers = Users \cup Shutdowns
    BY SupNumbers
<1> QED
    BY <1>3, <1>4, <1>5, <1>6, <1>7, <1>8, <1>9, SupDies, SupCollects DEF Sup!Next

(* What the invariant says: the types, that every process that runs is      *)
(* watched and checked, and that only crashes restart.                      *)
LEMMA SupShows == SupInv => Sup!TypeOK /\ Sup!Supervised /\ Sup!OnlyCrashesRestart
<1> SUFFICES ASSUME SupInv PROVE Sup!TypeOK /\ Sup!Supervised /\ Sup!OnlyCrashesRestart
    OBVIOUS
<1>0. SupTypes /\ SupStates /\ SupWatched /\ SupChecked
    BY DEF SupInv
<1>1. SupStatus = Sup!Status \cup {None} /\ Sup!Threads = SupThreads
    BY SupNumbers DEF SupStatus, Sup!Status
<1>2. Sup!TypeOK
  <2>1. state \in [Procs -> Sup!Status \cup {None}] /\ pend \in [Sup!Actors -> Sup!Status \cup {None}]
    BY <1>0, <1>1 DEF SupStates
  <2> QED
    BY <1>0, <1>1, <2>1 DEF Sup!TypeOK, SupTypes
<1>3. Sup!Supervised
  <2> SUFFICES ASSUME NEW p \in Procs, life[p] = "alive", started[p], ~killed[p], ~stopped[p], ~stopping
               PROVE  /\ watch[p] = "waiting"
                      /\ \/ health[p] \in {"loop", "probing", "good"}
                         \/ \E t \in SupThreads : cur[t] = p /\ pc[t] \in {"ready", "return"}
    BY <1>1 DEF Sup!Supervised, Sup!Alive
  <2>1. watch[p] = "waiting"
    BY <1>0 DEF SupTypes, SupWatched
  <2> QED
    BY <1>0, <2>1 DEF SupChecked
<1>4. Sup!OnlyCrashesRestart
    BY <1>0 DEF Sup!OnlyCrashesRestart, SupWatched
<1> QED
    BY <1>2, <1>3, <1>4

-----------------------------------------------------------------------------
(* Terminals. A closed session has been waited for; a connection without a  *)
(* session was never closed; and who holds the manager's lock to close a    *)
(* session is closing its connection, so that a fresh session is not closed *)
(* for an old one.                                                          *)
TermInv ==
    /\ Term!TypeOK /\ Term!NoOrphanShell
    /\ closed \subseteq Conns /\ toClose \subseteq Conns
    /\ \A k \in closed : shell[k] \notin {"runs", "exited"}
    /\ \A k \in Conns : conn[k] = "none" => k \notin closed /\ k \notin sessions
    /\ \A k \in Conns : mu = k => conn[k] = "closing"

(* The bounds, and who holds the lock when no connection does.              *)
LEMMA TermNames == SendChanSize \in Nat /\ None \notin Conns /\ Idler \notin Conns
BY TermAssumption DEF Term!TerminalBounds

(* The invariant holds at the start.                                        *)
LEMMA TermInit == Term!Init => TermInv
BY TermNames DEF Term!Init, TermInv, Term!TypeOK, Term!NoOrphanShell

(* A session is made, or the request fails at the limit.                    *)
LEMMA TermCreates ==
    ASSUME TermInv, NEW k \in Conns, Term!HandleWebSocket(k)
    PROVE  TermInv'
<1>1. CASE conn[k] = "none"
  <2>1. PICK starts \in BOOLEAN : Term!CreateSession(k, starts)
    BY <1>1 DEF Term!HandleWebSocket
  <2>2. UNCHANGED <<mu, smu, closed, queue, idle, toClose, browser, cancelled, fwd>>
    BY <1>1 DEF Term!HandleWebSocket
  <2>3. \/ /\ sessions' = sessions \cup {k} /\ shell' = [shell EXCEPT ![k] = "runs"]
           /\ conn' = [conn EXCEPT ![k] = "created"]
        \/ conn' = [conn EXCEPT ![k] = "gone"] /\ UNCHANGED <<sessions, shell>>
    BY <2>1 DEF Term!CreateSession
  <2>4. mu = None
    BY <2>1 DEF Term!CreateSession
  <2> QED
    BY <1>1, <2>2, <2>3, <2>4, TermNames DEF TermInv, Term!TypeOK, Term!NoOrphanShell
<1>2. CASE conn[k] = "created"
  <2>1. /\ conn' = [conn EXCEPT ![k] = "closing"] \/ conn' = [conn EXCEPT ![k] = "open"]
        /\ UNCHANGED <<sessions, mu, smu, closed, shell, queue, toClose, browser>>
    BY <1>2 DEF Term!HandleWebSocket, Term!sess
  <2> QED
    BY <1>2, <2>1 DEF TermInv, Term!TypeOK, Term!NoOrphanShell
<1> QED
    BY <1>1, <1>2 DEF Term!HandleWebSocket

(* The connection asks for the lock and then closes its session.            *)
LEMMA TermCloses ==
    ASSUME TermInv, NEW k \in Conns, Term!CloseSessionLocks(k) \/ Term!CloseSession(k)
    PROVE  TermInv'
<1>1. CASE Term!CloseSessionLocks(k)
  <2>1. /\ conn[k] = "closing" /\ mu = None
        /\ \/ mu' = k /\ UNCHANGED conn
           \/ conn' = [conn EXCEPT ![k] = "closed"] /\ UNCHANGED mu
        /\ UNCHANGED <<sessions, smu, closed, shell, queue, toClose, browser>>
    BY <1>1 DEF Term!CloseSessionLocks
  <2> QED
    BY <2>1, TermNames DEF TermInv, Term!TypeOK, Term!NoOrphanShell
<1>2. CASE Term!CloseSession(k)
  <2>1. /\ mu = k /\ closed' = closed \cup {k} /\ sessions' = sessions \ {k} /\ mu' = None
        /\ shell' = [j \in Conns |-> IF j \in {k} \ closed THEN "reaped" ELSE shell[j]]
        /\ conn' = [conn EXCEPT ![k] = "closed"]
        /\ UNCHANGED <<smu, queue, toClose, browser>>
    BY <1>2 DEF Term!CloseSession, Term!Close
  <2> QED
    BY <2>1, TermNames DEF TermInv, Term!TypeOK, Term!NoOrphanShell
<1> QED
    BY <1>1, <1>2

(* The idle loop scans, and closes what it found and is still registered.   *)
LEMMA TermIdles ==
    ASSUME TermInv, Term!IdleScanLocks \/ Term!IdleScan \/ Term!idleTimeoutLoop
    PROVE  TermInv'
<1>1. CASE Term!IdleScanLocks
    BY <1>1, TermNames DEF Term!IdleScanLocks, Term!link, TermInv, Term!TypeOK, Term!NoOrphanShell
<1>2. CASE Term!IdleScan
    BY <1>2, TermNames DEF Term!IdleScan, Term!link, TermInv, Term!TypeOK, Term!NoOrphanShell
<1>3. CASE Term!idleTimeoutLoop
  <2> DEFINE ks == toClose \cap sessions
  <2>1. /\ closed' = closed \cup ks /\ sessions' = sessions \ toClose /\ toClose' = {}
        /\ shell' = [j \in Conns |-> IF j \in ks \ closed THEN "reaped" ELSE shell[j]]
        /\ UNCHANGED <<mu, smu, queue, conn, browser>>
    BY <1>3 DEF Term!idleTimeoutLoop, Term!Close, Term!link
  <2> QED
    BY <2>1 DEF TermInv, Term!TypeOK, Term!NoOrphanShell
<1> QED
    BY <1>1, <1>2, <1>3

(* What serves an open connection leaves the sessions registered.           *)
LEMMA TermServes ==
    ASSUME TermInv, NEW k \in Conns,
           \/ Term!readLoop(k) \/ Term!Write(k) \/ Term!ReadEnds(k) \/ Term!Returns(k)
           \/ Term!Forward(k) \/ Term!Ping(k) \/ Term!HandleInput(k) \/ Term!ShellExits(k)
           \/ Term!TimePasses(k) \/ Term!BrowserGoes(k)
    PROVE  TermInv'
<1>1. CASE Term!readLoop(k)
    BY <1>1, TermNames DEF Term!readLoop, Term!link, TermInv, Term!TypeOK, Term!NoOrphanShell
<1>2. CASE Term!Forward(k)
  <2>1. (queue' = [queue EXCEPT ![k] = @ - 1] /\ queue[k] > 0) \/ UNCHANGED queue
    BY <1>2 DEF Term!Forward
  <2>2. UNCHANGED <<sessions, mu, smu, closed, shell, toClose, conn, browser>>
    BY <1>2 DEF Term!Forward
  <2>3. queue' \in [Conns -> 0..SendChanSize]
    BY <2>1, TermNames DEF TermInv, Term!TypeOK
  <2> QED
    BY <2>2, <2>3 DEF TermInv, Term!TypeOK, Term!NoOrphanShell
<1>3. CASE Term!ReadEnds(k) \/ Term!Returns(k)
  <2>1. /\ conn[k] \in {"open", "closed"}
        /\ conn' = [conn EXCEPT ![k] = "closing"] \/ conn' = [conn EXCEPT ![k] = "gone"]
        /\ UNCHANGED <<sessions, mu, smu, closed, shell, queue, toClose, browser>>
    BY <1>3 DEF Term!ReadEnds, Term!Returns, Term!sess
  <2> QED
    BY <2>1 DEF TermInv, Term!TypeOK, Term!NoOrphanShell
<1>4. CASE Term!Write(k) \/ Term!HandleInput(k) \/ Term!TimePasses(k) \/ Term!Ping(k)
  <2>1. /\ smu' \subseteq Conns
        /\ UNCHANGED <<sessions, mu, closed, shell, queue, toClose, conn, browser>>
    BY <1>4 DEF Term!Write, Term!HandleInput, Term!TimePasses, Term!Ping, Term!link, Term!sess,
       TermInv, Term!TypeOK
  <2> QED
    BY <2>1 DEF TermInv, Term!TypeOK, Term!NoOrphanShell
<1>5. CASE Term!ShellExits(k)
    BY <1>5 DEF Term!ShellExits, Term!link, TermInv, Term!TypeOK, Term!NoOrphanShell
<1>6. CASE Term!BrowserGoes(k)
    BY <1>6 DEF Term!BrowserGoes, Term!sess, TermInv, Term!TypeOK, Term!NoOrphanShell
<1> QED
    BY <1>1, <1>2, <1>3, <1>4, <1>5, <1>6

(* Every step of the terminals keeps the invariant.                         *)
LEMMA TermStep == TermInv /\ Term!Next => TermInv'
BY TermCreates, TermCloses, TermIdles, TermServes DEF Term!Next, Term!Serve

(* The invariant holds on while the part does nothing.                      *)
LEMMA TermStutter == TermInv /\ UNCHANGED termVars => TermInv'
BY DEF termVars, TermInv, Term!TypeOK, Term!NoOrphanShell

-----------------------------------------------------------------------------
(* The parts together. The invariant keeps those of all parts, also of the  *)
(* parts that a behaviour does not move.                                    *)
IInv == part \in Parts /\ LogInv /\ BusInv /\ SupInv /\ TermInv

(* The invariant holds in the initial states.                               *)
LEMMA IInit == Init => IInv
BY LogInit, BusInit, SupInit, TermInit DEF Init, IInv

(* A step of one part keeps its invariant and leaves the other parts alone. *)
LEMMA IStep == IInv /\ [Next]_vars => IInv'
<1> SUFFICES ASSUME IInv, [Next]_vars PROVE IInv'
    OBVIOUS
<1>1. CASE /\ part = "log" /\ Log!Next
           /\ UNCHANGED <<part, busVars, supVars, termVars>>
  <2>1. LogInv'
    BY <1>1, LogStep DEF IInv
  <2>2. BusInv' /\ SupInv' /\ TermInv'
    BY <1>1, BusStutter, SupStutter, TermStutter DEF IInv
  <2> QED
    BY <1>1, <2>1, <2>2 DEF IInv
<1>2. CASE /\ part = "bus" /\ Bus!Next
           /\ UNCHANGED <<part, logVars, supVars, termVars>>
  <2>1. BusInv'
    BY <1>2, BusStep DEF IInv
  <2>2. LogInv' /\ SupInv' /\ TermInv'
    BY <1>2, LogStutter, SupStutter, TermStutter DEF IInv
  <2> QED
    BY <1>2, <2>1, <2>2 DEF IInv
<1>3. CASE /\ part = "sup" /\ Sup!Next
           /\ UNCHANGED <<part, logVars, busVars, termVars>>
  <2>1. SupInv'
    BY <1>3, SupStep DEF IInv
  <2>2. LogInv' /\ BusInv' /\ TermInv'
    BY <1>3, LogStutter, BusStutter, TermStutter DEF IInv
  <2> QED
    BY <1>3, <2>1, <2>2 DEF IInv
<1>4. CASE /\ part = "term" /\ Term!Next
           /\ UNCHANGED <<part, logVars, busVars, supVars>>
  <2>1. TermInv'
    BY <1>4, TermStep DEF IInv
  <2>2. LogInv' /\ BusInv' /\ SupInv'
    BY <1>4, LogStutter, BusStutter, SupStutter DEF IInv
  <2> QED
    BY <1>4, <2>1, <2>2 DEF IInv
<1>5. CASE UNCHANGED vars
  <2>1. UNCHANGED <<part, logVars, busVars, supVars, termVars>>
    BY <1>5 DEF vars
  <2> QED
    BY <2>1, LogStutter, BusStutter, SupStutter, TermStutter DEF IInv
<1> QED
    BY <1>1, <1>2, <1>3, <1>4, <1>5 DEF Next

(* The invariant holds throughout.                                          *)
THEOREM Invariance == Spec => []IInv
BY IInit, IStep, PTL DEF Spec

(* Every variable keeps its type, in every part.                            *)
THEOREM TypeCorrect == Spec => []TypeOK
<1>1. IInv => TypeOK
    BY LogShows, BusShowsTypes, SupShows DEF IInv, TermInv, TypeOK
<1> QED
    BY <1>1, Invariance, PTL

(* TaskLog keeps the newest lines without a gap, and the loop of GetLogs    *)
(* sends every line of a task that stays below the limit, once and in       *)
(* order, before it ends the stream.                                        *)
THEOREM StreamIsComplete == Spec => []StreamComplete
<1>1. IInv => StreamComplete
    BY LogShows DEF IInv, StreamComplete
<1> QED
    BY <1>1, Invariance, PTL

(* The goroutine of a subscription takes events in the order of Publish,    *)
(* and the overflow path of Publish loses old events and as few as it must, *)
(* although the goroutine drains the queue between its channel operations.  *)
THEOREM InOrder == Spec => []TakenInOrder
<1>1. IInv => TakenInOrder
    BY BusShowsOrder, BusShowsLosses DEF IInv, TakenInOrder
<1> QED
    BY <1>1, Invariance, PTL

(* Overlapping startEventDelivery and stopEventDelivery leave no open       *)
(* subscription that Unsubscribe does not find, and the end of a connection *)
(* and the idle loop of the terminals leave no shell without a session.     *)
THEOREM NoLeak == Spec => []NothingLeaked
<1>1. IInv => NothingLeaked
    BY BusShowsNoLeak DEF IInv, TermInv, NothingLeaked
<1> QED
    BY <1>1, Invariance, PTL
=============================================================================
