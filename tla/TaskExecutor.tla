---------------------------- MODULE TaskExecutor ----------------------------
(***************************************************************************)
(* What the executor of internal/infra/task promises to its callers, as    *)
(* Manager.Tasks and Manager.Get show it: for every key at most one task,  *)
(* which runs, ends in one of three ways, is forgotten if it succeeded and *)
(* kept until the next start of the key if it did not.                     *)
(***************************************************************************)
CONSTANT Keys

VARIABLE view  \* what Manager.Tasks shows for each key

Outcomes == {"succeeded", "failed", "canceled"}

TypeOK == view \in [Keys -> Outcomes \cup {"absent", "running"}]

Init == view = [k \in Keys |-> "absent"]

\* A start is accepted for a key without a running task.
Begin(k) ==
  /\ view[k] # "running"
  /\ view' = [view EXCEPT ![k] = "running"]

\* A running task ends.
End(k) ==
  /\ view[k] = "running"
  /\ \E s \in Outcomes : view' = [view EXCEPT ![k] = s]

\* Only a success is forgotten.
Forget(k) ==
  /\ view[k] = "succeeded"
  /\ view' = [view EXCEPT ![k] = "absent"]

Next == \E k \in Keys : Begin(k) \/ End(k) \/ Forget(k)

Spec == Init /\ [][Next]_view
=============================================================================
