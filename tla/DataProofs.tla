----------------------------- MODULE DataProofs -----------------------------
(***************************************************************************)
(* Proofs about Data, for every value of its constants: what the panel     *)
(* shows of database instances and their backups is true; a restore of     *)
(* Redis that failed leaves no dump of the backup; the history of the      *)
(* monitor and that of the logins are the newest records, in order and     *)
(* once; and all variables keep their types. Every part has its inductive  *)
(* invariant, with lemmas for what its operations do, one per action, one  *)
(* for the steps of the other parts and one for what it implies; types     *)
(* that the properties do not need have a section of their own. The last   *)
(* section puts the parts together.                                        *)
(***************************************************************************)
EXTENDS Data, SequenceTheorems, WellFoundedInduction, TLAPS

-----------------------------------------------------------------------------
(* Database instances. Beside the types, a number is given once; an install *)
(* that was cancelled has no row; a row and its install are of one request; *)
(* rows have different container names; and as long as nothing failed, the  *)
(* container made for an instance has the port of its row, which an install *)
(* that has not created it yet keeps, unless a container has the name.      *)
DbPort == Ports \cup {r.port : r \in Reqs}
DbRowSet == [req : Reqs, status : {"installing", "running", "unhealthy", "stopped", "failed"},
             port : DbPort, pwd : Nat]
DbBoxSet == [state : {"created", "running", "exited"}, healthy : BOOLEAN, port : DbPort,
             arg : Nat, live : Nat, key : {r.key : r \in Reqs}, type : {r.type : r \in Reqs},
             of : Nat]
DbTaskSet == [req : Reqs, pwd : Nat, pc : {"prepare", "pull", "create", "start", "wait"},
              cancelled : BOOLEAN]

DbTypes ==
    /\ dbRows \in [DOMAIN dbRows -> DbRowSet] /\ boxes \in [DOMAIN boxes -> DbBoxSet]
    /\ tasks \in [DOMAIN tasks -> DbTaskSet]
    /\ dbLastId \in Nat /\ lastPwd \in Nat /\ dbFaults \in Nat
DbIds ==
    /\ DOMAIN dbRows \subseteq 1..dbLastId /\ DOMAIN tasks \subseteq 1..dbLastId
    /\ DOMAIN pools \subseteq 1..dbLastId
    /\ \A n \in DOMAIN boxes : boxes[n].of \in 1..dbLastId
DbInstalling == \A i \in DOMAIN dbRows : dbRows[i].status = "installing" => i \in DOMAIN tasks \/ dbCrashed
DbFailed == \A i \in DOMAIN dbRows : dbRows[i].status = "failed" => i \in notified
DbCancelled == \A i \in DOMAIN tasks : tasks[i].cancelled => i \notin DOMAIN dbRows
DbOneRequest == \A i \in DOMAIN tasks \cap DOMAIN dbRows : tasks[i].req = dbRows[i].req
DbNames == \A i, j \in DOMAIN dbRows : dbRows[i].req.cname = dbRows[j].req.cname => i = j
DbPools == \A i \in DOMAIN pools \cap DOMAIN dbRows : pools[i] = dbRows[i].port
DbOwn ==
    dbFaults = 0 => \A i \in DOMAIN dbRows :
        LET name == dbRows[i].req.cname
        IN name \in DOMAIN boxes /\ boxes[name].of = i => boxes[name].port = dbRows[i].port
DbEarly ==
    dbFaults = 0 => \A i \in DOMAIN tasks \cap DOMAIN dbRows :
        tasks[i].pc \in {"prepare", "pull", "create"} =>
            dbRows[i].port = dbRows[i].req.port \/ dbRows[i].req.cname \in DOMAIN boxes

DbInv ==
    /\ DbTypes /\ DbIds /\ DbInstalling /\ DbFailed /\ DbCancelled /\ DbOneRequest /\ DbNames
    /\ DbPools /\ DbOwn /\ DbEarly

(* A world is a record of rows, containers, directories and pools; its      *)
(* containers and its rows are of their types.                              *)
DbIsWorld(w) == w = [rows |-> w.rows, boxes |-> w.boxes, dirs |-> w.dirs, pools |-> w.pools]
DbWorldOK(w) == /\ DbIsWorld(w)
                /\ w.rows \in [DOMAIN w.rows -> DbRowSet] /\ w.boxes \in [DOMAIN w.boxes -> DbBoxSet]

(* Containers that are the same but for their state and password.           *)
DbBoxKeep(b, c) == /\ DOMAIN b = DOMAIN c
                   /\ \A n \in DOMAIN c : b[n].of = c[n].of /\ b[n].port = c[n].port

DbStatusSet(u, w, id, s) ==
    /\ DbWorldOK(u) /\ u.boxes = w.boxes /\ u.pools = w.pools
    /\ u.rows = IF id \in DOMAIN w.rows THEN [w.rows EXCEPT ![id].status = s] ELSE w.rows

(* What the operations on the table do to a world.                          *)
LEMMA DbStatusWorld ==
    ASSUME NEW w, DbWorldOK(w), NEW id, NEW s \in {"running", "stopped", "failed"},
           NEW u, u = Instances!UpdateInstanceStatus(w, id, s)
    PROVE  DbStatusSet(u, w, id, s)
<1>1. CASE id \in DOMAIN w.rows
  <2>1. u = [w EXCEPT !.rows[id].status = s]
    BY <1>1 DEF Instances!UpdateInstanceStatus, Instances!Put
  <2>2. w = [rows |-> w.rows, boxes |-> w.boxes, dirs |-> w.dirs, pools |-> w.pools]
    BY DEF DbWorldOK, DbIsWorld
  <2>3. u = [rows |-> [w.rows EXCEPT ![id].status = s], boxes |-> w.boxes, dirs |-> w.dirs, pools |-> w.pools]
    BY <2>1, <2>2
  <2>4. w.rows[id] \in DbRowSet
    BY <1>1 DEF DbWorldOK
  <2>5. [w.rows[id] EXCEPT !.status = s] \in DbRowSet
    BY <2>4 DEF DbRowSet
  <2>6. [w.rows EXCEPT ![id].status = s] \in [DOMAIN w.rows -> DbRowSet]
    BY <2>5 DEF DbWorldOK
  <2> QED
    BY <1>1, <2>3, <2>6 DEF DbWorldOK, DbIsWorld, DbStatusSet
<1>2. CASE id \notin DOMAIN w.rows
    BY <1>2 DEF Instances!UpdateInstanceStatus, Instances!Put, DbStatusSet
<1> QED
    BY <1>1, <1>2

(* The same for every world.                                                *)
LEMMA DbStatusOf ==
    \A w, id : \A s \in {"running", "stopped", "failed"} :
        DbWorldOK(w) => DbStatusSet(Instances!UpdateInstanceStatus(w, id, s), w, id, s)
BY DbStatusWorld

(* A container is started.                                                  *)
LEMMA DbStartWorld ==
    ASSUME NEW w, DbWorldOK(w), NEW n \in DOMAIN w.boxes, NEW u, u = Instances!rtStart(w, n)
    PROVE  DbWorldOK(u) /\ u.rows = w.rows /\ u.pools = w.pools /\ DbBoxKeep(u.boxes, w.boxes)
<1> DEFINE box == w.boxes[n]
           live == IF box.state = "running" THEN box.live ELSE box.arg
           new == [box EXCEPT !.state = "running", !.healthy = FALSE, !.live = live]
<1>1. w = [rows |-> w.rows, boxes |-> w.boxes, dirs |-> w.dirs, pools |-> w.pools]
    BY DEF DbWorldOK, DbIsWorld
<1>2. /\ u.rows = w.rows /\ u.pools = w.pools /\ DbIsWorld(u)
      /\ u.boxes = [w.boxes EXCEPT ![n] = new]
    BY <1>1 DEF Instances!rtStart, DbIsWorld
<1>3. box \in DbBoxSet
    BY DEF DbWorldOK
<1>4. live \in Nat
    BY <1>3 DEF DbBoxSet
<1>5. new \in DbBoxSet /\ new.of = box.of /\ new.port = box.port
    BY <1>3, <1>4 DEF DbBoxSet
<1> HIDE DEF new, live
<1> QED
    BY <1>2, <1>3, <1>5 DEF DbWorldOK, DbBoxKeep

(* A container exits, or is found healthy.                                  *)
LEMMA DbStopWorld ==
    ASSUME NEW w, DbWorldOK(w), NEW n \in DOMAIN w.boxes, NEW u,
           u = Instances!rtStop(w, n) \/ u = Instances!Healthy(w, n)
    PROVE  DbWorldOK(u) /\ u.rows = w.rows /\ u.pools = w.pools /\ DbBoxKeep(u.boxes, w.boxes)
<1> DEFINE box == w.boxes[n]
           off == [box EXCEPT !.state = "exited", !.healthy = FALSE]
           on == [box EXCEPT !.healthy = TRUE]
<1>1. w = [rows |-> w.rows, boxes |-> w.boxes, dirs |-> w.dirs, pools |-> w.pools]
    BY DEF DbWorldOK, DbIsWorld
<1>2. PICK new \in {off, on} : /\ u.rows = w.rows /\ u.pools = w.pools /\ DbIsWorld(u)
                               /\ u.boxes = [w.boxes EXCEPT ![n] = new]
  <2>1. CASE u = Instances!rtStop(w, n)
    <3>1. /\ u.rows = w.rows /\ u.pools = w.pools /\ DbIsWorld(u)
          /\ u.boxes = [w.boxes EXCEPT ![n] = off]
        BY <1>1, <2>1 DEF Instances!rtStop, DbIsWorld
    <3> HIDE DEF off, on
    <3> QED
        BY <3>1
  <2>2. CASE u = Instances!Healthy(w, n)
    <3>1. /\ u.rows = w.rows /\ u.pools = w.pools /\ DbIsWorld(u)
          /\ u.boxes = [w.boxes EXCEPT ![n] = on]
        BY <1>1, <2>2 DEF Instances!Healthy, DbIsWorld
    <3> HIDE DEF off, on
    <3> QED
        BY <3>1
  <2> QED
    BY <2>1, <2>2
<1>3. box \in DbBoxSet
    BY DEF DbWorldOK
<1>4. off \in DbBoxSet /\ off.of = box.of /\ off.port = box.port
    BY <1>3 DEF DbBoxSet
<1>5. on \in DbBoxSet /\ on.of = box.of /\ on.port = box.port
    BY <1>3 DEF DbBoxSet
<1>6. new \in DbBoxSet /\ new.of = box.of /\ new.port = box.port
    BY <1>2, <1>4, <1>5
<1> HIDE DEF off, on
<1> QED
    BY <1>2, <1>3, <1>6 DEF DbWorldOK, DbBoxKeep

(* Containers that are kept by two operations are kept by both.             *)
LEMMA DbKeepTwice ==
    ASSUME NEW b, NEW c, NEW d, DbBoxKeep(b, c), DbBoxKeep(c, d)
    PROVE  DbBoxKeep(b, d)
BY DEF DbBoxKeep

(* A container is restarted.                                                *)
LEMMA DbRestartWorld ==
    ASSUME NEW w, DbWorldOK(w), NEW n \in DOMAIN w.boxes, NEW u, u = Instances!rtRestart(w, n)
    PROVE  DbWorldOK(u) /\ u.rows = w.rows /\ u.pools = w.pools /\ DbBoxKeep(u.boxes, w.boxes)
<1> DEFINE v == Instances!rtStop(w, n)
<1>1. DbWorldOK(v) /\ v.rows = w.rows /\ v.pools = w.pools /\ DbBoxKeep(v.boxes, w.boxes)
    BY DbStopWorld
<1>2. n \in DOMAIN v.boxes
    BY <1>1 DEF DbBoxKeep
<1>3. u = Instances!rtStart(v, n)
    BY DEF Instances!rtRestart
<1> HIDE DEF v
<1>4. DbWorldOK(u) /\ u.rows = v.rows /\ u.pools = v.pools /\ DbBoxKeep(u.boxes, v.boxes)
    BY <1>1, <1>2, <1>3, DbStartWorld
<1> QED
    BY <1>1, <1>4, DbKeepTwice

(* A container is removed.                                                  *)
LEMMA DbRemoveWorld ==
    ASSUME NEW w, DbWorldOK(w), NEW n, NEW u, u = Instances!rtRemove(w, n)
    PROVE  /\ DbWorldOK(u) /\ u.rows = w.rows /\ u.pools = w.pools
           /\ u.boxes = Instances!Without(w.boxes, n)
<1>1. w = [rows |-> w.rows, boxes |-> w.boxes, dirs |-> w.dirs, pools |-> w.pools]
    BY DEF DbWorldOK, DbIsWorld
<1>2. u = [rows |-> w.rows, boxes |-> Instances!Without(w.boxes, n), dirs |-> w.dirs, pools |-> w.pools]
    BY <1>1 DEF Instances!rtRemove
<1>3. Instances!Without(w.boxes, n) \in [DOMAIN Instances!Without(w.boxes, n) -> DbBoxSet]
    BY DEF Instances!Without, DbWorldOK
<1> QED
    BY <1>2, <1>3 DEF DbWorldOK, DbIsWorld

(* A container is created.                                                  *)
LEMMA DbCreateWorld ==
    ASSUME NEW w, DbWorldOK(w), NEW n, NEW box \in DbBoxSet, NEW u, u = Instances!rtCreate(w, n, box)
    PROVE  /\ DbWorldOK(u) /\ u.rows = w.rows /\ u.pools = w.pools
           /\ u.boxes = Instances!With(w.boxes, n, box)
<1>1. w = [rows |-> w.rows, boxes |-> w.boxes, dirs |-> w.dirs, pools |-> w.pools]
    BY DEF DbWorldOK, DbIsWorld
<1>2. u = [rows |-> w.rows, boxes |-> Instances!With(w.boxes, n, box), dirs |-> w.dirs, pools |-> w.pools]
    BY <1>1 DEF Instances!rtCreate
<1>3. Instances!With(w.boxes, n, box) \in [DOMAIN Instances!With(w.boxes, n, box) -> DbBoxSet]
    BY DEF Instances!With, DbWorldOK
<1> QED
    BY <1>2, <1>3 DEF DbWorldOK, DbIsWorld

(* The connections of an instance are closed.                               *)
LEMMA DbCloseWorld ==
    ASSUME NEW w, DbWorldOK(w), NEW id, NEW u, u = Instances!ClosePools(w, id)
    PROVE  /\ DbWorldOK(u) /\ u.rows = w.rows /\ u.boxes = w.boxes
           /\ u.pools = Instances!Without(w.pools, id)
<1>1. w = [rows |-> w.rows, boxes |-> w.boxes, dirs |-> w.dirs, pools |-> w.pools]
    BY DEF DbWorldOK, DbIsWorld
<1>2. u = [rows |-> w.rows, boxes |-> w.boxes, dirs |-> w.dirs, pools |-> Instances!Without(w.pools, id)]
    BY <1>1 DEF Instances!ClosePools
<1> QED
    BY <1>2 DEF DbWorldOK, DbIsWorld

(* A row is deleted.                                                        *)
LEMMA DbDeleteWorld ==
    ASSUME NEW w, DbWorldOK(w), NEW id, NEW u, u = Instances!DeleteInstance(w, id)
    PROVE  /\ DbWorldOK(u) /\ u.boxes = w.boxes /\ u.pools = w.pools
           /\ u.rows = Instances!Without(w.rows, id)
<1>1. w = [rows |-> w.rows, boxes |-> w.boxes, dirs |-> w.dirs, pools |-> w.pools]
    BY DEF DbWorldOK, DbIsWorld
<1>2. u = [rows |-> Instances!Without(w.rows, id), boxes |-> w.boxes, dirs |-> w.dirs, pools |-> w.pools]
    BY <1>1 DEF Instances!DeleteInstance
<1>3. Instances!Without(w.rows, id) \in [DOMAIN Instances!Without(w.rows, id) -> DbRowSet]
    BY DEF Instances!Without, DbWorldOK
<1> QED
    BY <1>2, <1>3 DEF DbWorldOK, DbIsWorld

(* A directory is removed.                                                  *)
LEMMA DbPurgeWorld ==
    ASSUME NEW w, DbWorldOK(w), NEW k, NEW u, u = [w EXCEPT !.dirs = Instances!Without(@, k)]
    PROVE  DbWorldOK(u) /\ u.rows = w.rows /\ u.boxes = w.boxes /\ u.pools = w.pools
<1>1. w = [rows |-> w.rows, boxes |-> w.boxes, dirs |-> w.dirs, pools |-> w.pools]
    BY DEF DbWorldOK, DbIsWorld
<1>2. u = [rows |-> w.rows, boxes |-> w.boxes, dirs |-> Instances!Without(w.dirs, k), pools |-> w.pools]
    BY <1>1
<1> QED
    BY <1>2 DEF DbWorldOK, DbIsWorld

(* The connections of an instance are opened.                               *)
LEMMA DbPoolWorld ==
    ASSUME NEW w, DbWorldOK(w), NEW id, NEW u, u = Instances!poolFor(w, id)
    PROVE  /\ DbWorldOK(u) /\ u.rows = w.rows /\ u.boxes = w.boxes
           /\ u.pools = IF id \in DOMAIN w.pools THEN w.pools
                        ELSE Instances!With(w.pools, id, dbRows[id].port)
<1>1. w = [rows |-> w.rows, boxes |-> w.boxes, dirs |-> w.dirs, pools |-> w.pools]
    BY DEF DbWorldOK, DbIsWorld
<1>2. CASE id \in DOMAIN w.pools
    BY <1>2 DEF Instances!poolFor
<1>3. CASE id \notin DOMAIN w.pools
  <2>1. u = [rows |-> w.rows, boxes |-> w.boxes, dirs |-> w.dirs, pools |-> Instances!With(w.pools, id, dbRows[id].port)]
    BY <1>1, <1>3 DEF Instances!poolFor
  <2> QED
    BY <1>3, <2>1 DEF DbWorldOK, DbIsWorld
<1> QED
    BY <1>2, <1>3

(* A row takes another port.                                                *)
LEMMA DbPortWorld ==
    ASSUME NEW w, DbWorldOK(w), NEW id \in DOMAIN w.rows, NEW p \in DbPort,
           NEW u, u = Instances!UpdateInstancePort(w, id, p)
    PROVE  /\ DbWorldOK(u) /\ u.boxes = w.boxes /\ u.pools = w.pools
           /\ u.rows = [w.rows EXCEPT ![id].port = p]
<1>1. u = [w EXCEPT !.rows[id].port = p]
    BY DEF Instances!UpdateInstancePort, Instances!Put
<1>2. w = [rows |-> w.rows, boxes |-> w.boxes, dirs |-> w.dirs, pools |-> w.pools]
    BY DEF DbWorldOK, DbIsWorld
<1>3. u = [rows |-> [w.rows EXCEPT ![id].port = p], boxes |-> w.boxes, dirs |-> w.dirs, pools |-> w.pools]
    BY <1>1, <1>2
<1>4. w.rows[id] \in DbRowSet
    BY DEF DbWorldOK
<1>5. [w.rows[id] EXCEPT !.port = p] \in DbRowSet
    BY <1>4 DEF DbRowSet
<1>6. [w.rows EXCEPT ![id].port = p] \in [DOMAIN w.rows -> DbRowSet]
    BY <1>5 DEF DbWorldOK
<1> QED
    BY <1>3, <1>6 DEF DbWorldOK, DbIsWorld

(* The world of the state.                                                  *)
LEMMA DbNow ==
    ASSUME DbInv
    PROVE  /\ DbWorldOK(Instances!World) /\ Instances!World.rows = dbRows
           /\ Instances!World.boxes = boxes /\ Instances!World.pools = pools
BY DEF DbInv, DbTypes, DbWorldOK, DbIsWorld, Instances!World

(* A world that becomes that of the next state.                             *)
LEMMA DbBecomes ==
    ASSUME NEW w, DbWorldOK(w), Instances!SetWorld(w)
    PROVE  /\ dbRows' = w.rows /\ boxes' = w.boxes /\ pools' = w.pools
           /\ dbRows' \in [DOMAIN dbRows' -> DbRowSet] /\ boxes' \in [DOMAIN boxes' -> DbBoxSet]
BY DEF DbWorldOK, Instances!SetWorld

(* What a step that fails costs.                                            *)
LEMMA DbCharge ==
    ASSUME DbInv, NEW at, Instances!Charge(at)
    PROVE  /\ dbFaults' \in Nat /\ (dbFaults' = 0 => dbFaults = 0)
           /\ at = "none" => dbFaults' = dbFaults
           /\ at # "none" => dbFaults' # 0
BY DEF DbInv, DbTypes, Instances!Charge

(* A step that keeps the rows but for their status and their password, the  *)
(* containers made so far, and the installs but for those it advances or    *)
(* ends.                                                                    *)
DbRowStep ==
    /\ DOMAIN dbRows' = DOMAIN dbRows
    /\ \A i \in DOMAIN dbRows :
         /\ dbRows'[i].req = dbRows[i].req /\ dbRows'[i].port = dbRows[i].port
         /\ dbRows'[i].status = "installing" =>
              dbRows[i].status = "installing" /\ (i \in DOMAIN tasks => i \in DOMAIN tasks')
         /\ dbRows'[i].status = "failed" => dbRows[i].status = "failed" \/ i \in notified'
DbTaskStep ==
    /\ DOMAIN tasks' \subseteq DOMAIN tasks
    /\ \A i \in DOMAIN tasks' :
         /\ tasks'[i].req = tasks[i].req /\ tasks'[i].cancelled = tasks[i].cancelled
         /\ tasks'[i].pc \in {"prepare", "pull", "create"} => tasks[i].pc \in {"prepare", "pull", "create"}
DbBoxStep ==
    dbFaults' = 0 =>
        /\ DOMAIN boxes \subseteq DOMAIN boxes'
        /\ \A n \in DOMAIN boxes' :
             \/ n \in DOMAIN boxes /\ boxes'[n].of = boxes[n].of /\ boxes'[n].port = boxes[n].port
             \/ boxes'[n].of \in DOMAIN dbRows => boxes'[n].port = dbRows[boxes'[n].of].port

(* Such a step keeps the invariant.                                         *)
LEMMA DbKeeps ==
    ASSUME DbInv, DbTypes', DbRowStep, DbTaskStep, DbBoxStep,
           \A n \in DOMAIN boxes' : boxes'[n].of \in 1..dbLastId,
           DOMAIN pools' \subseteq 1..dbLastId,
           \A i \in DOMAIN pools' \cap DOMAIN dbRows : pools'[i] = dbRows[i].port,
           dbLastId' = dbLastId, notified \subseteq notified', dbCrashed' = dbCrashed,
           dbFaults' = 0 => dbFaults = 0
    PROVE  DbInv'
<1>1. DbIds'
    BY DEF DbInv, DbIds, DbRowStep, DbTaskStep
<1>2. DbInstalling'
    BY DEF DbInv, DbInstalling, DbRowStep
<1>3. DbFailed'
    BY DEF DbInv, DbFailed, DbRowStep
<1>4. DbCancelled'
    BY DEF DbInv, DbCancelled, DbRowStep, DbTaskStep
<1>5. DbOneRequest'
    BY DEF DbInv, DbOneRequest, DbRowStep, DbTaskStep
<1>6. DbNames'
    BY DEF DbInv, DbNames, DbRowStep
<1>7. DbPools'
    BY DEF DbInv, DbPools, DbRowStep
<1>8. DbOwn'
  <2> SUFFICES ASSUME dbFaults' = 0, NEW i \in DOMAIN dbRows, dbRows[i].req.cname \in DOMAIN boxes',
                      boxes'[dbRows[i].req.cname].of = i
               PROVE  boxes'[dbRows[i].req.cname].port = dbRows[i].port
    BY DEF DbOwn, DbRowStep
  <2> DEFINE n == dbRows[i].req.cname
  <2>1. n \in DOMAIN boxes /\ boxes[n].of = i => boxes[n].port = dbRows[i].port
    BY DEF DbInv, DbOwn
  <2> QED
    BY <2>1 DEF DbBoxStep
<1>9. DbEarly'
  <2> SUFFICES ASSUME dbFaults' = 0, NEW i \in DOMAIN tasks' \cap DOMAIN dbRows,
                      tasks'[i].pc \in {"prepare", "pull", "create"}
               PROVE  dbRows[i].port = dbRows[i].req.port \/ dbRows[i].req.cname \in DOMAIN boxes'
    BY DEF DbEarly, DbRowStep
  <2>1. i \in DOMAIN tasks /\ tasks[i].pc \in {"prepare", "pull", "create"}
    BY DEF DbTaskStep
  <2>2. dbRows[i].port = dbRows[i].req.port \/ dbRows[i].req.cname \in DOMAIN boxes
    BY <2>1 DEF DbInv, DbEarly
  <2> QED
    BY <2>2 DEF DbBoxStep
<1> QED
    BY <1>1, <1>2, <1>3, <1>4, <1>5, <1>6, <1>7, <1>8, <1>9 DEF DbInv

(* The same when the installs stay and no row comes to say that one runs or *)
(* has failed.                                                              *)
DbQuietRows(r) ==
    /\ DOMAIN r = DOMAIN dbRows
    /\ \A i \in DOMAIN dbRows :
         /\ r[i].req = dbRows[i].req /\ r[i].port = dbRows[i].port
         /\ r[i].status \in {"installing", "failed"} => r[i].status = dbRows[i].status
DbQuietPools(p) == /\ DOMAIN p \subseteq 1..dbLastId
                   /\ \A i \in DOMAIN p \cap DOMAIN dbRows : p[i] = dbRows[i].port

(* Such a step keeps the invariant.                                         *)
LEMMA DbCalm ==
    ASSUME DbInv, dbRows' \in [DOMAIN dbRows' -> DbRowSet], boxes' \in [DOMAIN boxes' -> DbBoxSet],
           DbQuietRows(dbRows'), DbQuietPools(pools'),
           dbFaults' = 0 => DbBoxKeep(boxes', boxes),
           \A n \in DOMAIN boxes' : boxes'[n].of \in 1..dbLastId,
           UNCHANGED <<tasks, dbLastId, notified, dbCrashed>>,
           lastPwd' \in Nat, dbFaults' \in Nat, dbFaults' = 0 => dbFaults = 0
    PROVE  DbInv'
<1>1. DbTypes'
    BY DEF DbInv, DbTypes
<1>2. DbRowStep
    BY DEF DbQuietRows, DbRowStep
<1>3. DbTaskStep
    BY DEF DbTaskStep
<1>4. DbBoxStep
    BY DEF DbBoxStep, DbBoxKeep
<1>5. DOMAIN pools' \subseteq 1..dbLastId /\ \A i \in DOMAIN pools' \cap DOMAIN dbRows : pools'[i] = dbRows[i].port
    BY DEF DbQuietPools
<1> QED
    BY <1>1, <1>2, <1>3, <1>4, <1>5, DbKeeps

(* What holds of the present rows, pools and containers.                    *)
LEMMA DbSame ==
    ASSUME DbInv
    PROVE  /\ DbQuietRows(dbRows) /\ DbQuietPools(pools) /\ DbBoxKeep(boxes, boxes)
           /\ \A b : DbBoxKeep(b, boxes) => \A n \in DOMAIN b : b[n].of \in 1..dbLastId
           /\ lastPwd \in Nat /\ dbFaults \in Nat
           /\ \A i : DbQuietPools(Instances!Without(pools, i))
           /\ \A i \in DOMAIN dbRows : DbQuietPools(Instances!With(pools, i, dbRows[i].port))
<1>1. DbQuietRows(dbRows) /\ DbQuietPools(pools) /\ DbBoxKeep(boxes, boxes)
    BY DEF DbInv, DbIds, DbPools, DbQuietRows, DbQuietPools, DbBoxKeep
<1>2. \A b : DbBoxKeep(b, boxes) => \A n \in DOMAIN b : b[n].of \in 1..dbLastId
    BY DEF DbInv, DbIds, DbBoxKeep
<1>3. \A i : DbQuietPools(Instances!Without(pools, i))
    BY <1>1 DEF DbQuietPools, Instances!Without
<1>4. \A i \in DOMAIN dbRows : DbQuietPools(Instances!With(pools, i, dbRows[i].port))
    BY <1>1 DEF DbQuietPools, Instances!With, DbInv, DbIds
<1> QED
    BY <1>1, <1>2, <1>3, <1>4 DEF DbInv, DbTypes

(* The status of one row becomes running or stopped.                        *)
LEMMA DbQuietStatus ==
    ASSUME DbInv, NEW id, NEW s \in {"running", "stopped"},
           NEW r, r = IF id \in DOMAIN dbRows THEN [dbRows EXCEPT ![id].status = s] ELSE dbRows
    PROVE  DbQuietRows(r)
<1>1. CASE id \in DOMAIN dbRows
  <2>1. dbRows[id] \in DbRowSet
    BY <1>1 DEF DbInv, DbTypes
  <2> QED
    BY <1>1, <2>1 DEF DbQuietRows, DbRowSet
<1>2. CASE id \notin DOMAIN dbRows
    BY <1>2, DbSame
<1> QED
    BY <1>1, <1>2

(* A server has been started, and the row says so if it was waited for.     *)
LEMMA DbStartedWorld ==
    ASSUME DbInv, NEW w, DbWorldOK(w), w.rows = dbRows, DbBoxKeep(w.boxes, boxes),
           NEW id, dbRows[id].req.cname \in DOMAIN boxes, NEW at,
           NEW u, u = Instances!Started(w, id, at)
    PROVE  DbWorldOK(u) /\ DbQuietRows(u.rows) /\ u.pools = w.pools /\ DbBoxKeep(u.boxes, boxes)
<1>1. CASE at = "wait"
    BY <1>1, DbSame DEF Instances!Started
<1>2. CASE at # "wait"
  <2> DEFINE n == dbRows[id].req.cname
             v == Instances!Healthy(w, n)
  <2>1. u = Instances!UpdateInstanceStatus(v, id, "running")
    BY <1>2 DEF Instances!Started
  <2>2. n \in DOMAIN w.boxes
    BY DEF DbBoxKeep
  <2>3. DbWorldOK(v) /\ v.rows = w.rows /\ v.pools = w.pools /\ DbBoxKeep(v.boxes, w.boxes)
    BY <2>2, DbStopWorld
  <2> HIDE DEF v
  <2> DEFINE x == Instances!UpdateInstanceStatus(v, id, "running")
  <2>4. /\ DbWorldOK(x) /\ x.boxes = v.boxes /\ x.pools = v.pools
        /\ x.rows = IF id \in DOMAIN v.rows THEN [v.rows EXCEPT ![id].status = "running"] ELSE v.rows
    BY <2>3, DbStatusWorld, ZenonT(60) DEF DbStatusSet
  <2> HIDE DEF x
  <2>5. u = x
    BY <2>1 DEF x
  <2>6. DbQuietRows(x.rows)
    BY <2>3, <2>4, DbQuietStatus
  <2> QED
    BY <2>3, <2>4, <2>5, <2>6, DbKeepTwice
<1> QED
    BY <1>1, <1>2

(* A request that leaves rows, pools and containers as the lemma above says. *)
LEMMA DbQuietly ==
    ASSUME DbInv, NEW w, DbWorldOK(w), DbQuietRows(w.rows), DbQuietPools(w.pools),
           DbBoxKeep(w.boxes, boxes), Instances!SetWorld(w),
           UNCHANGED <<tasks, dbLastId, notified, dbCrashed>>, lastPwd' \in Nat,
           NEW at, Instances!Charge(at)
    PROVE  DbInv'
<1>1. /\ dbRows' = w.rows /\ boxes' = w.boxes /\ pools' = w.pools
      /\ dbRows' \in [DOMAIN dbRows' -> DbRowSet] /\ boxes' \in [DOMAIN boxes' -> DbBoxSet]
    BY DbBecomes
<1>2. dbFaults' \in Nat /\ (dbFaults' = 0 => dbFaults = 0)
    BY DbCharge
<1>3. \A n \in DOMAIN boxes' : boxes'[n].of \in 1..dbLastId
    BY <1>1, DbSame
<1> QED
    BY <1>1, <1>2, <1>3, DbCalm

(* StartInstance and RestartInstance.                                       *)
LEMMA DbStarts ==
    ASSUME DbInv, NEW id, NEW at, Instances!StartInstance(id, at) \/ Instances!RestartInstance(id, at)
    PROVE  DbInv'
<1> DEFINE n == dbRows[id].req.cname
           v == Instances!rtStart(Instances!World, n)
           x == Instances!rtRestart(Instances!World, n)
<1>1. /\ n \in DOMAIN boxes /\ Instances!Charge(at)
      /\ \/ Instances!SetWorld(Instances!Started(v, id, at))
         \/ Instances!SetWorld(Instances!Started(x, id, at))
      /\ UNCHANGED <<tasks, dbLastId, lastPwd, notified, dbCrashed>>
    BY DEF Instances!StartInstance, Instances!RestartInstance, Instances!Quiet
<1>2. DbWorldOK(v) /\ v.rows = dbRows /\ v.pools = pools /\ DbBoxKeep(v.boxes, boxes)
    BY <1>1, DbNow, DbStartWorld
<1>3. DbWorldOK(x) /\ x.rows = dbRows /\ x.pools = pools /\ DbBoxKeep(x.boxes, boxes)
    BY <1>1, DbNow, DbRestartWorld
<1> HIDE DEF v, x
<1>4. PICK w : w \in {v, x} /\ Instances!SetWorld(Instances!Started(w, id, at))
    BY <1>1
<1> DEFINE u == Instances!Started(w, id, at)
<1>5. DbWorldOK(u) /\ DbQuietRows(u.rows) /\ u.pools = pools /\ DbBoxKeep(u.boxes, boxes)
    BY <1>1, <1>2, <1>3, <1>4, DbStartedWorld
<1>6. Instances!SetWorld(u) /\ lastPwd' \in Nat /\ DbQuietPools(u.pools)
    BY <1>1, <1>4, <1>5, DbSame
<1> HIDE DEF u
<1> QED
    BY <1>1, <1>5, <1>6, DbQuietly

(* StopInstance.                                                            *)
LEMMA DbStops ==
    ASSUME DbInv, NEW id, Instances!StopInstance(id)
    PROVE  DbInv'
<1> DEFINE n == dbRows[id].req.cname
           v == Instances!rtStop(Instances!World, n)
           u == Instances!UpdateInstanceStatus(v, id, "stopped")
<1>1. /\ n \in DOMAIN boxes /\ Instances!Charge("none") /\ Instances!SetWorld(u)
      /\ UNCHANGED <<tasks, dbLastId, lastPwd, notified, dbCrashed>>
    BY DEF Instances!StopInstance, Instances!Quiet
<1>2. DbWorldOK(v) /\ v.rows = dbRows /\ v.pools = pools /\ DbBoxKeep(v.boxes, boxes)
    BY <1>1, DbNow, DbStopWorld
<1> HIDE DEF v
<1>3. /\ DbWorldOK(u) /\ u.boxes = v.boxes /\ u.pools = v.pools
      /\ u.rows = IF id \in DOMAIN v.rows THEN [v.rows EXCEPT ![id].status = "stopped"] ELSE v.rows
    BY <1>2, DbStatusWorld, ZenonT(60) DEF DbStatusSet
<1>4. DbQuietRows(u.rows)
    BY <1>2, <1>3, DbQuietStatus
<1> HIDE DEF u
<1>5. DbQuietPools(u.pools) /\ lastPwd' \in Nat /\ DbBoxKeep(u.boxes, boxes)
    BY <1>1, <1>2, <1>3, DbSame
<1> QED
    BY <1>1, <1>3, <1>4, <1>5, DbQuietly

(* The list is asked for: the rows take the state of their containers.      *)
LEMMA DbRefreshes ==
    ASSUME DbInv, Instances!RefreshStatus
    PROVE  DbInv'
<1>1. /\ dbRows' = [i \in DOMAIN dbRows |-> Instances!refreshInstanceStatus(dbRows[i])]
      /\ UNCHANGED <<boxes, dirs, pools, dbFaults, tasks, dbLastId, lastPwd, notified, dbCrashed>>
    BY DEF Instances!RefreshStatus, Instances!Quiet
<1>2. \A i \in DOMAIN dbRows :
        LET row == Instances!refreshInstanceStatus(dbRows[i])
        IN /\ row \in DbRowSet /\ row.req = dbRows[i].req /\ row.port = dbRows[i].port
           /\ row.status \in {"installing", "failed"} => row.status = dbRows[i].status
  <2> TAKE i \in DOMAIN dbRows
  <2> DEFINE s == Instances!containerStatus(dbRows[i].req.cname)
  <2>1. dbRows[i] \in DbRowSet
    BY DEF DbInv, DbTypes
  <2>2. s \in {"running", "unhealthy", "stopped"}
    BY DEF Instances!containerStatus
  <2>3. Instances!refreshInstanceStatus(dbRows[i]) \in {dbRows[i], [dbRows[i] EXCEPT !.status = s]}
    BY DEF Instances!refreshInstanceStatus
  <2> HIDE DEF s
  <2> QED
    BY <2>1, <2>2, <2>3 DEF DbRowSet
<1>3. DbQuietRows(dbRows') /\ dbRows' \in [DOMAIN dbRows' -> DbRowSet]
    BY <1>1, <1>2 DEF DbQuietRows
<1>4. DbQuietPools(pools') /\ DbBoxKeep(boxes', boxes) /\ boxes' \in [DOMAIN boxes' -> DbBoxSet]
    BY <1>1, DbSame DEF DbInv, DbTypes
<1>5. \A n \in DOMAIN boxes' : boxes'[n].of \in 1..dbLastId
    BY <1>4, DbSame
<1>6. lastPwd' \in Nat /\ dbFaults' \in Nat /\ dbFaults' = dbFaults
    BY <1>1, DbSame
<1> QED
    BY <1>1, <1>3, <1>4, <1>5, <1>6, DbCalm

(* A query opens the connections of an instance.                            *)
LEMMA DbQueries ==
    ASSUME DbInv, NEW id, Instances!Query(id)
    PROVE  DbInv'
<1> DEFINE u == Instances!poolFor(Instances!World, id)
<1>1. /\ id \in DOMAIN dbRows /\ Instances!Charge("none") /\ Instances!SetWorld(u)
      /\ UNCHANGED <<tasks, dbLastId, lastPwd, notified, dbCrashed>>
    BY DEF Instances!Query, Instances!Quiet
<1>2. /\ DbWorldOK(u) /\ u.rows = dbRows /\ u.boxes = boxes
      /\ u.pools = IF id \in DOMAIN pools THEN pools ELSE Instances!With(pools, id, dbRows[id].port)
    BY DbNow, DbPoolWorld
<1> HIDE DEF u
<1>3. DbQuietPools(u.pools) /\ DbQuietRows(u.rows) /\ DbBoxKeep(u.boxes, boxes) /\ lastPwd' \in Nat
    BY <1>1, <1>2, DbSame
<1> QED
    BY <1>1, <1>2, <1>3, DbQuietly

(* A password: of the server in its container or directory, and of the row. *)
LEMMA DbResets ==
    ASSUME DbInv, NEW id, NEW at, Instances!ResetAdminPassword(id, at)
    PROVE  DbInv'
<1> DEFINE n == dbRows[id].req.cname
           new == lastPwd + 1
           b == [boxes EXCEPT ![n].live = new]
           r == [dbRows EXCEPT ![id].pwd = new]
<1>1. /\ id \in DOMAIN dbRows /\ n \in DOMAIN boxes /\ Instances!Charge(at) /\ lastPwd' = new
      /\ UNCHANGED <<tasks, dbLastId, notified, dbCrashed>>
    BY DEF Instances!ResetAdminPassword, Instances!Up
<1>2. boxes[n] \in DbBoxSet /\ dbRows[id] \in DbRowSet /\ new \in Nat
    BY <1>1 DEF DbInv, DbTypes
<1>3. boxes' \in {boxes, b} /\ dbRows' \in {dbRows, r} /\ pools' = pools
    BY <1>1, DbNow DEF Instances!ResetAdminPassword, Instances!SetWorld, Instances!World,
       Instances!UpdateInstancePassword, Instances!Put
<1>4. [boxes[n] EXCEPT !.live = new] \in DbBoxSet /\ [dbRows[id] EXCEPT !.pwd = new] \in DbRowSet
    BY <1>2 DEF DbBoxSet, DbRowSet
<1>5. b \in [DOMAIN b -> DbBoxSet] /\ DbBoxKeep(b, boxes)
    BY <1>1, <1>2, <1>4 DEF DbBoxKeep, DbInv, DbTypes, DbBoxSet
<1>6. r \in [DOMAIN r -> DbRowSet] /\ DbQuietRows(r)
    BY <1>1, <1>2, <1>4 DEF DbQuietRows, DbInv, DbTypes, DbRowSet
<1> HIDE DEF b, r
<1>7. /\ DbBoxKeep(boxes', boxes) /\ boxes' \in [DOMAIN boxes' -> DbBoxSet]
      /\ DbQuietRows(dbRows') /\ dbRows' \in [DOMAIN dbRows' -> DbRowSet] /\ DbQuietPools(pools')
    BY <1>3, <1>5, <1>6, DbSame DEF DbInv, DbTypes
<1>8. dbFaults' \in Nat /\ (dbFaults' = 0 => dbFaults = 0)
    BY <1>1, DbCharge
<1>9. \A m \in DOMAIN boxes' : boxes'[m].of \in 1..dbLastId
    BY <1>7, DbSame
<1> HIDE DEF new
<1> QED
    BY <1>1, <1>2, <1>7, <1>8, <1>9, DbCalm

(* A server comes up, or exits.                                             *)
LEMMA DbServers ==
    ASSUME DbInv, NEW n, Instances!BoxHealthy(n) \/ Instances!BoxExits(n)
    PROVE  DbInv'
<1>1. CASE Instances!BoxExits(n)
  <2> DEFINE u == Instances!rtStop(Instances!World, n)
  <2>1. /\ n \in DOMAIN boxes /\ Instances!Charge("exit") /\ Instances!SetWorld(u)
        /\ UNCHANGED <<tasks, dbLastId, lastPwd, notified, dbCrashed>>
    BY <1>1 DEF Instances!BoxExits, Instances!Up, Instances!Quiet
  <2>2. DbWorldOK(u) /\ u.rows = dbRows /\ u.pools = pools /\ DbBoxKeep(u.boxes, boxes)
    BY <2>1, DbNow, DbStopWorld
  <2> HIDE DEF u
  <2>3. DbQuietPools(u.pools) /\ DbQuietRows(u.rows) /\ lastPwd' \in Nat
    BY <2>1, <2>2, DbSame
  <2> QED
    BY <2>1, <2>2, <2>3, DbQuietly
<1>2. CASE Instances!BoxHealthy(n)
  <2>1. /\ n \in DOMAIN boxes /\ boxes' = [boxes EXCEPT ![n].healthy = TRUE]
        /\ UNCHANGED <<dbRows, dirs, pools, dbFaults, tasks, dbLastId, lastPwd, notified, dbCrashed>>
    BY <1>2 DEF Instances!BoxHealthy, Instances!Quiet
  <2>2. boxes[n] \in DbBoxSet
    BY <2>1 DEF DbInv, DbTypes
  <2>3. [boxes[n] EXCEPT !.healthy = TRUE] \in DbBoxSet
    BY <2>2 DEF DbBoxSet
  <2>4. boxes' \in [DOMAIN boxes' -> DbBoxSet] /\ DbBoxKeep(boxes', boxes)
    BY <2>1, <2>2, <2>3 DEF DbBoxKeep, DbInv, DbTypes, DbBoxSet
  <2>5. /\ DbQuietRows(dbRows') /\ DbQuietPools(pools') /\ lastPwd' \in Nat /\ dbFaults' \in Nat
        /\ dbRows' \in [DOMAIN dbRows' -> DbRowSet] /\ dbFaults' = dbFaults
    BY <2>1, DbSame DEF DbInv, DbTypes
  <2>6. \A m \in DOMAIN boxes' : boxes'[m].of \in 1..dbLastId
    BY <2>4, DbSame
  <2> QED
    BY <2>1, <2>4, <2>5, <2>6, DbCalm
<1> QED
    BY <1>1, <1>2

(* A row goes, and with it the container of its name unless that fails; an  *)
(* install of it that is under way is cancelled.                            *)
LEMMA DbRowGoes ==
    ASSUME DbInv, NEW id \in DOMAIN dbRows, NEW n, n = dbRows[id].req.cname,
           dbRows' = Instances!Without(dbRows, id),
           boxes' \in {boxes, Instances!Without(boxes, n)},
           pools' \in {pools, Instances!Without(pools, id)},
           \/ tasks' = tasks
           \/ id \in DOMAIN tasks /\ tasks' = [tasks EXCEPT ![id].cancelled = TRUE],
           UNCHANGED <<dbLastId, lastPwd, notified, dbCrashed>>,
           dbFaults' \in Nat, dbFaults' = 0 => dbFaults = 0
    PROVE  DbInv'
<1>1. /\ DOMAIN dbRows' = DOMAIN dbRows \ {id}
      /\ \A i \in DOMAIN dbRows' : dbRows'[i] = dbRows[i]
    BY DEF Instances!Without
<1>2. /\ DOMAIN boxes' \subseteq DOMAIN boxes /\ DOMAIN boxes \ {n} \subseteq DOMAIN boxes'
      /\ \A m \in DOMAIN boxes' : boxes'[m] = boxes[m]
    BY DEF Instances!Without
<1>3. /\ DOMAIN pools' \subseteq DOMAIN pools
      /\ \A i \in DOMAIN pools' : pools'[i] = pools[i]
    BY DEF Instances!Without
<1>4. tasks \in [DOMAIN tasks -> DbTaskSet]
    BY DEF DbInv, DbTypes
<1>5. /\ tasks' \in [DOMAIN tasks -> DbTaskSet] /\ DOMAIN tasks' = DOMAIN tasks
      /\ \A i \in DOMAIN tasks :
           /\ tasks'[i].req = tasks[i].req /\ tasks'[i].pc = tasks[i].pc
           /\ i # id => tasks'[i].cancelled = tasks[i].cancelled
  <2>1. CASE tasks' = tasks
    BY <1>4, <2>1
  <2>2. CASE id \in DOMAIN tasks /\ tasks' = [tasks EXCEPT ![id].cancelled = TRUE]
    <3>1. tasks[id] \in DbTaskSet
        BY <1>4, <2>2
    <3>2. [tasks[id] EXCEPT !.cancelled = TRUE] \in DbTaskSet
        BY <3>1 DEF DbTaskSet
    <3> QED
        BY <1>4, <2>2, <3>1, <3>2 DEF DbTaskSet
  <2> QED
    BY <2>1, <2>2
<1>6. DbTypes'
  <2>1. dbRows' \in [DOMAIN dbRows' -> DbRowSet]
    BY DEF DbInv, DbTypes, Instances!Without
  <2>2. boxes' \in [DOMAIN boxes' -> DbBoxSet]
    BY DEF DbInv, DbTypes, Instances!Without
  <2> QED
    BY <1>5, <2>1, <2>2 DEF DbInv, DbTypes
<1>7. DbIds'
    BY <1>1, <1>2, <1>3, <1>5 DEF DbInv, DbIds
<1>8. DbInstalling' /\ DbFailed'
    BY <1>1, <1>5 DEF DbInv, DbInstalling, DbFailed
<1>9. DbCancelled' /\ DbOneRequest' /\ DbNames'
    BY <1>1, <1>5 DEF DbInv, DbCancelled, DbOneRequest, DbNames
<1>10. DbPools'
    BY <1>1, <1>3 DEF DbInv, DbPools
<1>11. DbOwn'
    BY <1>1, <1>2 DEF DbInv, DbOwn
<1>12. DbEarly'
  <2> SUFFICES ASSUME dbFaults' = 0, NEW i \in DOMAIN tasks' \cap DOMAIN dbRows',
                      tasks'[i].pc \in {"prepare", "pull", "create"}
               PROVE  dbRows[i].port = dbRows[i].req.port \/ dbRows[i].req.cname \in DOMAIN boxes'
    BY <1>1 DEF DbEarly
  <2>1. i \in DOMAIN tasks \cap DOMAIN dbRows /\ i # id
        /\ tasks[i].pc \in {"prepare", "pull", "create"}
    BY <1>1, <1>5
  <2>2. dbRows[i].port = dbRows[i].req.port \/ dbRows[i].req.cname \in DOMAIN boxes
    BY <2>1 DEF DbInv, DbEarly
  <2>3. dbRows[i].req.cname # n
    BY <2>1 DEF DbInv, DbNames
  <2> QED
    BY <1>2, <2>2, <2>3
<1> QED
    BY <1>6, <1>7, <1>8, <1>9, <1>10, <1>11, <1>12 DEF DbInv

(* CancelInstall.                                                           *)
LEMMA DbCancels ==
    ASSUME DbInv, NEW id, NEW at, Instances!CancelInstall(id, at)
    PROVE  DbInv'
<1> DEFINE n == dbRows[id].req.cname
           v == Instances!DeleteInstance(Instances!World, id)
           u == Instances!rtRemove(v, n)
<1>1. /\ id \in DOMAIN dbRows /\ Instances!Charge(at)
      /\ Instances!SetWorld(v) \/ Instances!SetWorld(u)
      /\ \/ tasks' = tasks
         \/ id \in DOMAIN tasks /\ tasks' = [tasks EXCEPT ![id].cancelled = TRUE]
      /\ UNCHANGED <<dbLastId, lastPwd, notified, dbCrashed>>
    BY DEF Instances!CancelInstall
<1>2. /\ DbWorldOK(v) /\ v.boxes = boxes /\ v.pools = pools
      /\ v.rows = Instances!Without(dbRows, id)
    BY DbNow, DbDeleteWorld
<1>3. /\ DbWorldOK(u) /\ u.rows = v.rows /\ u.pools = v.pools
      /\ u.boxes = Instances!Without(v.boxes, n)
    BY <1>2, DbRemoveWorld
<1> HIDE DEF v, u
<1>4. /\ dbRows' = Instances!Without(dbRows, id) /\ pools' = pools
      /\ boxes' \in {boxes, Instances!Without(boxes, n)}
    BY <1>1, <1>2, <1>3, DbBecomes
<1>5. dbFaults' \in Nat /\ (dbFaults' = 0 => dbFaults = 0)
    BY <1>1, DbCharge
<1> QED
    BY <1>1, <1>4, <1>5, DbRowGoes

(* The container is removed, the directory purged, the row deleted, up to   *)
(* the step that fails.                                                     *)
LEMMA DbUninstalls ==
    ASSUME DbInv, NEW id, NEW purge, NEW at, Instances!UninstallInstance(id, purge, at)
    PROVE  DbInv'
<1> DEFINE n == dbRows[id].req.cname
           v == Instances!rtRemove(Instances!World, n)
           x == Instances!ClosePools(v, id)
           y == IF purge THEN [x EXCEPT !.dirs = Instances!Without(@, dbRows[id].req.key)] ELSE x
           z == Instances!DeleteInstance(y, id)
<1>1. /\ id \in DOMAIN dbRows /\ Instances!Charge(at) /\ at \in {"none", "remove", "purge", "row"}
      /\ UNCHANGED <<tasks, dbLastId, lastPwd, notified, dbCrashed>>
    BY DEF Instances!UninstallInstance, Instances!Quiet
<1>2. Instances!SetWorld(CASE at = "remove" -> Instances!World [] at = "purge" -> x [] at = "row" -> y
                           [] OTHER -> z)
    BY DEF Instances!UninstallInstance
<1>3. DbWorldOK(v) /\ v.rows = dbRows /\ v.pools = pools /\ v.boxes = Instances!Without(boxes, n)
    BY DbNow, DbRemoveWorld
<1> HIDE DEF v
<1>4. /\ DbWorldOK(x) /\ x.rows = dbRows /\ x.boxes = Instances!Without(boxes, n)
      /\ x.pools = Instances!Without(pools, id)
    BY <1>3, DbCloseWorld
<1> HIDE DEF x
<1>5. DbWorldOK(y) /\ y.rows = x.rows /\ y.boxes = x.boxes /\ y.pools = x.pools
    BY <1>4, DbPurgeWorld
<1> HIDE DEF y
<1>6. DbWorldOK(z) /\ z.boxes = y.boxes /\ z.pools = y.pools /\ z.rows = Instances!Without(y.rows, id)
    BY <1>5, DbDeleteWorld
<1> HIDE DEF z
<1>7. dbFaults' \in Nat /\ (dbFaults' = 0 => dbFaults = 0) /\ (at # "none" => dbFaults' # 0)
    BY <1>1, DbCharge
<1>8. CASE at = "none"
  <2>1. Instances!SetWorld(z)
    BY <1>2, <1>8
  <2>2. /\ dbRows' = Instances!Without(dbRows, id) /\ pools' = Instances!Without(pools, id)
        /\ boxes' = Instances!Without(boxes, n)
    BY <1>4, <1>5, <1>6, <2>1, DbBecomes
  <2> QED
    BY <1>1, <1>7, <2>2, DbRowGoes
<1>9. CASE at # "none"
  <2>1. PICK w : w \in {Instances!World, x, y} /\ Instances!SetWorld(w)
    BY <1>1, <1>2, <1>9
  <2>2. /\ DbWorldOK(w) /\ w.rows = dbRows /\ w.pools \in {pools, Instances!Without(pools, id)}
        /\ w.boxes \in {boxes, Instances!Without(boxes, n)}
    BY <1>4, <1>5, <2>1, DbNow
  <2>3. /\ dbRows' = dbRows /\ pools' \in {pools, Instances!Without(pools, id)}
        /\ boxes' \in {boxes, Instances!Without(boxes, n)}
        /\ dbRows' \in [DOMAIN dbRows' -> DbRowSet] /\ boxes' \in [DOMAIN boxes' -> DbBoxSet]
    BY <2>1, <2>2, DbBecomes
  <2>4. DbQuietRows(dbRows') /\ DbQuietPools(pools') /\ lastPwd' \in Nat
    BY <1>1, <2>3, DbSame
  <2>5. \A m \in DOMAIN boxes' : boxes'[m].of \in 1..dbLastId
    BY <2>3 DEF DbInv, DbIds, Instances!Without
  <2> QED
    BY <1>1, <1>7, <1>9, <2>3, <2>4, <2>5, DbCalm
<1> QED
    BY <1>8, <1>9

(* The container was replaced by one on a new port, which the row takes, and *)
(* the cached connections are closed.                                       *)
DbMoves(id, n, p) ==
    /\ id \in DOMAIN dbRows /\ n = dbRows[id].req.cname /\ p \in DbPort
    /\ dbRows' = [dbRows EXCEPT ![id].port = p] /\ dbRows' \in [DOMAIN dbRows' -> DbRowSet]
    /\ boxes' \in [DOMAIN boxes' -> DbBoxSet] /\ DOMAIN boxes' = DOMAIN boxes \cup {n}
    /\ boxes'[n].of = id /\ boxes'[n].port = p
    /\ \A m \in DOMAIN boxes \ {n} : boxes'[m].of = boxes[m].of /\ boxes'[m].port = boxes[m].port
    /\ DOMAIN pools' \subseteq DOMAIN pools \ {id} /\ \A i \in DOMAIN pools' : pools'[i] = pools[i]
    /\ UNCHANGED <<tasks, dbLastId, lastPwd, notified, dbCrashed>>
    /\ dbFaults' \in Nat /\ (dbFaults' = 0 => dbFaults = 0)

(* Such a step keeps the invariant.                                         *)
LEMMA DbPortMoves ==
    ASSUME DbInv, NEW id, NEW n, NEW p, DbMoves(id, n, p)
    PROVE  DbInv'
<1> USE DEF DbMoves
<1>1. dbRows \in [DOMAIN dbRows -> DbRowSet]
    BY DEF DbInv, DbTypes
<1>2. /\ DOMAIN dbRows' = DOMAIN dbRows
      /\ \A i \in DOMAIN dbRows : /\ dbRows'[i].req = dbRows[i].req /\ dbRows'[i].status = dbRows[i].status
                                  /\ dbRows'[i].port = IF i = id THEN p ELSE dbRows[i].port
    BY <1>1 DEF DbRowSet
<1>3. DbTypes'
    BY DEF DbInv, DbTypes
<1>4. DbIds'
    BY <1>2 DEF DbInv, DbIds
<1>5. DbInstalling' /\ DbFailed'
    BY <1>2 DEF DbInv, DbInstalling, DbFailed
<1>6. DbCancelled' /\ DbOneRequest' /\ DbNames'
    BY <1>2 DEF DbInv, DbCancelled, DbOneRequest, DbNames
<1>7. DbPools'
    BY <1>2 DEF DbInv, DbPools
<1>8. DbOwn'
  <2> SUFFICES ASSUME dbFaults' = 0, NEW i \in DOMAIN dbRows, dbRows[i].req.cname \in DOMAIN boxes',
                      boxes'[dbRows[i].req.cname].of = i
               PROVE  boxes'[dbRows[i].req.cname].port = dbRows'[i].port
    BY <1>2 DEF DbOwn
  <2>1. CASE i = id
    BY <1>2, <2>1
  <2>2. CASE i # id
    <3>1. dbRows[i].req.cname # n
        BY <2>2 DEF DbInv, DbNames
    <3> QED
        BY <1>2, <2>2, <3>1 DEF DbInv, DbOwn
  <2> QED
    BY <2>1, <2>2
<1>9. DbEarly'
    BY <1>2 DEF DbInv, DbEarly
<1> QED
    BY <1>3, <1>4, <1>5, <1>6, <1>7, <1>8, <1>9 DEF DbInv

(* The new container.                                                       *)
LEMMA DbSpec ==
    ASSUME NEW id \in Nat, NEW req \in Reqs, NEW p \in DbPort, NEW pwd \in Nat,
           NEW box, box = Instances!containerSpec(id, req, p, pwd)
    PROVE  box \in DbBoxSet /\ box.of = id /\ box.port = p
BY DEF Instances!containerSpec, DbBoxSet

(* recreateInstanceContainer, up to the step that fails.                    *)
LEMMA DbRecreates ==
    ASSUME DbInv, NEW id \in DOMAIN dbRows, NEW p \in Ports, NEW at, Instances!Charge(at),
           at \in {"none", "remove", "create", "wait"}, NEW a, DbWorldOK(a), a.rows = dbRows, a.boxes = boxes,
           DbQuietPools(a.pools), \A i \in DOMAIN a.pools \ {id} : i \in DOMAIN pools /\ a.pools[i] = pools[i],
           Instances!SetWorld(Instances!recreateInstanceContainer(a, id, p, at)),
           UNCHANGED <<tasks, dbLastId, lastPwd, notified, dbCrashed>>
    PROVE  DbInv'
<1> DEFINE v == dbRows[id]
           n == v.req.cname
           removed == Instances!rtRemove(a, n)
           box == Instances!containerSpec(id, v.req, p, v.pwd)
           created == Instances!rtCreate(removed, n, box)
           made == Instances!rtStart(created, n)
           healthy == Instances!Healthy(made, n)
           closed2 == Instances!ClosePools(healthy, id)
           z == Instances!UpdateInstancePort(closed2, id, p)
<1>1. Instances!SetWorld(CASE at = "remove" -> a [] at = "create" -> removed [] at = "wait" -> made
                           [] OTHER -> z)
    BY DEF Instances!recreateInstanceContainer
<1>2. v \in DbRowSet /\ id \in Nat /\ p \in DbPort /\ id \in 1..dbLastId
    BY DEF DbInv, DbTypes, DbIds, DbPort
<1>3. v.req \in Reqs /\ v.pwd \in Nat
    BY <1>2 DEF DbRowSet
<1>4. box \in DbBoxSet /\ box.of = id /\ box.port = p
    BY <1>2, <1>3, DbSpec
<1> HIDE DEF box
<1>5. DbWorldOK(removed) /\ removed.rows = dbRows /\ removed.pools = a.pools /\ removed.boxes = Instances!Without(boxes, n)
    BY DbRemoveWorld
<1> HIDE DEF removed
<1>6. /\ DbWorldOK(created) /\ created.rows = dbRows /\ created.pools = a.pools
      /\ created.boxes = Instances!With(Instances!Without(boxes, n), n, box)
    BY <1>4, <1>5, DbCreateWorld
<1> HIDE DEF created
<1>7. /\ DOMAIN created.boxes = DOMAIN boxes \cup {n} /\ created.boxes[n] = box
      /\ \A m \in DOMAIN boxes \ {n} : created.boxes[m] = boxes[m]
    BY <1>6 DEF Instances!With, Instances!Without
<1>8. DbWorldOK(made) /\ made.rows = dbRows /\ made.pools = a.pools /\ DbBoxKeep(made.boxes, created.boxes)
    BY <1>6, <1>7, DbStartWorld
<1> HIDE DEF made
<1>9. n \in DOMAIN made.boxes
    BY <1>7, <1>8 DEF DbBoxKeep
<1>10. DbWorldOK(healthy) /\ healthy.rows = dbRows /\ healthy.pools = a.pools /\ DbBoxKeep(healthy.boxes, made.boxes)
    BY <1>8, <1>9, DbStopWorld
<1> HIDE DEF healthy
<1>11. /\ DbWorldOK(closed2) /\ closed2.rows = dbRows /\ closed2.boxes = healthy.boxes
       /\ closed2.pools = Instances!Without(a.pools, id)
    BY <1>10, DbCloseWorld
<1> HIDE DEF closed2
<1>12. /\ DbWorldOK(z) /\ z.boxes = healthy.boxes /\ z.pools = Instances!Without(a.pools, id)
       /\ z.rows = [dbRows EXCEPT ![id].port = p]
    BY <1>2, <1>11, DbPortWorld
<1> HIDE DEF z
<1>13. dbFaults' \in Nat /\ (dbFaults' = 0 => dbFaults = 0) /\ (at # "none" => dbFaults' # 0)
    BY DbCharge
<1>14. CASE at = "none"
  <2>1. Instances!SetWorld(z)
    BY <1>1, <1>14
  <2>2. /\ dbRows' = z.rows /\ boxes' = z.boxes /\ pools' = z.pools
        /\ dbRows' \in [DOMAIN dbRows' -> DbRowSet] /\ boxes' \in [DOMAIN boxes' -> DbBoxSet]
    BY <1>12, <2>1, DbBecomes
  <2>3. DbBoxKeep(boxes', created.boxes)
    BY <1>8, <1>10, <1>12, <2>2, DbKeepTwice
  <2>4. /\ DOMAIN boxes' = DOMAIN boxes \cup {n} /\ boxes'[n].of = id /\ boxes'[n].port = p
        /\ \A m \in DOMAIN boxes \ {n} : boxes'[m].of = boxes[m].of /\ boxes'[m].port = boxes[m].port
    BY <1>4, <1>7, <2>3 DEF DbBoxKeep
  <2>5. DOMAIN pools' \subseteq DOMAIN pools \ {id} /\ \A i \in DOMAIN pools' : pools'[i] = pools[i]
    BY <1>12, <2>2 DEF Instances!Without
  <2> QED
    <3>1. /\ DbInv /\ id \in DOMAIN dbRows /\ p \in DbPort /\ n = dbRows[id].req.cname
          /\ dbRows' = [dbRows EXCEPT ![id].port = p]
          /\ UNCHANGED <<tasks, dbLastId, lastPwd, notified, dbCrashed>>
        BY <1>2, <1>12, <2>2
    <3>2. DbMoves(id, n, p)
        BY ONLY <1>13, <2>2, <2>4, <2>5, <3>1 DEF DbMoves
    <3> QED
        BY <3>2, DbPortMoves
<1>15. CASE at # "none"
  <2>1. PICK w : w \in {a, removed, made} /\ Instances!SetWorld(w)
    BY <1>1, <1>15
  <2>2. DbWorldOK(w) /\ w.rows = dbRows /\ w.pools = a.pools
    BY <1>5, <1>8, <2>1
  <2>3. /\ dbRows' = dbRows /\ pools' = a.pools /\ boxes' = w.boxes
        /\ dbRows' \in [DOMAIN dbRows' -> DbRowSet] /\ boxes' \in [DOMAIN boxes' -> DbBoxSet]
    BY <2>1, <2>2, DbBecomes
  <2>4. DbQuietRows(dbRows') /\ DbQuietPools(pools') /\ lastPwd' \in Nat
    BY <2>3, DbSame
  <2>5. \A m \in DOMAIN boxes : boxes[m].of \in 1..dbLastId
    BY DEF DbInv, DbIds
  <2>6. \A m \in DOMAIN made.boxes : made.boxes[m].of \in 1..dbLastId
    BY <1>2, <1>4, <1>7, <1>8, <2>5 DEF DbBoxKeep
  <2>7. \A m \in DOMAIN removed.boxes : removed.boxes[m].of \in 1..dbLastId
    BY <1>5, <2>5 DEF Instances!Without
  <2>8. \A m \in DOMAIN boxes' : boxes'[m].of \in 1..dbLastId
    BY <2>1, <2>3, <2>5, <2>6, <2>7
  <2> QED
    BY <1>13, <1>15, <2>3, <2>4, <2>8, DbCalm
<1> QED
    BY <1>14, <1>15

(* SaveInstanceConfig.                                                      *)
LEMMA DbSaves ==
    ASSUME DbInv, NEW id, NEW p \in Ports, NEW restart, NEW at,
           Instances!SaveInstanceConfig(id, p, restart, at)
    PROVE  DbInv'
<1> DEFINE n == dbRows[id].req.cname
           a == Instances!poolFor(Instances!World, id)
           r == Instances!rtRestart(a, n)
           s == Instances!Started(r, id, at)
<1>1. /\ id \in DOMAIN dbRows /\ n \in DOMAIN boxes /\ Instances!Charge(at)
      /\ at \in {"none", "remove", "create", "wait"}
      /\ UNCHANGED <<tasks, dbLastId, lastPwd, notified, dbCrashed>>
    BY DEF Instances!SaveInstanceConfig, Instances!Up, Instances!Quiet
<1>2. \/ Instances!SetWorld(Instances!recreateInstanceContainer(a, id, p, at))
      \/ Instances!SetWorld(s) \/ Instances!SetWorld(a)
    BY DEF Instances!SaveInstanceConfig
<1>3. /\ DbWorldOK(a) /\ a.rows = dbRows /\ a.boxes = boxes
      /\ a.pools = IF id \in DOMAIN pools THEN pools ELSE Instances!With(pools, id, dbRows[id].port)
    BY DbNow, DbPoolWorld
<1> HIDE DEF a
<1>4. DbQuietPools(a.pools)
    BY <1>1, <1>3, DbSame
<1>5. \A i \in DOMAIN a.pools \ {id} : i \in DOMAIN pools /\ a.pools[i] = pools[i]
    BY <1>3 DEF Instances!With
<1>6. CASE Instances!SetWorld(Instances!recreateInstanceContainer(a, id, p, at))
    BY <1>1, <1>3, <1>4, <1>5, <1>6, DbRecreates
<1>7. CASE Instances!SetWorld(s)
  <2>1. DbWorldOK(r) /\ r.rows = dbRows /\ r.pools = a.pools /\ DbBoxKeep(r.boxes, boxes)
    BY <1>1, <1>3, DbRestartWorld
  <2> HIDE DEF r
  <2>2. DbWorldOK(s) /\ DbQuietRows(s.rows) /\ s.pools = r.pools /\ DbBoxKeep(s.boxes, boxes)
    BY <1>1, <2>1, DbStartedWorld
  <2> HIDE DEF s
  <2>3. DbQuietPools(s.pools) /\ lastPwd' \in Nat
    BY <1>1, <1>4, <2>1, <2>2, DbSame
  <2> QED
    <3>1. /\ DbInv /\ UNCHANGED <<tasks, dbLastId, notified, dbCrashed>> /\ Instances!Charge(at)
          /\ Instances!SetWorld(s)
        BY <1>1, <1>7
    <3> QED
        BY ONLY <2>2, <2>3, <3>1, DbQuietly
<1>8. CASE Instances!SetWorld(a)
  <2>1. DbQuietRows(a.rows) /\ DbBoxKeep(a.boxes, boxes) /\ lastPwd' \in Nat
    BY <1>1, <1>3, DbSame
  <2> QED
    BY <1>1, <1>3, <1>4, <1>8, <2>1, DbQuietly
<1> QED
    BY <1>2, <1>6, <1>7, <1>8

(* The panel is restarted: its installs and its connections are gone.       *)
LEMMA DbPanelRestarts ==
    ASSUME DbInv, Instances!PanelRestarts
    PROVE  DbInv'
<1>1. /\ tasks' = [i \in {} |-> 0] /\ pools' = [i \in {} |-> 0] /\ dbCrashed' = TRUE
      /\ Instances!Charge("crash") /\ UNCHANGED <<dbRows, dbLastId, lastPwd, boxes, dirs, notified>>
    BY DEF Instances!PanelRestarts
<1>2. dbFaults' \in Nat /\ dbFaults' # 0
    BY <1>1, DbCharge
<1>3. DOMAIN tasks' = {} /\ DOMAIN pools' = {} /\ tasks' \in [{} -> DbTaskSet]
    BY <1>1
<1>4. DbTypes' /\ DbIds'
    BY <1>1, <1>2, <1>3 DEF DbInv, DbTypes, DbIds
<1>5. DbInstalling' /\ DbFailed' /\ DbNames'
    BY <1>1 DEF DbInv, DbInstalling, DbFailed, DbNames
<1>6. DbCancelled' /\ DbOneRequest' /\ DbPools' /\ DbOwn' /\ DbEarly'
    BY <1>2, <1>3 DEF DbCancelled, DbOneRequest, DbPools, DbOwn, DbEarly
<1> QED
    BY <1>4, <1>5, <1>6 DEF DbInv

(* An instance is asked for: a row and an install with a fresh number, or   *)
(* nothing when the executor refuses.                                       *)
LEMMA DbCreates ==
    ASSUME DbInv, NEW req \in Reqs, NEW at, Instances!CreateInstance(req, at)
    PROVE  DbInv'
<1> DEFINE id == dbLastId + 1
           pwd == lastPwd + 1
           row == [req |-> req, status |-> "installing", port |-> req.port, pwd |-> pwd]
           task == [req |-> req, pwd |-> pwd, pc |-> "prepare", cancelled |-> FALSE]
           v == Instances!repoCreateInstance(Instances!World, id, row)
<1>1. /\ Instances!Charge(at) /\ ~Instances!Taken(req) /\ req.cname \notin DOMAIN boxes
      /\ dbLastId' = id /\ lastPwd' = pwd /\ UNCHANGED <<notified, dbCrashed>>
      /\ \/ tasks' = tasks /\ Instances!SetWorld(Instances!DeleteInstance(v, id))
         \/ tasks' = Instances!With(tasks, id, task) /\ Instances!SetWorld(v)
    BY DEF Instances!CreateInstance
<1>2. dbLastId \in Nat /\ lastPwd \in Nat /\ id \in Nat /\ pwd \in Nat
    BY DEF DbInv, DbTypes
<1>3. row \in DbRowSet /\ task \in DbTaskSet /\ req.port \in DbPort
    BY <1>2 DEF DbRowSet, DbTaskSet, DbPort
<1>4. id \notin DOMAIN dbRows /\ id \notin DOMAIN tasks /\ id \notin DOMAIN pools
      /\ \A n \in DOMAIN boxes : boxes[n].of # id
    BY <1>2 DEF DbInv, DbIds
<1>5. row.req = req /\ row.port = req.port /\ row.status = "installing" /\ task.req = req
      /\ task.cancelled = FALSE
    OBVIOUS
<1>6. DbWorldOK(v) /\ v.boxes = boxes /\ v.pools = pools /\ v.rows = Instances!With(dbRows, id, row)
  <2>1. v = [rows |-> Instances!With(dbRows, id, row), boxes |-> boxes, dirs |-> dirs, pools |-> pools]
    BY DEF Instances!repoCreateInstance, Instances!World
  <2> HIDE DEF row, v, id
  <2>2. Instances!With(dbRows, id, row) \in [DOMAIN Instances!With(dbRows, id, row) -> DbRowSet]
    BY <1>3 DEF Instances!With, DbInv, DbTypes
  <2> QED
    BY <2>1, <2>2 DEF DbWorldOK, DbIsWorld, DbInv, DbTypes
<1>7. dbFaults' \in Nat /\ (dbFaults' = 0 => dbFaults = 0)
    BY <1>1, DbCharge
<1> HIDE DEF v, row, task
<1>8. CASE tasks' = tasks /\ Instances!SetWorld(Instances!DeleteInstance(v, id))
  <2> DEFINE u == Instances!DeleteInstance(v, id)
  <2>1. DbWorldOK(u) /\ u.boxes = boxes /\ u.pools = pools /\ u.rows = Instances!Without(v.rows, id)
    BY <1>6, DbDeleteWorld
  <2>2. u.rows = dbRows
    <3>1. dbRows \in [DOMAIN dbRows -> DbRowSet]
        BY DEF DbInv, DbTypes
    <3>2. v.rows = Instances!With(dbRows, id, row) /\ id \notin DOMAIN dbRows
        BY <1>4, <1>6
    <3> HIDE DEF id
    <3>3. Instances!Without(Instances!With(dbRows, id, row), id) = [i \in DOMAIN dbRows |-> dbRows[i]]
        BY <3>2 DEF Instances!With, Instances!Without
    <3> QED
        BY ONLY <2>1, <3>1, <3>2, <3>3
  <2>3. Instances!SetWorld(u)
    BY <1>8
  <2> HIDE DEF u
  <2>4. dbRows' = dbRows /\ boxes' = boxes /\ pools' = pools
    BY <2>1, <2>2, <2>3, DbBecomes
  <2>5. DbTypes'
    BY <1>1, <1>2, <1>7, <1>8, <2>4 DEF DbInv, DbTypes
  <2>6. DbIds'
    BY <1>1, <1>2, <1>8, <2>4 DEF DbInv, DbIds
  <2> HIDE DEF id
  <2>7. /\ DbInstalling' /\ DbFailed' /\ DbCancelled' /\ DbOneRequest' /\ DbNames' /\ DbPools'
    BY <1>1, <1>8, <2>4
       DEF DbInv, DbInstalling, DbFailed, DbCancelled, DbOneRequest, DbNames, DbPools
  <2>8. DbOwn' /\ DbEarly'
    BY <1>7, <1>8, <2>4 DEF DbInv, DbOwn, DbEarly
  <2> QED
    BY <2>5, <2>6, <2>7, <2>8 DEF DbInv
<1>9. CASE tasks' = Instances!With(tasks, id, task) /\ Instances!SetWorld(v)
  <2>1. dbRows' = Instances!With(dbRows, id, row) /\ boxes' = boxes /\ pools' = pools
        /\ dbRows' \in [DOMAIN dbRows' -> DbRowSet]
    BY <1>6, <1>9, DbBecomes
  <2>2. /\ DOMAIN dbRows' = DOMAIN dbRows \cup {id} /\ dbRows'[id] = row
        /\ \A i \in DOMAIN dbRows : dbRows'[i] = dbRows[i]
    BY <1>4, <2>1 DEF Instances!With
  <2>3. /\ DOMAIN tasks' = DOMAIN tasks \cup {id} /\ tasks'[id] = task
        /\ \A i \in DOMAIN tasks : tasks'[i] = tasks[i]
    BY <1>4, <1>9 DEF Instances!With
  <2>4. tasks' \in [DOMAIN tasks' -> DbTaskSet]
    BY <1>3, <1>9 DEF Instances!With, DbInv, DbTypes
  <2>5. DbTypes'
    BY <1>1, <1>2, <1>7, <2>1, <2>4 DEF DbInv, DbTypes
  <2>6. DbIds'
    BY <1>1, <1>2, <2>1, <2>2, <2>3 DEF DbInv, DbIds
  <2> HIDE DEF id
  <2>7. DbInstalling' /\ DbFailed'
    BY <1>1, <1>5, <2>2, <2>3 DEF DbInv, DbInstalling, DbFailed
  <2>8. DbCancelled' /\ DbOneRequest'
    BY <1>4, <1>5, <2>2, <2>3 DEF DbInv, DbCancelled, DbOneRequest
  <2>9. DbNames'
    <3>1. \A i \in DOMAIN dbRows : dbRows[i].req.cname # req.cname
        BY <1>1 DEF Instances!Taken
    <3> QED
        BY <1>5, <2>2, <3>1 DEF DbInv, DbNames
  <2>10. DbPools'
    BY <1>4, <2>1, <2>2 DEF DbInv, DbPools
  <2>11. DbOwn'
    BY <1>4, <1>5, <1>7, <2>1, <2>2 DEF DbInv, DbOwn
  <2>12. DbEarly'
    BY <1>4, <1>5, <1>7, <2>1, <2>2, <2>3 DEF DbInv, DbEarly
  <2> QED
    BY <2>5, <2>6, <2>7, <2>8, <2>9, <2>10, <2>11, <2>12 DEF DbInv
<1> QED
    BY <1>1, <1>8, <1>9

(* An install goes on, or ends.                                             *)
LEMMA DbTaskGoes ==
    ASSUME DbInv, NEW id \in DOMAIN tasks, NEW pc \in {"pull", "create", "start", "wait"},
           pc \in {"pull", "create"} => tasks[id].pc \in {"prepare", "pull", "create"},
           tasks' = [tasks EXCEPT ![id].pc = pc]
    PROVE  DbTaskStep /\ tasks' \in [DOMAIN tasks' -> DbTaskSet] /\ DOMAIN tasks' = DOMAIN tasks
<1>1. tasks \in [DOMAIN tasks -> DbTaskSet] /\ tasks[id] \in DbTaskSet
    BY DEF DbInv, DbTypes
<1>2. [tasks[id] EXCEPT !.pc = pc] \in DbTaskSet
    BY <1>1 DEF DbTaskSet
<1>3. tasks' \in [DOMAIN tasks' -> DbTaskSet] /\ DOMAIN tasks' = DOMAIN tasks
    BY <1>1, <1>2
<1>4. \A i \in DOMAIN tasks : /\ tasks'[i].req = tasks[i].req /\ tasks'[i].cancelled = tasks[i].cancelled
                              /\ tasks'[i].pc = IF i = id THEN pc ELSE tasks[i].pc
    BY <1>1 DEF DbTaskSet
<1> QED
    BY <1>3, <1>4 DEF DbTaskStep

(* An install ends.                                                         *)
LEMMA DbTaskEnds ==
    ASSUME DbInv, NEW id, tasks' = Instances!Without(tasks, id)
    PROVE  DbTaskStep /\ tasks' \in [DOMAIN tasks' -> DbTaskSet] /\ DOMAIN tasks' = DOMAIN tasks \ {id}
BY DEF DbInv, DbTypes, DbTaskStep, Instances!Without

(* Containers that a step of an install may lead to.                        *)
DbBoxesTo(b) ==
    /\ \A n \in DOMAIN b : b[n].of \in 1..dbLastId
    /\ dbFaults = 0 =>
         /\ DOMAIN boxes \subseteq DOMAIN b
         /\ \A n \in DOMAIN b :
              \/ n \in DOMAIN boxes /\ b[n].of = boxes[n].of /\ b[n].port = boxes[n].port
              \/ b[n].of \in DOMAIN dbRows => b[n].port = dbRows[b[n].of].port

(* Containers that are kept are such containers.                            *)
LEMMA DbBoxesKept == ASSUME DbInv, NEW b, DbBoxKeep(b, boxes) PROVE DbBoxesTo(b)
BY DbSame DEF DbBoxesTo, DbBoxKeep

(* A step of an install that advances it.                                   *)
LEMMA DbInstallGoes ==
    ASSUME DbInv, NEW id \in DOMAIN tasks, NEW pc \in {"pull", "create", "start", "wait"},
           pc \in {"pull", "create"} => tasks[id].pc \in {"prepare", "pull", "create"},
           Instances!Advance(id, pc), NEW w, DbWorldOK(w), w.rows = dbRows, w.pools = pools,
           DbBoxesTo(w.boxes), Instances!SetWorld(w), Instances!Charge("none"),
           UNCHANGED <<dbLastId, lastPwd, dbCrashed>>
    PROVE  DbInv'
<1>1. tasks' = [tasks EXCEPT ![id].pc = pc] /\ notified' = notified
    BY DEF Instances!Advance
<1>2. DbTaskStep /\ tasks' \in [DOMAIN tasks' -> DbTaskSet] /\ DOMAIN tasks' = DOMAIN tasks
    BY <1>1, DbTaskGoes
<1>3. /\ dbRows' = dbRows /\ boxes' = w.boxes /\ pools' = pools
      /\ dbRows' \in [DOMAIN dbRows' -> DbRowSet] /\ boxes' \in [DOMAIN boxes' -> DbBoxSet]
    BY DbBecomes
<1>4. dbFaults' \in Nat /\ (dbFaults' = 0 => dbFaults = 0)
    BY DbCharge
<1>5. DbTypes'
    BY <1>2, <1>3, <1>4 DEF DbInv, DbTypes
<1>6. DbRowStep
    BY <1>2, <1>3 DEF DbRowStep
<1>7. DbBoxStep /\ \A n \in DOMAIN boxes' : boxes'[n].of \in 1..dbLastId
    BY <1>3, <1>4 DEF DbBoxStep, DbBoxesTo
<1>8. DOMAIN pools' \subseteq 1..dbLastId /\ \A i \in DOMAIN pools' \cap DOMAIN dbRows : pools'[i] = dbRows[i].port
    BY <1>3, DbSame DEF DbQuietPools
<1> QED
    BY <1>1, <1>2, <1>4, <1>5, <1>6, <1>7, <1>8, DbKeeps

(* A step that ends an install: a row that is left says so.                 *)
LEMMA DbInstallOver ==
    ASSUME DbInv, NEW id \in DOMAIN tasks, tasks' = Instances!Without(tasks, id),
           notified \subseteq notified', NEW w, DbWorldOK(w), w.pools = pools, DbBoxesTo(w.boxes),
           DOMAIN w.rows = DOMAIN dbRows,
           \A i \in DOMAIN dbRows :
              /\ w.rows[i].req = dbRows[i].req /\ w.rows[i].port = dbRows[i].port
              /\ i # id => w.rows[i].status = dbRows[i].status
              /\ i = id => w.rows[i].status = "running" \/ (w.rows[i].status = "failed" /\ id \in notified'),
           Instances!SetWorld(w), NEW at, Instances!Charge(at),
           UNCHANGED <<dbLastId, lastPwd, dbCrashed>>
    PROVE  DbInv'
<1>2. DbTaskStep /\ tasks' \in [DOMAIN tasks' -> DbTaskSet] /\ DOMAIN tasks' = DOMAIN tasks \ {id}
    BY DbTaskEnds
<1>3. /\ dbRows' = w.rows /\ boxes' = w.boxes /\ pools' = pools
      /\ dbRows' \in [DOMAIN dbRows' -> DbRowSet] /\ boxes' \in [DOMAIN boxes' -> DbBoxSet]
    BY DbBecomes
<1>4. dbFaults' \in Nat /\ (dbFaults' = 0 => dbFaults = 0)
    BY DbCharge
<1>5. DbTypes'
    BY <1>2, <1>3, <1>4 DEF DbInv, DbTypes
<1>6. DbRowStep
    BY <1>2, <1>3 DEF DbRowStep
<1>7. DbBoxStep /\ \A n \in DOMAIN boxes' : boxes'[n].of \in 1..dbLastId
    BY <1>3, <1>4 DEF DbBoxStep, DbBoxesTo
<1>8. DOMAIN pools' \subseteq 1..dbLastId /\ \A i \in DOMAIN pools' \cap DOMAIN dbRows : pools'[i] = dbRows[i].port
    BY <1>3, DbSame DEF DbQuietPools
<1> QED
    BY <1>2, <1>4, <1>5, <1>6, <1>7, <1>8, DbKeeps

(* An install that was not cancelled fails and is reported; the row of one  *)
(* that was is gone.                                                        *)
LEMMA DbInstallFails ==
    ASSUME DbInv, NEW id \in DOMAIN tasks, NEW w, Instances!installFailed(id, w),
           DbWorldOK(w), w.rows = dbRows, w.pools = pools, DbBoxesTo(w.boxes),
           NEW at, Instances!Charge(at), UNCHANGED <<dbLastId, lastPwd, dbCrashed>>
    PROVE  DbInv'
<1>1. tasks' = Instances!Without(tasks, id)
    BY DEF Instances!installFailed
<1>2. CASE tasks[id].cancelled
  <2>1. Instances!SetWorld(w) /\ notified' = notified
    BY <1>2 DEF Instances!installFailed
  <2>2. id \notin DOMAIN dbRows
    BY <1>2 DEF DbInv, DbCancelled
  <2> QED
    BY <1>1, <2>1, <2>2, DbInstallOver
<1>3. CASE ~tasks[id].cancelled
  <2> DEFINE u == Instances!UpdateInstanceStatus(w, id, "failed")
  <2>1. Instances!SetWorld(u) /\ notified' = notified \cup {id}
    BY <1>3 DEF Instances!installFailed
  <2>2. /\ DbWorldOK(u) /\ u.boxes = w.boxes /\ u.pools = w.pools
        /\ u.rows = IF id \in DOMAIN w.rows THEN [w.rows EXCEPT ![id].status = "failed"] ELSE w.rows
    <3>1. DbStatusSet(u, w, id, "failed")
        BY DbStatusOf
    <3> QED
        BY <3>1 DEF DbStatusSet
  <2> HIDE DEF u
  <2>3. dbRows \in [DOMAIN dbRows -> DbRowSet]
    BY DEF DbInv, DbTypes
  <2>4. /\ DOMAIN u.rows = DOMAIN dbRows
        /\ \A i \in DOMAIN dbRows :
             /\ u.rows[i].req = dbRows[i].req /\ u.rows[i].port = dbRows[i].port
             /\ i # id => u.rows[i].status = dbRows[i].status
             /\ i = id => u.rows[i].status = "failed"
    BY <2>2, <2>3 DEF DbRowSet
  <2>5. notified \subseteq notified' /\ id \in notified' /\ DbBoxesTo(u.boxes)
    BY <2>1, <2>2
  <2> QED
    BY <1>1, <2>1, <2>2, <2>4, <2>5, DbInstallOver
<1> QED
    BY <1>2, <1>3

(* The world that the state has.                                            *)
LEMMA DbStay ==
    ASSUME DbInv, NEW w, w = Instances!World
    PROVE  DbWorldOK(w) /\ w.rows = dbRows /\ w.pools = pools /\ DbBoxesTo(w.boxes)
BY DbNow, DbSame, DbBoxesKept

(* The directories are made and the image is pulled.                        *)
LEMMA DbPrepares ==
    ASSUME DbInv, NEW id, Instances!InstallPrepare(id) \/ Instances!InstallPull(id)
    PROVE  DbInv'
<1> DEFINE w == Instances!World
<1>1. id \in DOMAIN tasks /\ tasks[id].pc \in {"prepare", "pull"} /\ UNCHANGED <<dbLastId, lastPwd, dbCrashed>>
    BY DEF Instances!InstallPrepare, Instances!InstallPull
<1>2. \/ /\ Instances!Charge("none") /\ Instances!SetWorld(w)
         /\ Instances!Advance(id, "pull") \/ Instances!Advance(id, "create")
      \/ /\ Instances!installFailed(id, w)
         /\ \/ Instances!Charge("mkdir") \/ Instances!Charge("pull") \/ Instances!Charge("none")
    BY DEF Instances!InstallPrepare, Instances!InstallPull
<1>3. DbWorldOK(w) /\ w.rows = dbRows /\ w.pools = pools /\ DbBoxesTo(w.boxes)
    BY DbStay
<1> HIDE DEF w
<1>4. CASE Instances!installFailed(id, w) /\ (Instances!Charge("mkdir") \/ Instances!Charge("pull") \/ Instances!Charge("none"))
    BY <1>1, <1>3, <1>4, DbInstallFails
<1>5. CASE Instances!Charge("none") /\ Instances!SetWorld(w) /\ Instances!Advance(id, "pull")
    BY <1>1, <1>3, <1>5, DbInstallGoes
<1>6. CASE Instances!Charge("none") /\ Instances!SetWorld(w) /\ Instances!Advance(id, "create")
    BY <1>1, <1>3, <1>6, DbInstallGoes
<1> QED
    BY <1>2, <1>4, <1>5, <1>6

(* The container is created also by an install that was cancelled, whose row *)
(* is gone.                                                                 *)
LEMMA DbMakes ==
    ASSUME DbInv, NEW id, Instances!InstallCreate(id)
    PROVE  DbInv'
<1> DEFINE w == Instances!World
           t == tasks[id]
           n == t.req.cname
           box == Instances!containerSpec(id, t.req, t.req.port, t.pwd)
           made == Instances!rtCreate(w, n, box)
<1>1. id \in DOMAIN tasks /\ t.pc = "create" /\ UNCHANGED <<dbLastId, lastPwd, dbCrashed>>
    BY DEF Instances!InstallCreate
<1>2. \/ /\ n \notin DOMAIN boxes /\ Instances!Charge("none")
         /\ \/ Instances!Advance(id, "start") /\ Instances!SetWorld(made)
            \/ Instances!installFailed(id, made)
      \/ Instances!installFailed(id, w) /\ (Instances!Charge("create") \/ Instances!Charge("none"))
    BY DEF Instances!InstallCreate
<1>3. DbWorldOK(w) /\ w.rows = dbRows /\ w.pools = pools /\ DbBoxesTo(w.boxes) /\ w.boxes = boxes
    BY DbStay, DbNow
<1> HIDE DEF w
<1>4. t \in DbTaskSet /\ id \in Nat /\ id \in 1..dbLastId
    BY <1>1 DEF DbInv, DbTypes, DbIds
<1>5. t.req \in Reqs /\ t.pwd \in Nat /\ t.req.port \in DbPort
    BY <1>4 DEF DbTaskSet, DbPort
<1>6. box \in DbBoxSet /\ box.of = id /\ box.port = t.req.port
    BY <1>4, <1>5, DbSpec
<1> HIDE DEF box
<1>7. DbWorldOK(made) /\ made.rows = dbRows /\ made.pools = pools /\ made.boxes = Instances!With(boxes, n, box)
    BY <1>3, <1>6, DbCreateWorld
<1> HIDE DEF made
<1>8. ASSUME n \notin DOMAIN boxes PROVE DbBoxesTo(made.boxes)
  <2>1. DOMAIN made.boxes = DOMAIN boxes \cup {n} /\ made.boxes[n] = box
        /\ \A m \in DOMAIN boxes : made.boxes[m] = boxes[m]
    BY <1>7, <1>8 DEF Instances!With
  <2>2. dbFaults = 0 /\ id \in DOMAIN dbRows => dbRows[id].port = t.req.port
    <3> SUFFICES ASSUME dbFaults = 0, id \in DOMAIN dbRows PROVE dbRows[id].port = t.req.port
        OBVIOUS
    <3>1. dbRows[id].req = t.req
        BY <1>1 DEF DbInv, DbOneRequest
    <3>2. dbRows[id].port = dbRows[id].req.port \/ dbRows[id].req.cname \in DOMAIN boxes
        BY <1>1 DEF DbInv, DbEarly
    <3> QED
        BY <1>8, <3>1, <3>2
  <2>3. \A m \in DOMAIN boxes : boxes[m].of \in 1..dbLastId
    BY DEF DbInv, DbIds
  <2> HIDE DEF t, n
  <2> QED
    BY <1>4, <1>6, <2>1, <2>2, <2>3 DEF DbBoxesTo
<1>9. CASE n \notin DOMAIN boxes /\ Instances!Charge("none") /\ Instances!Advance(id, "start") /\ Instances!SetWorld(made)
    BY <1>1, <1>7, <1>8, <1>9, DbInstallGoes
<1>10. CASE n \notin DOMAIN boxes /\ Instances!Charge("none") /\ Instances!installFailed(id, made)
    BY <1>1, <1>7, <1>8, <1>10, DbInstallFails
<1>11. CASE Instances!installFailed(id, w) /\ (Instances!Charge("create") \/ Instances!Charge("none"))
    BY <1>1, <1>3, <1>11, DbInstallFails
<1> QED
    BY <1>2, <1>9, <1>10, <1>11

(* The container is started.                                                *)
LEMMA DbInstallStarts ==
    ASSUME DbInv, NEW id, Instances!InstallStart(id)
    PROVE  DbInv'
<1> DEFINE w == Instances!World
           n == tasks[id].req.cname
           s == Instances!rtStart(w, n)
<1>1. id \in DOMAIN tasks /\ UNCHANGED <<dbLastId, lastPwd, dbCrashed>>
    BY DEF Instances!InstallStart
<1>2. \/ n \in DOMAIN boxes /\ Instances!Charge("none") /\ Instances!Advance(id, "wait") /\ Instances!SetWorld(s)
      \/ Instances!installFailed(id, w) /\ (Instances!Charge("start") \/ Instances!Charge("none"))
    BY DEF Instances!InstallStart
<1>3. DbWorldOK(w) /\ w.rows = dbRows /\ w.pools = pools /\ DbBoxesTo(w.boxes) /\ w.boxes = boxes
    BY DbStay, DbNow
<1> HIDE DEF w
<1>4. CASE n \in DOMAIN boxes /\ Instances!Charge("none") /\ Instances!Advance(id, "wait") /\ Instances!SetWorld(s)
  <2>1. DbWorldOK(s) /\ s.rows = dbRows /\ s.pools = pools /\ DbBoxKeep(s.boxes, boxes)
    BY <1>3, <1>4, DbStartWorld
  <2> HIDE DEF s
  <2>2. DbBoxesTo(s.boxes)
    BY <2>1, DbBoxesKept
  <2> QED
    BY <1>1, <1>4, <2>1, <2>2, DbInstallGoes
<1>5. CASE Instances!installFailed(id, w) /\ (Instances!Charge("start") \/ Instances!Charge("none"))
    BY <1>1, <1>3, <1>5, DbInstallFails
<1> QED
    BY <1>2, <1>4, <1>5

(* The server is waited for.                                                *)
LEMMA DbInstallWaits ==
    ASSUME DbInv, NEW id, Instances!InstallWait(id)
    PROVE  DbInv'
<1> DEFINE w == Instances!World
           u == Instances!UpdateInstanceStatus(w, id, "running")
<1>1. id \in DOMAIN tasks /\ UNCHANGED <<dbLastId, lastPwd, dbCrashed>>
    BY DEF Instances!InstallWait
<1>2. \/ /\ Instances!Charge("none") /\ Instances!SetWorld(u)
         /\ tasks' = Instances!Without(tasks, id) /\ notified' = notified
      \/ Instances!installFailed(id, w) /\ (Instances!Charge("save") \/ Instances!Charge("none"))
    BY DEF Instances!InstallWait
<1>3. DbWorldOK(w) /\ w.rows = dbRows /\ w.pools = pools /\ DbBoxesTo(w.boxes)
    BY DbStay
<1> HIDE DEF w
<1>4. CASE /\ Instances!Charge("none") /\ Instances!SetWorld(u)
           /\ tasks' = Instances!Without(tasks, id) /\ notified' = notified
  <2>1. /\ DbWorldOK(u) /\ u.boxes = w.boxes /\ u.pools = w.pools
        /\ u.rows = IF id \in DOMAIN w.rows THEN [w.rows EXCEPT ![id].status = "running"] ELSE w.rows
    BY <1>3, DbStatusWorld, ZenonT(60) DEF DbStatusSet
  <2> HIDE DEF u
  <2>2. dbRows \in [DOMAIN dbRows -> DbRowSet]
    BY DEF DbInv, DbTypes
  <2>3. /\ DOMAIN u.rows = DOMAIN dbRows
        /\ \A i \in DOMAIN dbRows :
             /\ u.rows[i].req = dbRows[i].req /\ u.rows[i].port = dbRows[i].port
             /\ i # id => u.rows[i].status = dbRows[i].status
             /\ i = id => u.rows[i].status = "running"
    BY <1>3, <2>1, <2>2 DEF DbRowSet
  <2> QED
    BY <1>1, <1>3, <1>4, <2>1, <2>3, DbInstallOver
<1>5. CASE Instances!installFailed(id, w) /\ (Instances!Charge("save") \/ Instances!Charge("none"))
    BY <1>1, <1>3, <1>5, DbInstallFails
<1> QED
    BY <1>2, <1>4, <1>5

(* Every step of the part keeps the invariant.                              *)
LEMMA DbStep == DbInv /\ Instances!Next => DbInv'
<1> SUFFICES ASSUME DbInv, Instances!Next PROVE DbInv'
    OBVIOUS
<1>1. CASE Instances!PostInstance
    BY <1>1, DbCreates DEF Instances!PostInstance
<1>2. CASE Instances!ListInstances
    BY <1>2, DbRefreshes DEF Instances!ListInstances
<1>3. CASE Instances!PanelRestarts
    BY <1>3, DbPanelRestarts
<1>4. ASSUME NEW id \in 1..DbMaxId, Instances!Install(id) PROVE DbInv'
    BY <1>4, DbPrepares, DbMakes, DbInstallStarts, DbInstallWaits DEF Instances!Install
<1>5. ASSUME NEW id \in 1..DbMaxId, Instances!Query(id) PROVE DbInv'
    BY <1>5, DbQueries
<1>6. ASSUME NEW id \in 1..DbMaxId, Instances!PostCancel(id) PROVE DbInv'
    BY <1>6, DbCancels DEF Instances!PostCancel
<1>7. ASSUME NEW id \in 1..DbMaxId, Instances!DeleteRequest(id) PROVE DbInv'
    BY <1>7, DbUninstalls DEF Instances!DeleteRequest
<1>8. ASSUME NEW id \in 1..DbMaxId, Instances!PostPassword(id) PROVE DbInv'
    BY <1>8, DbResets DEF Instances!PostPassword
<1>9. ASSUME NEW id \in 1..DbMaxId, Instances!PostStart(id) \/ Instances!PostRestart(id) PROVE DbInv'
    BY <1>9, DbStarts DEF Instances!PostStart, Instances!PostRestart
<1>10. ASSUME NEW id \in 1..DbMaxId, Instances!PostStop(id) PROVE DbInv'
    BY <1>10, DbStops DEF Instances!PostStop
<1>11. ASSUME NEW id \in 1..DbMaxId, Instances!PutConfig(id) PROVE DbInv'
    BY <1>11, DbSaves DEF Instances!PutConfig
<1>12. ASSUME NEW n \in DOMAIN boxes, Instances!BoxHealthy(n) \/ Instances!BoxExits(n) PROVE DbInv'
    BY <1>12, DbServers
<1> QED
    BY <1>1, <1>2, <1>3, <1>4, <1>5, <1>6, <1>7, <1>8, <1>9, <1>10, <1>11, <1>12 DEF Instances!Next

(* The invariant holds at the start.                                        *)
LEMMA DbInit == Instances!Init => DbInv
BY DEF Instances!Init, DbInv, DbTypes, DbIds, DbInstalling, DbFailed, DbCancelled, DbOneRequest, DbNames,
       DbPools, DbOwn, DbEarly

(* A step of another part leaves it as it is.                               *)
LEMMA DbStutter == DbInv /\ UNCHANGED dbVars => DbInv'
BY DEF dbVars, DbInv, DbTypes, DbIds, DbInstalling, DbFailed, DbCancelled, DbOneRequest, DbNames,
       DbPools, DbOwn, DbEarly

(* What the invariant says to the user.                                     *)
LEMMA DbShows == DbInv => Instances!InstallsReported /\ Instances!PoolsReachContainer
<1> SUFFICES ASSUME DbInv PROVE Instances!InstallsReported /\ Instances!PoolsReachContainer
    OBVIOUS
<1>1. Instances!InstallsReported
    BY DEF DbInv, DbInstalling, DbFailed, Instances!InstallsReported
<1>2. Instances!PoolsReachContainer
    BY DEF DbInv, DbPools, DbOwn, Instances!PoolsReachContainer
<1> QED
    BY <1>1, <1>2


(* Types. Every row holds a password that was generated, every report is of *)
(* an instance that was created, and no more steps fail than the bound says.*)
DbRowsTo(m) == {r \in DbRowSet : r.pwd \in 1 .. m}
DbHas(w, m) == DbIsWorld(w) /\ w.rows \in [DOMAIN w.rows -> DbRowsTo(m)]
DbMore ==
    /\ dbRows \in [DOMAIN dbRows -> DbRowsTo(lastPwd)]
    /\ notified \subseteq 1 .. dbLastId
    /\ dbFaults \in 0 .. DbMaxFaults
DbTyped == DbInv /\ DbMore

(* The instances as they are.                                               *)
LEMMA DbHasNow ==
    ASSUME DbTyped
    PROVE  DbHas(Instances!World, lastPwd) /\ DbHas(Instances!World, lastPwd + 1)
<1>1. Instances!World.rows = dbRows /\ DbIsWorld(Instances!World)
    BY DEF Instances!World, DbIsWorld
<1>2. dbRows \in [DOMAIN dbRows -> DbRowsTo(lastPwd)] /\ lastPwd \in Nat
    BY DEF DbTyped, DbMore, DbInv, DbTypes
<1>3. \A r \in DbRowsTo(lastPwd) : r \in DbRowsTo(lastPwd + 1)
    BY <1>2 DEF DbRowsTo
<1>4. dbRows \in [DOMAIN dbRows -> DbRowsTo(lastPwd + 1)]
    BY <1>2, <1>3
<1> QED
    BY <1>1, <1>2, <1>4 DEF DbHas

(* Operations that leave the rows alone.                                    *)
LEMMA DbHasBoxes ==
    ASSUME NEW w, NEW m, DbHas(w, m), NEW n, NEW box, NEW k
    PROVE  /\ DbHas(Instances!rtStart(w, n), m) /\ DbHas(Instances!rtStop(w, n), m)
           /\ DbHas(Instances!rtRemove(w, n), m) /\ DbHas(Instances!rtCreate(w, n, box), m)
           /\ DbHas(Instances!Healthy(w, n), m) /\ DbHas(Instances!ClosePools(w, k), m)
           /\ DbHas(Instances!poolFor(w, k), m)
           /\ DbHas([w EXCEPT !.dirs = Instances!Without(@, k)], m)
<1>1. w = [rows |-> w.rows, boxes |-> w.boxes, dirs |-> w.dirs, pools |-> w.pools]
    BY DEF DbHas, DbIsWorld
<1>2. ASSUME NEW u, u.rows = w.rows, DbIsWorld(u) PROVE DbHas(u, m)
    BY <1>2 DEF DbHas
<1>3. DbHas(Instances!rtStart(w, n), m)
  <2> DEFINE u == Instances!rtStart(w, n)
  <2>a. u.rows = w.rows
    BY <1>1 DEF Instances!rtStart
  <2>b. DOMAIN u = {"rows", "boxes", "dirs", "pools"} /\ u = [f \in DOMAIN u |-> u[f]]
    BY <1>1, ZenonT(60) DEF Instances!rtStart
  <2> HIDE DEF u
  <2>1. u.rows = w.rows /\ DbIsWorld(u)
    BY <2>a, <2>b DEF DbIsWorld
  <2>2. DbHas(u, m)
    BY <2>1, <1>2
  <2> QED
    BY <2>2 DEF u
<1>4. DbHas(Instances!rtStop(w, n), m)
  <2> DEFINE u == Instances!rtStop(w, n)
  <2>a. u.rows = w.rows
    BY <1>1 DEF Instances!rtStop
  <2>b. DOMAIN u = {"rows", "boxes", "dirs", "pools"} /\ u = [f \in DOMAIN u |-> u[f]]
    BY <1>1, ZenonT(60) DEF Instances!rtStop
  <2> HIDE DEF u
  <2>1. u.rows = w.rows /\ DbIsWorld(u)
    BY <2>a, <2>b DEF DbIsWorld
  <2>2. DbHas(u, m)
    BY <2>1, <1>2
  <2> QED
    BY <2>2 DEF u
<1>5. DbHas(Instances!rtRemove(w, n), m)
  <2> DEFINE u == Instances!rtRemove(w, n)
  <2>1. u.rows = w.rows /\ DbIsWorld(u)
    BY <1>1 DEF Instances!rtRemove, DbIsWorld
  <2> HIDE DEF u
  <2>2. DbHas(u, m)
    BY <2>1, <1>2
  <2> QED
    BY <2>2 DEF u
<1>6. DbHas(Instances!rtCreate(w, n, box), m)
  <2> DEFINE u == Instances!rtCreate(w, n, box)
  <2>1. u.rows = w.rows /\ DbIsWorld(u)
    BY <1>1 DEF Instances!rtCreate, DbIsWorld
  <2> HIDE DEF u
  <2>2. DbHas(u, m)
    BY <2>1, <1>2
  <2> QED
    BY <2>2 DEF u
<1>7. DbHas(Instances!Healthy(w, n), m)
  <2> DEFINE u == Instances!Healthy(w, n)
  <2>a. u.rows = w.rows
    BY <1>1 DEF Instances!Healthy
  <2>b. DOMAIN u = {"rows", "boxes", "dirs", "pools"} /\ u = [f \in DOMAIN u |-> u[f]]
    BY <1>1, ZenonT(60) DEF Instances!Healthy
  <2> HIDE DEF u
  <2>1. u.rows = w.rows /\ DbIsWorld(u)
    BY <2>a, <2>b DEF DbIsWorld
  <2>2. DbHas(u, m)
    BY <2>1, <1>2
  <2> QED
    BY <2>2 DEF u
<1>8. DbHas(Instances!ClosePools(w, k), m)
  <2> DEFINE u == Instances!ClosePools(w, k)
  <2>1. u.rows = w.rows /\ DbIsWorld(u)
    BY <1>1 DEF Instances!ClosePools, DbIsWorld
  <2> HIDE DEF u
  <2>2. DbHas(u, m)
    BY <2>1, <1>2
  <2> QED
    BY <2>2 DEF u
<1>9. DbHas(Instances!poolFor(w, k), m)
  <2> DEFINE u == Instances!poolFor(w, k)
             v == [w EXCEPT !.pools = Instances!With(@, k, dbRows[k].port)]
  <2>1. v.rows = w.rows /\ DbIsWorld(v) /\ u \in {v, w}
    BY <1>1 DEF Instances!poolFor, DbIsWorld
  <2> HIDE DEF u, v
  <2>2. DbHas(u, m)
    BY <2>1, <1>2
  <2> QED
    BY <2>2 DEF u
<1>10. DbHas([w EXCEPT !.dirs = Instances!Without(@, k)], m)
  <2> DEFINE u == [w EXCEPT !.dirs = Instances!Without(@, k)]
  <2>1. u.rows = w.rows /\ DbIsWorld(u)
    BY <1>1 DEF DbIsWorld
  <2> HIDE DEF u
  <2>2. DbHas(u, m)
    BY <2>1, <1>2
  <2> QED
    BY <2>2 DEF u
<1> QED
    BY <1>3, <1>4, <1>5, <1>6, <1>7, <1>8, <1>9, <1>10

(* Operations on a row.                                                     *)
LEMMA DbHasRows ==
    ASSUME NEW w, NEW m, DbHas(w, m), NEW id
    PROVE  /\ \A s \in {"running", "stopped", "failed"} :
                 DbHas(Instances!UpdateInstanceStatus(w, id, s), m)
           /\ \A p \in DbPort : DbHas(Instances!UpdateInstancePort(w, id, p), m)
           /\ DbHas(Instances!DeleteInstance(w, id), m)
           /\ \A r \in DbRowsTo(m) : DbHas(Instances!repoCreateInstance(w, id, r), m)
<1>1. /\ w = [rows |-> w.rows, boxes |-> w.boxes, dirs |-> w.dirs, pools |-> w.pools]
      /\ w.rows \in [DOMAIN w.rows -> DbRowsTo(m)]
    BY DEF DbHas, DbIsWorld
<1>2. ASSUME NEW u, NEW r, u = [rows |-> r, boxes |-> w.boxes, dirs |-> w.dirs, pools |-> w.pools],
             r \in [DOMAIN r -> DbRowsTo(m)]
      PROVE  DbHas(u, m)
    BY <1>2 DEF DbHas, DbIsWorld
<1>3. ASSUME NEW r \in [DOMAIN w.rows -> DbRowsTo(m)] PROVE r \in [DOMAIN r -> DbRowsTo(m)]
    BY <1>3
<1>4. ASSUME NEW s \in {"running", "stopped", "failed"}
      PROVE  DbHas(Instances!UpdateInstanceStatus(w, id, s), m)
  <2> DEFINE u == Instances!UpdateInstanceStatus(w, id, s)
             r == [w.rows EXCEPT ![id].status = s]
  <2>1. CASE id \notin DOMAIN w.rows
    BY <2>1 DEF Instances!UpdateInstanceStatus, Instances!Put
  <2>2. CASE id \in DOMAIN w.rows
    <3>1. u = [w EXCEPT !.rows[id].status = s]
      BY <2>2 DEF Instances!UpdateInstanceStatus, Instances!Put
    <3>2. u = [rows |-> r, boxes |-> w.boxes, dirs |-> w.dirs, pools |-> w.pools]
      BY <1>1, <3>1
    <3>3. w.rows[id] \in DbRowsTo(m)
      BY <1>1, <2>2
    <3>4. [w.rows[id] EXCEPT !.status = s] \in DbRowsTo(m)
      BY <3>3 DEF DbRowsTo, DbRowSet
    <3>5. r \in [DOMAIN w.rows -> DbRowsTo(m)]
      BY <1>1, <3>4
    <3> HIDE DEF r, u
    <3>6. DbHas(u, m)
      BY <1>2, <1>3, <3>2, <3>5
    <3> QED
      BY <3>6 DEF u
  <2> QED
    BY <2>1, <2>2
<1>5. ASSUME NEW p \in DbPort PROVE DbHas(Instances!UpdateInstancePort(w, id, p), m)
  <2> DEFINE u == Instances!UpdateInstancePort(w, id, p)
             r == [w.rows EXCEPT ![id].port = p]
  <2>1. CASE id \notin DOMAIN w.rows
    BY <2>1 DEF Instances!UpdateInstancePort, Instances!Put
  <2>2. CASE id \in DOMAIN w.rows
    <3>1. u = [w EXCEPT !.rows[id].port = p]
      BY <2>2 DEF Instances!UpdateInstancePort, Instances!Put
    <3>2. u = [rows |-> r, boxes |-> w.boxes, dirs |-> w.dirs, pools |-> w.pools]
      BY <1>1, <3>1
    <3>3. w.rows[id] \in DbRowsTo(m)
      BY <1>1, <2>2
    <3>4. [w.rows[id] EXCEPT !.port = p] \in DbRowsTo(m)
      BY <3>3 DEF DbRowsTo, DbRowSet
    <3>5. r \in [DOMAIN w.rows -> DbRowsTo(m)]
      BY <1>1, <3>4
    <3> HIDE DEF r, u
    <3>6. DbHas(u, m)
      BY <1>2, <1>3, <3>2, <3>5
    <3> QED
      BY <3>6 DEF u
  <2> QED
    BY <2>1, <2>2
<1>6. DbHas(Instances!DeleteInstance(w, id), m)
  <2> DEFINE u == Instances!DeleteInstance(w, id)
             r == Instances!Without(w.rows, id)
  <2>1. u = [rows |-> r, boxes |-> w.boxes, dirs |-> w.dirs, pools |-> w.pools]
    BY <1>1 DEF Instances!DeleteInstance
  <2>2. r \in [DOMAIN r -> DbRowsTo(m)]
    BY <1>1 DEF Instances!Without
  <2> HIDE DEF r, u
  <2>3. DbHas(u, m)
    BY <1>2, <2>1, <2>2
  <2> QED
    BY <2>3 DEF u
<1>7. ASSUME NEW row \in DbRowsTo(m) PROVE DbHas(Instances!repoCreateInstance(w, id, row), m)
  <2> DEFINE u == Instances!repoCreateInstance(w, id, row)
             r == Instances!With(w.rows, id, row)
  <2>1. u = [rows |-> r, boxes |-> w.boxes, dirs |-> w.dirs, pools |-> w.pools]
    BY <1>1 DEF Instances!repoCreateInstance
  <2>2. r \in [DOMAIN r -> DbRowsTo(m)]
    BY <1>1 DEF Instances!With
  <2> HIDE DEF r, u
  <2>3. DbHas(u, m)
    BY <1>2, <2>1, <2>2
  <2> QED
    BY <2>3 DEF u
<1> QED
    BY <1>4, <1>5, <1>6, <1>7

(* A step that leaves such a world.                                         *)
LEMMA DbTypedMoves ==
    ASSUME DbTyped, NEW w, DbHas(w, lastPwd'), Instances!SetWorld(w), NEW at, Instances!Charge(at),
           notified' \subseteq 1 .. dbLastId'
    PROVE  DbMore'
<1>1. dbRows' = w.rows
    BY DEF Instances!SetWorld
<1>2. dbRows' \in [DOMAIN dbRows' -> DbRowsTo(lastPwd')]
    BY <1>1 DEF DbHas
<1>3. DbRowsTo(lastPwd)' = DbRowsTo(lastPwd')
    BY DEF DbRowsTo, DbRowSet, DbPort
<1>4. dbFaults' \in 0 .. DbMaxFaults
    BY InstanceAssumption DEF DbTyped, DbMore, Instances!Charge, Instances!InstanceBounds
<1> QED
    BY <1>2, <1>3, <1>4 DEF DbMore

(* Operations that leave rows and reports alone.                            *)
LEMMA DbQuietMoves ==
    ASSUME DbTyped, NEW w, DbHas(w, lastPwd), Instances!SetWorld(w), NEW at, Instances!Charge(at),
           UNCHANGED <<lastPwd, dbLastId, notified>>
    PROVE  DbMore'
<1>1. notified' \subseteq 1 .. dbLastId' /\ DbHas(w, lastPwd')
    BY DEF DbTyped, DbMore
<1> QED
    BY <1>1, DbTypedMoves

(* An install goes on or ends; what it reports is of its instance.          *)
LEMMA DbInstallMoves ==
    ASSUME DbTyped, NEW id \in DOMAIN tasks, NEW w, DbHas(w, lastPwd),
           UNCHANGED <<lastPwd, dbLastId>>, NEW at, Instances!Charge(at),
           \/ Instances!SetWorld(w) /\ notified' = notified
           \/ Instances!installFailed(id, w)
    PROVE  DbMore'
<1>1. id \in 1 .. dbLastId /\ notified \subseteq 1 .. dbLastId
    BY DEF DbTyped, DbMore, DbInv, DbIds
<1>2. notified' \subseteq 1 .. dbLastId' /\ lastPwd' = lastPwd
    BY <1>1 DEF Instances!installFailed
<1>3. DbHas(Instances!UpdateInstanceStatus(w, id, "failed"), lastPwd)
    BY DbHasRows
<1>4. \/ Instances!SetWorld(w)
      \/ Instances!SetWorld(Instances!UpdateInstanceStatus(w, id, "failed"))
    BY DEF Instances!installFailed
<1>5. DbHas(w, lastPwd') /\ DbHas(Instances!UpdateInstanceStatus(w, id, "failed"), lastPwd')
    BY <1>2, <1>3
<1> QED
    BY <1>2, <1>4, <1>5, DbTypedMoves

(* An install keeps the types.                                              *)
LEMMA DbInstallTyped ==
    ASSUME DbTyped, NEW id, Instances!Install(id)
    PROVE  DbMore'
<1> DEFINE w == Instances!World
           t == tasks[id]
           n == t.req.cname
           made == Instances!rtCreate(w, n, Instances!containerSpec(id, t.req, t.req.port, t.pwd))
           started == Instances!rtStart(w, n)
           runs == Instances!UpdateInstanceStatus(w, id, "running")
<1>1. /\ id \in DOMAIN tasks /\ UNCHANGED <<lastPwd, dbLastId>>
    BY DEF Instances!Install, Instances!InstallPrepare, Instances!InstallPull, Instances!InstallCreate,
           Instances!InstallStart, Instances!InstallWait
<1>2. DbHas(w, lastPwd)
    BY DbHasNow
<1>3. DbHas(made, lastPwd) /\ DbHas(started, lastPwd) /\ DbHas(runs, lastPwd)
    BY <1>2, DbHasBoxes, DbHasRows
<1>4. ASSUME NEW u \in {w, made, started, runs}, NEW at, Instances!Charge(at),
             \/ Instances!SetWorld(u) /\ notified' = notified
             \/ Instances!installFailed(id, u)
      PROVE  DbMore'
  <2> HIDE DEF w, made, started, runs
  <2>1. DbHas(u, lastPwd)
    BY <1>2, <1>3
  <2> QED
    BY <1>1, <1>4, <2>1, DbInstallMoves
<1>5. CASE Instances!InstallPrepare(id)
    BY <1>4, <1>5 DEF Instances!InstallPrepare, Instances!Advance
<1>6. CASE Instances!InstallPull(id)
    BY <1>4, <1>6 DEF Instances!InstallPull, Instances!Advance
<1>7. CASE Instances!InstallCreate(id)
    BY <1>4, <1>7 DEF Instances!InstallCreate, Instances!Advance
<1>8. CASE Instances!InstallStart(id)
    BY <1>4, <1>8 DEF Instances!InstallStart, Instances!Advance
<1>9. CASE Instances!InstallWait(id)
    BY <1>4, <1>9 DEF Instances!InstallWait
<1> QED
    BY <1>5, <1>6, <1>7, <1>8, <1>9 DEF Instances!Install

(* CreateInstance.                                                          *)
LEMMA DbCreatesTyped ==
    ASSUME DbTyped, NEW req \in Reqs, NEW at, Instances!CreateInstance(req, at)
    PROVE  DbMore'
<1> DEFINE id == dbLastId + 1
           row == [req |-> req, status |-> "installing", port |-> req.port, pwd |-> lastPwd + 1]
           v == Instances!repoCreateInstance(Instances!World, id, row)
           u == Instances!DeleteInstance(v, id)
<1>1. /\ Instances!Charge(at) /\ dbLastId' = id /\ lastPwd' = lastPwd + 1 /\ notified' = notified
      /\ Instances!SetWorld(v) \/ Instances!SetWorld(u)
    BY DEF Instances!CreateInstance
<1>2. dbLastId \in Nat /\ lastPwd \in Nat /\ notified \subseteq 1 .. dbLastId
    BY DEF DbTyped, DbMore, DbInv, DbTypes
<1>3. row \in DbRowsTo(lastPwd + 1)
    BY <1>2 DEF DbRowsTo, DbRowSet, DbPort
<1> HIDE DEF row
<1>4. DbHas(v, lastPwd + 1)
    BY <1>3, DbHasNow, DbHasRows
<1> HIDE DEF v
<1>5. DbHas(u, lastPwd + 1)
    BY <1>4, DbHasRows
<1> HIDE DEF u
<1>6. notified' \subseteq 1 .. dbLastId'
    BY <1>1, <1>2
<1> QED
    BY <1>1, <1>4, <1>5, <1>6, DbTypedMoves

(* CancelInstall.                                                           *)
LEMMA DbCancelsTyped ==
    ASSUME DbTyped, NEW id, NEW at, Instances!CancelInstall(id, at)
    PROVE  DbMore'
<1> DEFINE v == Instances!DeleteInstance(Instances!World, id)
           u == Instances!rtRemove(v, dbRows[id].req.cname)
<1>1. /\ Instances!Charge(at) /\ UNCHANGED <<dbLastId, lastPwd, notified>>
      /\ Instances!SetWorld(v) \/ Instances!SetWorld(u)
    BY DEF Instances!CancelInstall
<1>2. DbHas(v, lastPwd)
    BY DbHasNow, DbHasRows
<1> HIDE DEF v
<1>3. DbHas(u, lastPwd)
    BY <1>2, DbHasBoxes
<1> HIDE DEF u
<1> QED
    BY <1>1, <1>2, <1>3, DbQuietMoves

(* DeleteInstance.                                                          *)
LEMMA DbUninstallsTyped ==
    ASSUME DbTyped, NEW id, NEW purge, NEW at, Instances!UninstallInstance(id, purge, at)
    PROVE  DbMore'
<1> DEFINE w == Instances!World
           gone == Instances!rtRemove(w, dbRows[id].req.cname)
           removed == Instances!ClosePools(gone, id)
           emptied == [removed EXCEPT !.dirs = Instances!Without(@, dbRows[id].req.key)]
           one == Instances!DeleteInstance(removed, id)
           two == Instances!DeleteInstance(emptied, id)
<1>1. Instances!Charge(at) /\ UNCHANGED <<dbLastId, lastPwd, notified>>
    BY DEF Instances!UninstallInstance, Instances!Quiet
<1>2. \/ Instances!SetWorld(w) \/ Instances!SetWorld(removed) \/ Instances!SetWorld(emptied)
      \/ Instances!SetWorld(one) \/ Instances!SetWorld(two)
  <2> HIDE DEF w
  <2>1. LET purged == IF purge THEN emptied ELSE removed
        IN Instances!SetWorld(CASE at = "remove" -> w [] at = "purge" -> removed [] at = "row" -> purged
                                [] OTHER -> Instances!DeleteInstance(purged, id))
    BY DEF Instances!UninstallInstance, w
  <2>2. at \in {"none", "remove", "purge", "row"}
    BY DEF Instances!UninstallInstance
  <2> QED
    BY <2>1, <2>2
<1>3. DbHas(w, lastPwd)
    BY DbHasNow
<1> HIDE DEF w
<1>4. DbHas(gone, lastPwd)
    BY <1>3, DbHasBoxes
<1> HIDE DEF gone
<1>5. DbHas(removed, lastPwd)
    BY <1>4, DbHasBoxes
<1> HIDE DEF removed
<1>6. DbHas(emptied, lastPwd) /\ DbHas(one, lastPwd)
    BY <1>5, DbHasBoxes, DbHasRows
<1> HIDE DEF emptied, one
<1>7. DbHas(two, lastPwd)
    BY <1>6, DbHasRows
<1> HIDE DEF two
<1> QED
    BY <1>1, <1>2, <1>3, <1>5, <1>6, <1>7, DbQuietMoves

(* A container that is started leaves the rows their types.                 *)
LEMMA DbHasStarted ==
    ASSUME NEW w, NEW m, DbHas(w, m), NEW id, NEW at
    PROVE  DbHas(Instances!Started(w, id, at), m) /\ DbHas(Instances!rtRestart(w, id), m)
<1>1. DbHas(Instances!Healthy(w, dbRows[id].req.cname), m) /\ DbHas(Instances!rtStop(w, id), m)
    BY DbHasBoxes
<1>2. DbHas(Instances!UpdateInstanceStatus(Instances!Healthy(w, dbRows[id].req.cname), id, "running"), m)
    BY <1>1, DbHasRows
<1>3. DbHas(Instances!rtStart(Instances!rtStop(w, id), id), m)
    BY <1>1, DbHasBoxes
<1> QED
    BY <1>2, <1>3 DEF Instances!Started, Instances!rtRestart

(* StartInstance and StopInstance.                                          *)
LEMMA DbStartsTyped ==
    ASSUME DbTyped, NEW id, NEW at,
           \/ Instances!StartInstance(id, at) \/ Instances!RestartInstance(id, at)
           \/ Instances!StopInstance(id) \/ Instances!Query(id)
    PROVE  DbMore'
<1> DEFINE w == Instances!World
           n == dbRows[id].req.cname
           one == Instances!Started(Instances!rtStart(w, n), id, at)
           two == Instances!Started(Instances!rtRestart(w, n), id, at)
           three == Instances!UpdateInstanceStatus(Instances!rtStop(w, n), id, "stopped")
           four == Instances!poolFor(w, id)
<1>1. \E a : Instances!Charge(a)
    BY DEF Instances!StartInstance, Instances!RestartInstance, Instances!StopInstance, Instances!Query
<1>2. UNCHANGED <<dbLastId, lastPwd, notified>>
    BY DEF Instances!StartInstance, Instances!RestartInstance, Instances!StopInstance, Instances!Query,
           Instances!Quiet
<1>3. \/ Instances!SetWorld(one) \/ Instances!SetWorld(two) \/ Instances!SetWorld(three)
      \/ Instances!SetWorld(four)
    BY DEF Instances!StartInstance, Instances!RestartInstance, Instances!StopInstance, Instances!Query
<1>4. DbHas(w, lastPwd)
    BY DbHasNow
<1> HIDE DEF w
<1>5. /\ DbHas(Instances!rtStart(w, n), lastPwd) /\ DbHas(Instances!rtRestart(w, n), lastPwd)
      /\ DbHas(Instances!rtStop(w, n), lastPwd) /\ DbHas(four, lastPwd)
    BY <1>4, DbHasBoxes, DbHasStarted
<1>6. DbHas(one, lastPwd) /\ DbHas(two, lastPwd) /\ DbHas(three, lastPwd)
    BY <1>5, DbHasStarted, DbHasRows
<1> HIDE DEF one, two, three, four
<1> QED
    BY <1>1, <1>2, <1>3, <1>5, <1>6, DbQuietMoves

(* ListInstances reads the state of the containers.                         *)
LEMMA DbRefreshesTyped ==
    ASSUME DbTyped, Instances!RefreshStatus
    PROVE  DbMore'
<1>1. /\ dbRows' = [i \in DOMAIN dbRows |-> Instances!refreshInstanceStatus(dbRows[i])]
      /\ UNCHANGED <<dbFaults, dbLastId, lastPwd, notified>>
    BY DEF Instances!RefreshStatus, Instances!Quiet
<1>2. ASSUME NEW i \in DOMAIN dbRows
      PROVE  Instances!refreshInstanceStatus(dbRows[i]) \in DbRowsTo(lastPwd)
  <2> DEFINE s == Instances!containerStatus(dbRows[i].req.cname)
  <2>1. dbRows[i] \in DbRowsTo(lastPwd)
    BY DEF DbTyped, DbMore
  <2>2. s \in {"running", "unhealthy", "stopped"}
    BY DEF Instances!containerStatus
  <2>3. Instances!refreshInstanceStatus(dbRows[i]) \in {dbRows[i], [dbRows[i] EXCEPT !.status = s]}
    BY DEF Instances!refreshInstanceStatus
  <2> HIDE DEF s
  <2> QED
    BY <2>1, <2>2, <2>3 DEF DbRowsTo, DbRowSet
<1>3. dbRows' \in [DOMAIN dbRows' -> DbRowsTo(lastPwd)]
    BY <1>1, <1>2
<1>4. DbRowsTo(lastPwd)' = DbRowsTo(lastPwd)
    BY <1>1 DEF DbRowsTo, DbRowSet, DbPort
<1> QED
    BY <1>1, <1>3, <1>4 DEF DbTyped, DbMore

(* ResetInstancePassword.                                                   *)
LEMMA DbResetsTyped ==
    ASSUME DbTyped, NEW id, NEW at, Instances!ResetAdminPassword(id, at)
    PROVE  DbMore'
<1> DEFINE new == lastPwd + 1
           r == [dbRows EXCEPT ![id].pwd = new]
<1>1. /\ id \in DOMAIN dbRows /\ Instances!Charge(at) /\ lastPwd' = new
      /\ UNCHANGED <<dbLastId, notified>>
    BY DEF Instances!ResetAdminPassword
<1>2. dbRows' \in {dbRows, r}
    BY <1>1 DEF Instances!ResetAdminPassword, Instances!SetWorld, Instances!World,
       Instances!UpdateInstancePassword, Instances!Put
<1>3. lastPwd \in Nat /\ dbRows \in [DOMAIN dbRows -> DbRowsTo(new)]
    BY DbHasNow DEF DbHas, DbTyped, DbInv, DbTypes, Instances!World
<1>4. [dbRows[id] EXCEPT !.pwd = new] \in DbRowsTo(new)
    BY <1>1, <1>3 DEF DbRowsTo, DbRowSet
<1>5. r \in [DOMAIN r -> DbRowsTo(new)]
    BY <1>1, <1>3, <1>4
<1> HIDE DEF r, new
<1>6. dbRows' \in [DOMAIN dbRows' -> DbRowsTo(new)]
    BY <1>2, <1>3, <1>5
<1>7. DbRowsTo(lastPwd)' = DbRowsTo(new)
    BY <1>1 DEF DbRowsTo, DbRowSet, DbPort
<1>8. dbFaults' \in 0 .. DbMaxFaults /\ notified' \subseteq 1 .. dbLastId'
    BY <1>1, InstanceAssumption DEF DbTyped, DbMore, Instances!Charge, Instances!InstanceBounds
<1> QED
    BY <1>6, <1>7, <1>8 DEF DbMore

(* Steps of Docker and of the servers in the containers.                    *)
LEMMA DbServersTyped ==
    ASSUME DbTyped, NEW n, Instances!BoxHealthy(n) \/ Instances!BoxExits(n) \/ Instances!PanelRestarts
    PROVE  DbMore'
<1>1. CASE Instances!BoxExits(n)
  <2>1. /\ Instances!Charge("exit") /\ Instances!SetWorld(Instances!rtStop(Instances!World, n))
        /\ UNCHANGED <<dbLastId, lastPwd, notified>>
    BY <1>1 DEF Instances!BoxExits, Instances!Quiet
  <2>2. DbHas(Instances!rtStop(Instances!World, n), lastPwd)
    BY DbHasNow, DbHasBoxes
  <2> QED
    BY <2>1, <2>2, DbQuietMoves
<1>2. CASE Instances!BoxHealthy(n) \/ Instances!PanelRestarts
  <2>1. UNCHANGED <<dbRows, dbLastId, lastPwd, notified>> /\ dbFaults' \in 0 .. DbMaxFaults
    BY <1>2, InstanceAssumption DEF Instances!BoxHealthy, Instances!PanelRestarts, Instances!Quiet,
       DbTyped, DbMore, Instances!Charge, Instances!InstanceBounds
  <2>2. DbRowsTo(lastPwd)' = DbRowsTo(lastPwd)
    BY <2>1 DEF DbRowsTo, DbRowSet, DbPort
  <2> QED
    BY <2>1, <2>2 DEF DbTyped, DbMore
<1> QED
    BY <1>1, <1>2

(* SaveInstanceConfig.                                                      *)
LEMMA DbSavesTyped ==
    ASSUME DbTyped, NEW id, NEW p \in Ports, NEW restart, NEW at,
           Instances!SaveInstanceConfig(id, p, restart, at)
    PROVE  DbMore'
<1> DEFINE a == Instances!poolFor(Instances!World, id)
           v == dbRows[id]
           n == v.req.cname
           removed == Instances!rtRemove(a, n)
           created == Instances!rtCreate(removed, n, Instances!containerSpec(id, v.req, p, v.pwd))
           made == Instances!rtStart(created, n)
           healthy == Instances!Healthy(made, n)
           calm == Instances!ClosePools(healthy, id)
           moved == Instances!UpdateInstancePort(calm, id, p)
           again == Instances!rtRestart(a, n)
           started == Instances!Started(again, id, at)
<1>1. Instances!Charge(at) /\ UNCHANGED <<dbLastId, lastPwd, notified>>
    BY DEF Instances!SaveInstanceConfig, Instances!Quiet
<1>2. DbHas(a, lastPwd)
    BY DbHasNow, DbHasBoxes
<1>3. Instances!SetWorld(IF p # dbRows[id].port THEN Instances!recreateInstanceContainer(a, id, p, at)
                         ELSE IF restart THEN started ELSE a)
    BY DEF Instances!SaveInstanceConfig
<1> HIDE DEF a
<1>4. Instances!recreateInstanceContainer(a, id, p, at) =
         (CASE at = "remove" -> a [] at = "create" -> removed [] at = "wait" -> made [] OTHER -> moved)
    BY DEF Instances!recreateInstanceContainer
<1>5. at \in {"none", "remove", "create", "wait"}
    BY DEF Instances!SaveInstanceConfig
<1>6. DbHas(removed, lastPwd)
    BY <1>2, DbHasBoxes
<1> HIDE DEF removed
<1>7. DbHas(created, lastPwd)
    BY <1>6, DbHasBoxes
<1> HIDE DEF created
<1>8. DbHas(made, lastPwd)
    BY <1>7, DbHasBoxes
<1> HIDE DEF made
<1>9. DbHas(healthy, lastPwd)
    BY <1>8, DbHasBoxes
<1> HIDE DEF healthy
<1>10. DbHas(calm, lastPwd)
    BY <1>9, DbHasBoxes
<1> HIDE DEF calm
<1>11. DbHas(moved, lastPwd)
    BY <1>10, DbHasRows DEF DbPort
<1>12. DbHas(again, lastPwd)
    BY <1>2, DbHasStarted
<1> HIDE DEF again
<1>13. DbHas(started, lastPwd)
    BY <1>12, DbHasStarted
<1> HIDE DEF moved, started
<1>14. \/ Instances!SetWorld(a) \/ Instances!SetWorld(removed) \/ Instances!SetWorld(made)
       \/ Instances!SetWorld(moved) \/ Instances!SetWorld(started)
    BY <1>3, <1>4, <1>5
<1> QED
    BY <1>1, <1>2, <1>6, <1>8, <1>11, <1>13, <1>14, DbQuietMoves

(* The types are right at the start.                                        *)
LEMMA DbTypedInit == Init => DbMore
BY InstanceAssumption DEF Init, Instances!Init, DbMore, Instances!InstanceBounds

(* Every step keeps the types.                                              *)
LEMMA DbTypedStep == ASSUME DbTyped, Instances!Next PROVE DbMore'
<1>1. CASE Instances!PostInstance
    BY <1>1, DbCreatesTyped DEF Instances!PostInstance
<1>2. CASE Instances!ListInstances
    BY <1>2, DbRefreshesTyped DEF Instances!ListInstances
<1>3. CASE Instances!PanelRestarts
    BY <1>3, DbServersTyped
<1>4. ASSUME NEW id \in 1 .. DbMaxId, Instances!Install(id) PROVE DbMore'
    BY <1>4, DbInstallTyped
<1>5. ASSUME NEW id \in 1 .. DbMaxId, Instances!Query(id) PROVE DbMore'
    BY <1>5, DbStartsTyped
<1>6. ASSUME NEW id \in 1 .. DbMaxId, Instances!PostCancel(id) PROVE DbMore'
    BY <1>6, DbCancelsTyped DEF Instances!PostCancel
<1>7. ASSUME NEW id \in 1 .. DbMaxId, Instances!DeleteRequest(id) PROVE DbMore'
    BY <1>7, DbUninstallsTyped DEF Instances!DeleteRequest
<1>8. ASSUME NEW id \in 1 .. DbMaxId, Instances!PostPassword(id) PROVE DbMore'
    BY <1>8, DbResetsTyped DEF Instances!PostPassword
<1>9. ASSUME NEW id \in 1 .. DbMaxId,
             Instances!PostStart(id) \/ Instances!PostRestart(id) \/ Instances!PostStop(id)
      PROVE  DbMore'
    BY <1>9, DbStartsTyped DEF Instances!PostStart, Instances!PostRestart, Instances!PostStop
<1>11. ASSUME NEW id \in 1 .. DbMaxId, Instances!PutConfig(id) PROVE DbMore'
    BY <1>11, DbSavesTyped DEF Instances!PutConfig
<1>12. ASSUME NEW n \in DOMAIN boxes, Instances!BoxHealthy(n) \/ Instances!BoxExits(n) PROVE DbMore'
    BY <1>12, DbServersTyped
<1> QED
    BY <1>1, <1>2, <1>3, <1>4, <1>5, <1>6, <1>7, <1>8, <1>9, <1>11, <1>12 DEF Instances!Next

(* They are kept while the part does nothing.                               *)
LEMMA DbTypedStutter == ASSUME DbTyped, UNCHANGED dbVars PROVE DbMore'
<1>1. UNCHANGED <<dbRows, dbLastId, lastPwd, notified, dbFaults>>
    BY DEF dbVars
<1>2. DbRowsTo(lastPwd)' = DbRowsTo(lastPwd)
    BY <1>1 DEF DbRowsTo, DbRowSet, DbPort
<1> QED
    BY <1>1, <1>2 DEF DbTyped, DbMore

(* What the invariant says of types.                                        *)
LEMMA DbTypedShows == ASSUME DbTyped PROVE Instances!TypeOK
BY DEF DbTyped, DbMore, DbInv, DbTypes, DbIds, DbRowSet, DbRowsTo, DbBoxSet, DbTaskSet, Instances!TypeOK

-----------------------------------------------------------------------------
(* Backups and restores. As long as nothing failed, the row of a backup     *)
(* that runs is that of the task. While the instance is there, the panel    *)
(* was not restarted and no two restores ran at once, there is one restore  *)
(* at most; the dump of a backup is in place only while that restore is     *)
(* about to start the server; the dump kept aside is never one of a backup, *)
(* and it is there when the restore says that it kept one.                  *)
BkStatus == {"running", "success", "failed"}
BkDump == [ver : Nat, from : {"none", "server", "backup"}]
BkRow == [file : Nat, status : BkStatus]
BkTask == [id : Nat, file : Nat, pc : {"none", "dump", "copy"}]
BkRestore == [pc : {"read", "stop", "swap", "start"}, file : Nat, data : Nat, kept : BOOLEAN]

BkTypes ==
    /\ backupRows \in [DOMAIN backupRows -> BkRow] /\ restore \in [DOMAIN restore -> BkRestore]
    /\ files \in [DOMAIN files -> Nat] /\ backup \in BkTask
    /\ dump \in BkDump /\ pre \in BkDump /\ mem \in Nat /\ clock \in Nat
    /\ backupLastId \in Nat /\ backupFaults \in Nat
BkIds == DOMAIN backupRows \subseteq 1..backupLastId
BkRunning ==
    backupFaults = 0 => \A i \in DOMAIN backupRows : backupRows[i].status = "running" => backup.id = i
BkScope == ~overlap /\ ~backupCrashed /\ present
BkOne == BkScope => \A i, j \in DOMAIN restore : i = j
BkPlaced == BkScope /\ dump.from = "backup" => \E i \in DOMAIN restore : restore[i].pc = "start"
BkAside == BkScope => pre.from # "backup"
BkKept ==
    BkScope => \A i \in DOMAIN restore :
        restore[i].pc \in {"stop", "swap", "start"} /\ restore[i].kept => pre.from # "none"

BkInv == BkTypes /\ BkIds /\ BkRunning /\ BkOne /\ BkPlaced /\ BkAside /\ BkKept

(* What a step that fails costs.                                            *)
LEMMA BkCharge ==
    ASSUME BkInv, NEW at, Backups!Charge(at)
    PROVE  /\ backupFaults' \in Nat /\ (backupFaults' = 0 => backupFaults = 0)
           /\ at # "none" => backupFaults' # 0
BY DEF BkInv, BkTypes, Backups!Charge

(* A step that leaves the restores and the server as they are.              *)
LEMMA BkTableStep ==
    ASSUME BkInv, UNCHANGED <<restore, present, overlap, backupCrashed, dump, pre>>
    PROVE  BkOne' /\ BkPlaced' /\ BkAside' /\ BkKept'
BY DEF BkInv, BkOne, BkPlaced, BkAside, BkKept, BkScope

(* A step that leaves the rows and the task of the backup.                  *)
LEMMA BkServerStep ==
    ASSUME BkInv, UNCHANGED <<backupRows, backup, backupLastId>>, backupFaults' = 0 => backupFaults = 0
    PROVE  BkIds' /\ BkRunning'
BY DEF BkInv, BkIds, BkRunning

(* CreateBackup: the number is fresh, and another row runs only if its task *)
(* does.                                                                    *)
LEMMA BkCreates ==
    ASSUME BkInv, NEW at, Backups!CreateBackup(at)
    PROVE  BkInv'
<1> DEFINE id == backupLastId + 1
           started == backup.id = 0 /\ at = "none"
           row == [file |-> clock, status |-> IF started THEN "running" ELSE "failed"]
           task == [id |-> id, file |-> clock, pc |-> "dump"]
<1>1. /\ Backups!Charge(at) /\ backupLastId' = id /\ backupRows' = Backups!With(backupRows, id, row)
      /\ backup' = IF started THEN task ELSE backup
      /\ UNCHANGED <<present, files, restore, overlap, backupCrashed, mem, dump, pre, clock>>
    BY DEF Backups!CreateBackup, Backups!server
<1>2. backupLastId \in Nat /\ id \in Nat /\ clock \in Nat
    BY DEF BkInv, BkTypes
<1>3. row \in BkRow /\ task \in BkTask /\ task.id = id /\ (row.status = "running" <=> started)
    BY <1>2 DEF BkRow, BkTask, BkStatus
<1>4. id \notin DOMAIN backupRows
    BY <1>2 DEF BkInv, BkIds
<1>5. backupFaults' \in Nat /\ (backupFaults' = 0 => backupFaults = 0)
    BY <1>1, BkCharge
<1> HIDE DEF row, task
<1>6. /\ DOMAIN backupRows' = DOMAIN backupRows \cup {id} /\ backupRows'[id] = row
      /\ \A i \in DOMAIN backupRows : backupRows'[i] = backupRows[i]
    BY <1>1, <1>4 DEF Backups!With
<1>7. backupRows' \in [DOMAIN backupRows' -> BkRow]
    BY <1>1, <1>3 DEF Backups!With, BkInv, BkTypes
<1>8. backup' \in BkTask
    BY <1>1, <1>3 DEF BkInv, BkTypes
<1>9. BkTypes'
    BY <1>1, <1>2, <1>5, <1>7, <1>8 DEF BkInv, BkTypes
<1>10. BkIds'
    BY <1>1, <1>2, <1>6 DEF BkInv, BkIds
<1>11. BkRunning'
  <2> SUFFICES ASSUME backupFaults' = 0, NEW i \in DOMAIN backupRows', backupRows'[i].status = "running"
               PROVE  backup'.id = i
    BY DEF BkRunning
  <2>1. CASE i = id
    BY <1>1, <1>3, <1>6, <2>1
  <2>2. CASE i # id
    <3>1. i \in DOMAIN backupRows /\ backupRows[i].status = "running"
        BY <1>6, <2>2
    <3>2. backup.id = i /\ i \in 1..backupLastId
        BY <1>5, <3>1 DEF BkInv, BkRunning, BkIds
    <3>3. backup.id # 0
        BY <1>2, <3>2
    <3> QED
        BY <1>1, <3>2, <3>3
  <2> QED
    BY <2>1, <2>2
<1> QED
    BY <1>1, <1>9, <1>10, <1>11, BkTableStep DEF BkInv

(* The task of the backup ends; the row says how unless that cannot be      *)
(* saved, which is a failure.                                               *)
LEMMA BkExecutes ==
    ASSUME BkInv, NEW s \in {"success", "failed"}, NEW f, f \in [DOMAIN f -> Nat],
           NEW at, Backups!executeBackup(s, f, at), Backups!Charge(at),
           UNCHANGED <<present, backupLastId, restore, overlap, backupCrashed, mem, dump, pre, clock>>
    PROVE  BkInv'
<1>1. /\ backupRows' = IF at = "save" THEN backupRows ELSE Backups!UpdateBackupStatus(backup.id, s)
      /\ files' = f /\ backup' = Backups!NoTask
    BY DEF Backups!executeBackup
<1>2. /\ backupFaults' \in Nat /\ (backupFaults' = 0 => backupFaults = 0)
      /\ (at # "none" => backupFaults' # 0)
    BY BkCharge
<1>3. backup' \in BkTask
    BY <1>1 DEF Backups!NoTask, BkTask
<1>4. backupRows \in [DOMAIN backupRows -> BkRow]
    BY DEF BkInv, BkTypes
<1>5. /\ backupRows' \in [DOMAIN backupRows -> BkRow]
      /\ \A i \in DOMAIN backupRows : i # backup.id => backupRows'[i] = backupRows[i]
      /\ at # "save" /\ backup.id \in DOMAIN backupRows => backupRows'[backup.id].status = s
  <2>1. CASE at = "save" \/ backup.id \notin DOMAIN backupRows
    BY <1>1, <1>4, <2>1 DEF Backups!UpdateBackupStatus
  <2>2. CASE at # "save" /\ backup.id \in DOMAIN backupRows
    <3>1. backupRows' = [backupRows EXCEPT ![backup.id].status = s]
        BY <1>1, <2>2 DEF Backups!UpdateBackupStatus
    <3>2. backupRows[backup.id] \in BkRow
        BY <1>4, <2>2
    <3>3. [backupRows[backup.id] EXCEPT !.status = s] \in BkRow
        BY <3>2 DEF BkRow, BkStatus
    <3> QED
        BY <1>4, <2>2, <3>1, <3>2, <3>3 DEF BkRow
  <2> QED
    BY <2>1, <2>2
<1>6. BkTypes'
    BY <1>1, <1>2, <1>3, <1>5 DEF BkInv, BkTypes
<1>7. BkIds'
    BY <1>5 DEF BkInv, BkIds
<1>8. BkRunning'
    BY <1>2, <1>5 DEF BkInv, BkRunning
<1> QED
    BY <1>6, <1>7, <1>8, BkTableStep DEF BkInv

(* A dump of PostgreSQL or MySQL.                                           *)
LEMMA BkDumps ==
    ASSUME BkInv, NEW at, Backups!backupSQL(at)
    PROVE  BkInv'
<1> DEFINE part0 == Backups!With(files, backup.file, 0)
           whole == Backups!With(files, backup.file, mem)
<1>1. /\ Backups!Charge(at)
      /\ UNCHANGED <<present, backupLastId, restore, overlap, backupCrashed, mem, dump, pre, clock>>
      /\ \/ Backups!executeBackup("failed", part0, at)
         \/ Backups!executeBackup("failed", files, at)
         \/ Backups!executeBackup("success", whole, at)
    BY DEF Backups!backupSQL, Backups!server
<1>2. /\ files \in [DOMAIN files -> Nat] /\ part0 \in [DOMAIN part0 -> Nat]
      /\ whole \in [DOMAIN whole -> Nat]
    BY DEF BkInv, BkTypes, Backups!With
<1> HIDE DEF part0, whole
<1>3. CASE Backups!executeBackup("failed", part0, at)
    BY <1>1, <1>2, <1>3, BkExecutes
<1>4. CASE Backups!executeBackup("failed", files, at)
    BY <1>1, <1>2, <1>4, BkExecutes
<1>5. CASE Backups!executeBackup("success", whole, at)
    BY <1>1, <1>2, <1>5, BkExecutes
<1> QED
    BY <1>1, <1>3, <1>4, <1>5

(* Redis is asked to save.                                                  *)
LEMMA BkSaves ==
    ASSUME BkInv, Backups!backupRedisSave
    PROVE  BkInv'
<1>1. /\ Backups!Charge("none")
      /\ UNCHANGED <<present, backupLastId, restore, overlap, backupCrashed, mem, dump, pre, clock>>
      /\ \/ backup' = [backup EXCEPT !.pc = "copy"] /\ UNCHANGED <<backupRows, files>>
         \/ Backups!executeBackup("failed", files, "none")
    BY DEF Backups!backupRedisSave, Backups!server
<1>2. CASE Backups!executeBackup("failed", files, "none")
  <2>1. files \in [DOMAIN files -> Nat]
    BY DEF BkInv, BkTypes
  <2> QED
    BY <1>1, <1>2, <2>1, BkExecutes
<1>3. CASE backup' = [backup EXCEPT !.pc = "copy"] /\ UNCHANGED <<backupRows, files>>
  <2>1. backup' \in BkTask /\ backup'.id = backup.id
    BY <1>3 DEF BkInv, BkTypes, BkTask
  <2>2. backupFaults' \in Nat /\ (backupFaults' = 0 => backupFaults = 0)
    BY <1>1, BkCharge
  <2>3. BkTypes' /\ BkIds'
    BY <1>1, <1>3, <2>1, <2>2 DEF BkInv, BkTypes, BkIds
  <2>4. BkRunning'
    BY <1>1, <1>3, <2>1, <2>2 DEF BkInv, BkRunning
  <2> QED
    BY <1>1, <2>3, <2>4, BkTableStep DEF BkInv
<1> QED
    BY <1>1, <1>2, <1>3

(* The dump of Redis is copied.                                             *)
LEMMA BkCopies ==
    ASSUME BkInv, NEW at, Backups!backupRedisCopy(at)
    PROVE  BkInv'
<1> DEFINE whole == Backups!With(files, backup.file, dump.ver)
<1>1. /\ Backups!Charge(at)
      /\ UNCHANGED <<present, backupLastId, restore, overlap, backupCrashed, mem, dump, pre, clock>>
      /\ \/ Backups!executeBackup("failed", files, at)
         \/ Backups!executeBackup("success", whole, at)
    BY DEF Backups!backupRedisCopy, Backups!server
<1>2. dump.ver \in Nat
    BY DEF BkInv, BkTypes, BkDump
<1>3. files \in [DOMAIN files -> Nat] /\ whole \in [DOMAIN whole -> Nat]
    BY <1>2 DEF BkInv, BkTypes, Backups!With
<1> HIDE DEF whole
<1>4. CASE Backups!executeBackup("failed", files, at)
    BY <1>1, <1>3, <1>4, BkExecutes
<1>5. CASE Backups!executeBackup("success", whole, at)
    BY <1>1, <1>3, <1>5, BkExecutes
<1> QED
    BY <1>1, <1>4, <1>5

(* DeleteBackup.                                                            *)
LEMMA BkDeletes ==
    ASSUME BkInv, NEW id, Backups!DeleteBackup(id)
    PROVE  BkInv'
<1>1. /\ Backups!Charge("none") /\ files' = Backups!Without(files, backupRows[id].file)
      /\ backupRows' \in {backupRows, Backups!Without(backupRows, id)}
      /\ UNCHANGED <<present, backupLastId, backup, restore, overlap, backupCrashed, mem, dump, pre, clock>>
    BY DEF Backups!DeleteBackup, Backups!server
<1>2. backupFaults' \in Nat /\ (backupFaults' = 0 => backupFaults = 0)
    BY <1>1, BkCharge
<1>3. files' \in [DOMAIN files' -> Nat]
    BY <1>1 DEF BkInv, BkTypes, Backups!Without
<1>4. /\ backupRows' \in [DOMAIN backupRows' -> BkRow] /\ DOMAIN backupRows' \subseteq DOMAIN backupRows
      /\ \A i \in DOMAIN backupRows' : backupRows'[i] = backupRows[i]
    BY <1>1 DEF BkInv, BkTypes, Backups!Without
<1>5. BkTypes' /\ BkIds'
    BY <1>1, <1>2, <1>3, <1>4 DEF BkInv, BkTypes, BkIds
<1>6. BkRunning'
    BY <1>1, <1>2, <1>4 DEF BkInv, BkRunning
<1> QED
    BY <1>1, <1>5, <1>6, BkTableStep DEF BkInv

(* A restore is asked for. The first one leaves no dump of a backup behind, *)
(* so that the second may start.                                            *)
LEMMA BkPosts ==
    ASSUME BkInv, NEW id, NEW at, Backups!RestoreBackup(id, at)
    PROVE  BkInv'
<1> DEFINE new == [pc |-> "read", file |-> backupRows[id].file, data |-> 0, kept |-> FALSE]
<1>1. /\ id \in DOMAIN backupRows /\ Backups!Charge(at)
      /\ UNCHANGED <<present, backupRows, backupLastId, files, backup, backupCrashed, mem, dump, pre, clock>>
      /\ \/ UNCHANGED <<restore, overlap>>
         \/ /\ id \notin DOMAIN restore /\ restore' = Backups!With(restore, id, new)
            /\ overlap' = (overlap \/ DOMAIN restore # {})
    BY DEF Backups!RestoreBackup, Backups!server
<1>2. backupFaults' \in Nat /\ (backupFaults' = 0 => backupFaults = 0)
    BY <1>1, BkCharge
<1>3. BkIds' /\ BkRunning'
    BY <1>1, <1>2, BkServerStep
<1>4. CASE UNCHANGED <<restore, overlap>>
  <2>1. BkTypes'
    BY <1>1, <1>2, <1>4 DEF BkInv, BkTypes
  <2> QED
    BY <1>1, <1>3, <1>4, <2>1, BkTableStep DEF BkInv
<1>5. CASE /\ id \notin DOMAIN restore /\ restore' = Backups!With(restore, id, new)
           /\ overlap' = (overlap \/ DOMAIN restore # {})
  <2>1. backupRows[id] \in BkRow
    BY <1>1 DEF BkInv, BkTypes
  <2>2. new \in BkRestore /\ new.pc = "read"
    BY <2>1 DEF BkRow, BkRestore
  <2> HIDE DEF new
  <2>3. restore' \in [DOMAIN restore' -> BkRestore]
    BY <1>5, <2>2 DEF BkInv, BkTypes, Backups!With
  <2>4. BkTypes'
    BY <1>1, <1>2, <2>3 DEF BkInv, BkTypes
  <2>5. DOMAIN restore' = DOMAIN restore \cup {id} /\ restore'[id] = new
        /\ \A i \in DOMAIN restore : restore'[i] = restore[i]
    BY <1>5 DEF Backups!With
  <2>6. BkScope' => BkScope /\ DOMAIN restore = {}
    BY <1>1, <1>5 DEF BkScope
  <2>7. BkOne' /\ BkKept'
    BY <2>2, <2>5, <2>6 DEF BkOne, BkKept
  <2>8. BkPlaced' /\ BkAside'
    BY <1>1, <2>6 DEF BkInv, BkPlaced, BkAside
  <2> QED
    BY <1>3, <2>4, <2>7, <2>8 DEF BkInv
<1> QED
    BY <1>1, <1>4, <1>5

(* In the scope the restore that takes a step is the only one.              *)
LEMMA BkAlone ==
    ASSUME BkInv, NEW id \in DOMAIN restore, BkScope
    PROVE  DOMAIN restore = {id} /\ (restore[id].pc # "start" => dump.from # "backup")
BY DEF BkInv, BkOne, BkPlaced

(* A restore ends: the dump in place is not one of a backup.                *)
LEMMA BkRestoreEnds ==
    ASSUME BkInv, NEW id \in DOMAIN restore, NEW s, Backups!restoreEnds(id, s),
           NEW at, Backups!Charge(at), mem' \in Nat, dump' \in BkDump, pre' \in BkDump,
           BkScope => dump'.from # "backup" /\ pre'.from # "backup",
           UNCHANGED <<present, backupRows, backupLastId, files, backup, clock, overlap, backupCrashed>>
    PROVE  BkInv'
<1>1. restore' = Backups!Without(restore, id)
    BY DEF Backups!restoreEnds
<1>2. backupFaults' \in Nat /\ (backupFaults' = 0 => backupFaults = 0)
    BY BkCharge
<1>3. BkIds' /\ BkRunning'
    BY <1>2, BkServerStep
<1>4. restore' \in [DOMAIN restore' -> BkRestore] /\ DOMAIN restore' = DOMAIN restore \ {id}
    BY <1>1 DEF BkInv, BkTypes, Backups!Without
<1>5. BkTypes'
    BY <1>2, <1>4 DEF BkInv, BkTypes
<1>6. BkScope' <=> BkScope
    BY DEF BkScope
<1>7. BkScope => DOMAIN restore' = {}
    BY <1>4, BkAlone
<1>8. BkOne' /\ BkKept'
    BY <1>6, <1>7 DEF BkOne, BkKept
<1>9. BkPlaced' /\ BkAside'
    BY <1>6 DEF BkPlaced, BkAside
<1> QED
    BY <1>3, <1>5, <1>8, <1>9 DEF BkInv

(* A restore goes on: r is what becomes of it.                              *)
LEMMA BkRestoreGoes ==
    ASSUME BkInv, NEW id \in DOMAIN restore, NEW r \in BkRestore, restore' = [restore EXCEPT ![id] = r],
           NEW at, Backups!Charge(at), mem' \in Nat, dump' \in BkDump, pre' \in BkDump,
           BkScope => /\ dump'.from = "backup" => r.pc = "start"
                      /\ pre'.from # "backup"
                      /\ r.pc \in {"stop", "swap", "start"} /\ r.kept => pre'.from # "none",
           UNCHANGED <<present, backupRows, backupLastId, files, backup, clock, overlap, backupCrashed>>
    PROVE  BkInv'
<1>2. backupFaults' \in Nat /\ (backupFaults' = 0 => backupFaults = 0)
    BY BkCharge
<1>3. BkIds' /\ BkRunning'
    BY <1>2, BkServerStep
<1>4. restore' \in [DOMAIN restore' -> BkRestore] /\ DOMAIN restore' = DOMAIN restore /\ restore'[id] = r
    BY DEF BkInv, BkTypes
<1>5. BkTypes'
    BY <1>2, <1>4 DEF BkInv, BkTypes
<1>6. BkScope' <=> BkScope
    BY DEF BkScope
<1>7. BkScope => DOMAIN restore' = {id}
    BY <1>4, BkAlone
<1>8. BkOne' /\ BkKept'
    BY <1>4, <1>6, <1>7 DEF BkOne, BkKept
<1>9. BkPlaced' /\ BkAside'
    BY <1>4, <1>6, <1>7 DEF BkPlaced, BkAside
<1> QED
    BY <1>3, <1>5, <1>8, <1>9 DEF BkInv

(* The types of what the server holds.                                      *)
LEMMA BkHeld ==
    ASSUME BkInv
    PROVE  /\ dump \in BkDump /\ pre \in BkDump /\ mem \in Nat /\ dump.ver \in Nat
           /\ Backups!NoDump \in BkDump /\ Backups!NoDump.from = "none"
           /\ Backups!Half \in Nat /\ (BkScope => pre.from # "backup")
           /\ \A i \in DOMAIN restore : restore[i] \in BkRestore
           /\ \A f \in DOMAIN files : files[f] \in Nat
<1>1. Backups!NoDump \in BkDump /\ Backups!NoDump.from = "none"
    BY DEF Backups!NoDump, BkDump
<1>2. Backups!Half \in Nat
    BY BackupAssumption DEF Backups!Half, Backups!BackupBounds
<1> QED
    BY <1>1, <1>2 DEF BkInv, BkTypes, BkAside, BkDump

(* A restore of PostgreSQL or MySQL.                                        *)
LEMMA BkLoads ==
    ASSUME BkInv, NEW id, NEW at, Backups!restoreSQL(id, at)
    PROVE  BkInv'
<1>1. /\ id \in DOMAIN restore /\ restore[id].pc = "read" /\ Backups!Charge(at)
      /\ UNCHANGED <<present, backupRows, backupLastId, files, backup, clock, overlap, backupCrashed, dump, pre>>
    BY DEF Backups!restoreSQL, Backups!Step, Backups!RestoreStep
<1>2. \/ Backups!restoreEnds(id, "failed") /\ mem' \in {mem, Backups!Half}
      \/ Backups!restoreEnds(id, "success") /\ mem' = files[restore[id].file] /\ Backups!Readable(id)
    BY DEF Backups!restoreSQL
<1>3. mem' \in Nat /\ (Backups!restoreEnds(id, "failed") \/ Backups!restoreEnds(id, "success"))
    BY <1>2, BkHeld DEF Backups!Readable
<1>4. dump' \in BkDump /\ pre' \in BkDump /\ (BkScope => dump'.from # "backup" /\ pre'.from # "backup")
    BY <1>1, BkHeld, BkAlone
<1> QED
    BY <1>1, <1>3, <1>4, BkRestoreEnds

(* The file is read and the present dump kept aside.                        *)
LEMMA BkReads ==
    ASSUME BkInv, NEW id, NEW at, Backups!restoreRedisRead(id, at)
    PROVE  BkInv'
<1>1. /\ id \in DOMAIN restore /\ restore[id].pc = "read" /\ Backups!Charge(at)
      /\ UNCHANGED <<present, backupRows, backupLastId, files, backup, clock, overlap, backupCrashed, dump, mem>>
    BY DEF Backups!restoreRedisRead, Backups!Step, Backups!RestoreStep
<1> DEFINE r == [restore[id] EXCEPT !.pc = "stop", !.data = files[restore[id].file], !.kept = (dump.from # "none")]
<1>2. \/ Backups!restoreEnds(id, "failed") /\ pre' = pre
      \/ /\ Backups!Readable(id) /\ pre' = IF dump.from = "none" THEN pre ELSE dump
         /\ restore' = [restore EXCEPT ![id] = r]
    BY <1>1 DEF Backups!restoreRedisRead
<1>3. dump' \in BkDump /\ mem' \in Nat /\ (BkScope => dump'.from # "backup")
    BY <1>1, BkHeld, BkAlone
<1>4. CASE Backups!restoreEnds(id, "failed") /\ pre' = pre
    BY <1>1, <1>3, <1>4, BkHeld, BkRestoreEnds
<1>5. CASE /\ Backups!Readable(id) /\ pre' = IF dump.from = "none" THEN pre ELSE dump
           /\ restore' = [restore EXCEPT ![id] = r]
  <2>1. restore[id] \in BkRestore /\ files[restore[id].file] \in Nat
    BY <1>1, <1>5, BkHeld DEF Backups!Readable
  <2>2. r \in BkRestore /\ r.pc = "stop" /\ r.kept = (dump.from # "none")
    BY <2>1 DEF BkRestore
  <2> HIDE DEF r
  <2>3. pre' \in BkDump /\ (BkScope => pre'.from # "backup" /\ (r.kept => pre'.from # "none"))
    BY <1>1, <1>3, <1>5, <2>2, BkHeld
  <2> QED
    BY <1>1, <1>3, <1>5, <2>2, <2>3, BkRestoreGoes
<1> QED
    BY <1>2, <1>4, <1>5

(* Only the control of a restore changes.                                   *)
LEMMA BkProceeds ==
    ASSUME BkInv, NEW id \in DOMAIN restore, NEW pc \in {"swap", "start"}, Backups!Proceed(id, pc),
           restore[id].pc \in {"stop", "swap"}
    PROVE  \E r \in BkRestore : /\ restore' = [restore EXCEPT ![id] = r] /\ r.pc = pc
                                /\ r.kept => (BkScope => pre.from # "none")
<1> DEFINE r == [restore[id] EXCEPT !.pc = pc]
<1>1. restore' = [restore EXCEPT ![id] = r]
    BY DEF Backups!Proceed
<1>2. r \in BkRestore /\ r.pc = pc /\ r.kept = restore[id].kept
    BY BkHeld DEF BkRestore
<1>3. restore[id].kept => (BkScope => pre.from # "none")
    BY DEF BkInv, BkKept
<1> HIDE DEF r
<1> QED
    BY <1>1, <1>2, <1>3

(* Redis is stopped.                                                        *)
LEMMA BkStops ==
    ASSUME BkInv, NEW id, NEW at, Backups!restoreRedisStop(id, at)
    PROVE  BkInv'
<1> DEFINE d == [ver |-> mem, from |-> "server"]
<1>1. /\ id \in DOMAIN restore /\ restore[id].pc = "stop" /\ Backups!Charge(at) /\ mem' = mem
      /\ UNCHANGED <<present, backupRows, backupLastId, files, backup, clock, overlap, backupCrashed>>
    BY DEF Backups!restoreRedisStop, Backups!Step, Backups!RestoreStep
<1>2. \/ Backups!restoreEnds(id, "failed") /\ pre' = Backups!NoDump /\ dump' = dump
      \/ Backups!Proceed(id, "swap") /\ pre' = pre /\ dump' \in {d, dump}
    BY DEF Backups!restoreRedisStop
<1>3. d \in BkDump /\ d.from = "server"
    BY BkHeld DEF BkDump
<1> HIDE DEF d
<1>4. dump' \in BkDump /\ mem' \in Nat /\ (BkScope => dump'.from # "backup")
    BY <1>1, <1>2, <1>3, BkHeld, BkAlone
<1>5. CASE Backups!restoreEnds(id, "failed") /\ pre' = Backups!NoDump
    BY <1>1, <1>4, <1>5, BkHeld, BkRestoreEnds
<1>6. CASE Backups!Proceed(id, "swap") /\ pre' = pre
  <2>1. PICK r \in BkRestore : /\ restore' = [restore EXCEPT ![id] = r] /\ r.pc = "swap"
                               /\ r.kept => (BkScope => pre.from # "none")
    BY <1>1, <1>6, BkProceeds
  <2>2. pre' \in BkDump /\ (BkScope => pre'.from # "backup" /\ (r.kept => pre'.from # "none"))
    BY <1>6, <2>1, BkHeld
  <2> QED
    BY <1>1, <1>4, <2>1, <2>2, BkRestoreGoes
<1> QED
    BY <1>2, <1>5, <1>6

(* The dump of the backup is put in place.                                  *)
LEMMA BkSwaps ==
    ASSUME BkInv, NEW id, NEW at, Backups!restoreRedisSwap(id, at)
    PROVE  BkInv'
<1> DEFINE d == [ver |-> restore[id].data, from |-> "backup"]
<1>1. /\ id \in DOMAIN restore /\ restore[id].pc = "swap" /\ Backups!Charge(at)
      /\ UNCHANGED <<present, backupRows, backupLastId, files, backup, clock, overlap, backupCrashed>>
    BY DEF Backups!restoreRedisSwap, Backups!Step, Backups!RestoreStep
<1>2. \/ Backups!restoreEnds(id, "failed") /\ pre' = Backups!NoDump /\ dump' = dump /\ mem' \in {mem, dump.ver}
      \/ Backups!Proceed(id, "start") /\ pre' = pre /\ dump' = d /\ mem' = mem
    BY DEF Backups!restoreRedisSwap
<1>3. restore[id] \in BkRestore
    BY <1>1, BkHeld
<1>4. d \in BkDump
    BY <1>3 DEF BkDump, BkRestore
<1> HIDE DEF d
<1>5. CASE Backups!restoreEnds(id, "failed") /\ pre' = Backups!NoDump /\ dump' = dump /\ mem' \in {mem, dump.ver}
  <2>1. dump' \in BkDump /\ pre' \in BkDump /\ mem' \in Nat
    BY <1>5, BkHeld
  <2>2. BkScope => dump'.from # "backup" /\ pre'.from # "backup"
    BY <1>1, <1>5, BkHeld, BkAlone
  <2> QED
    BY <1>1, <1>5, <2>1, <2>2, BkRestoreEnds
<1>6. CASE Backups!Proceed(id, "start") /\ pre' = pre /\ dump' = d /\ mem' = mem
  <2>1. PICK r \in BkRestore : /\ restore' = [restore EXCEPT ![id] = r] /\ r.pc = "start"
                               /\ r.kept => (BkScope => pre.from # "none")
    BY <1>1, <1>6, BkProceeds
  <2>2. pre' \in BkDump /\ (BkScope => pre'.from # "backup" /\ (r.kept => pre'.from # "none"))
    BY <1>6, <2>1, BkHeld
  <2>3. dump' \in BkDump /\ mem' \in Nat
    BY <1>4, <1>6, BkHeld
  <2> QED
    BY <1>1, <2>1, <2>2, <2>3, BkRestoreGoes
<1> QED
    BY <1>2, <1>5, <1>6

(* The server starts with the dump of the backup, or the dump kept aside    *)
(* goes back: it is there when the restore kept one.                        *)
LEMMA BkStarts ==
    ASSUME BkInv, NEW id, NEW at, Backups!restoreRedisStart(id, at)
    PROVE  BkInv'
<1> DEFINE d == [dump EXCEPT !.from = "server"]
<1>1. /\ id \in DOMAIN restore /\ restore[id].pc = "start" /\ Backups!Charge(at) /\ pre' = Backups!NoDump
      /\ UNCHANGED <<present, backupRows, backupLastId, files, backup, clock, overlap, backupCrashed>>
    BY DEF Backups!restoreRedisStart, Backups!Step, Backups!RestoreStep
<1>2. \/ Backups!restoreEnds(id, "success") /\ dump' = d /\ mem' = dump.ver
      \/ /\ Backups!restoreEnds(id, "failed") /\ mem' = mem
         /\ dump' = IF restore[id].kept /\ pre.from = "none" THEN dump ELSE pre
    BY DEF Backups!restoreRedisStart
<1>3. d \in BkDump /\ d.from = "server"
    BY BkHeld DEF BkDump
<1> HIDE DEF d
<1>4. BkScope /\ restore[id].kept => pre.from # "none"
    BY <1>1 DEF BkInv, BkKept
<1>5. dump' \in BkDump /\ mem' \in Nat /\ pre' \in BkDump
    BY <1>1, <1>2, <1>3, BkHeld
<1>6. BkScope => dump'.from # "backup" /\ pre'.from # "backup"
    BY <1>1, <1>2, <1>3, <1>4, BkHeld
<1> QED
    BY <1>1, <1>2, <1>5, <1>6, BkRestoreEnds

(* The instance goes, or the panel is restarted: nothing more is said of the *)
(* dump, and no row is left that says a backup runs.                        *)
LEMMA BkUninstalls ==
    ASSUME BkInv, NEW purge, Backups!UninstallInstance(purge)
    PROVE  BkInv'
<1>1. /\ present' = FALSE /\ backupRows' = [i \in {} |-> 0] /\ files' \in {files, [f \in {} |-> 0]}
      /\ dump' \in {dump, Backups!NoDump} /\ pre' \in {pre, Backups!NoDump}
      /\ UNCHANGED <<backupLastId, backup, restore, mem, clock, overlap, backupCrashed, backupFaults>>
    BY DEF Backups!UninstallInstance
<1>2. /\ dump' \in BkDump /\ pre' \in BkDump /\ DOMAIN backupRows' = {} /\ backupRows' \in [{} -> BkRow]
      /\ files' \in [DOMAIN files' -> Nat]
    BY <1>1, BkHeld DEF BkInv, BkTypes
<1>3. BkTypes' /\ BkIds' /\ BkRunning'
    BY <1>1, <1>2 DEF BkInv, BkTypes, BkIds, BkRunning
<1>4. BkOne' /\ BkPlaced' /\ BkAside' /\ BkKept'
    BY <1>1 DEF BkOne, BkPlaced, BkAside, BkKept, BkScope
<1> QED
    BY <1>3, <1>4 DEF BkInv

(* The panel is restarted: SweepOrphanBackups leaves no row that runs.      *)
LEMMA BkPanelRestarts ==
    ASSUME BkInv, Backups!PanelRestarts
    PROVE  BkInv'
<1>1. /\ backupCrashed' = TRUE /\ backupRows' = Backups!SweepOrphanBackups /\ backup' = Backups!NoTask
      /\ restore' = [i \in {} |-> 0]
      /\ UNCHANGED <<present, backupLastId, files, overlap, backupFaults, mem, dump, pre, clock>>
    BY DEF Backups!PanelRestarts, Backups!server
<1>2. backup' \in BkTask /\ DOMAIN restore' = {} /\ restore' \in [{} -> BkRestore]
    BY <1>1 DEF Backups!NoTask, BkTask
<1>3. \A i \in DOMAIN backupRows :
        LET row == IF backupRows[i].status = "running" THEN [backupRows[i] EXCEPT !.status = "failed"]
                   ELSE backupRows[i]
        IN row \in BkRow /\ row.status # "running"
    BY DEF BkInv, BkTypes, BkRow, BkStatus
<1>4. /\ backupRows' \in [DOMAIN backupRows -> BkRow] /\ DOMAIN backupRows' = DOMAIN backupRows
      /\ \A i \in DOMAIN backupRows : backupRows'[i].status # "running"
    BY <1>1, <1>3 DEF Backups!SweepOrphanBackups
<1>5. BkTypes' /\ BkIds' /\ BkRunning'
    BY <1>1, <1>2, <1>4 DEF BkInv, BkTypes, BkIds, BkRunning
<1>6. BkOne' /\ BkPlaced' /\ BkAside' /\ BkKept'
    BY <1>1 DEF BkOne, BkPlaced, BkAside, BkKept, BkScope
<1> QED
    BY <1>5, <1>6 DEF BkInv

(* The server writes and saves, and time goes by.                           *)
LEMMA BkServer ==
    ASSUME BkInv, Backups!Write \/ Backups!Save \/ Backups!Tick
    PROVE  BkInv'
<1> DEFINE d == [ver |-> mem, from |-> "server"]
<1>1. /\ mem' \in {mem, mem + 1} /\ clock' \in {clock, clock + 1} /\ dump' \in {dump, d}
      /\ UNCHANGED <<present, backupRows, backupLastId, files, backup, restore, pre, overlap, backupCrashed, backupFaults>>
    BY DEF Backups!Write, Backups!Save, Backups!Tick, Backups!panel
<1>2. d \in BkDump /\ d.from = "server"
    BY BkHeld DEF BkDump
<1> HIDE DEF d
<1>3. mem' \in Nat /\ clock' \in Nat /\ dump' \in BkDump
    BY <1>1, <1>2 DEF BkInv, BkTypes
<1>4. BkTypes' /\ BkIds' /\ BkRunning'
    BY <1>1, <1>3, BkServerStep DEF BkInv, BkTypes
<1>5. BkOne' /\ BkAside' /\ BkKept'
    BY <1>1 DEF BkInv, BkOne, BkAside, BkKept, BkScope
<1>6. BkPlaced'
    BY <1>1, <1>2 DEF BkInv, BkPlaced, BkScope
<1> QED
    BY <1>4, <1>5, <1>6 DEF BkInv

(* Every step of the part keeps the invariant.                              *)
LEMMA BkStep == BkInv /\ Backups!Next => BkInv'
<1> SUFFICES ASSUME BkInv, Backups!Next PROVE BkInv'
    OBVIOUS
<1>1. CASE Backups!PostBackup
    BY <1>1, BkCreates DEF Backups!PostBackup
<1>2. CASE Backups!DeleteRequest
    BY <1>2, BkDeletes DEF Backups!DeleteRequest
<1>3. CASE Backups!PostRestore
    BY <1>3, BkPosts DEF Backups!PostRestore
<1>4. CASE Backups!BackupTask
    BY <1>4, BkSaves, BkDumps, BkCopies DEF Backups!BackupTask
<1>5. ASSUME NEW id \in 1..BackupMaxId, Backups!RestoreTask(id) PROVE BkInv'
  <2>1. PICK at \in Backups!Ats : Backups!Restore(id, at)
    BY <1>5 DEF Backups!RestoreTask
  <2> QED
    BY <2>1, BkLoads, BkReads, BkStops, BkSwaps, BkStarts DEF Backups!Restore
<1>6. CASE Backups!PanelRestarts
    BY <1>6, BkPanelRestarts
<1>7. CASE Backups!Write \/ Backups!Save \/ Backups!Tick
    BY <1>7, BkServer
<1>8. ASSUME NEW purge \in BOOLEAN, Backups!UninstallInstance(purge) PROVE BkInv'
    BY <1>8, BkUninstalls
<1> QED
    BY <1>1, <1>2, <1>3, <1>4, <1>5, <1>6, <1>7, <1>8 DEF Backups!Next

(* The invariant holds at the start.                                        *)
LEMMA BkInit == Backups!Init => BkInv
<1> SUFFICES ASSUME Backups!Init PROVE BkInv
    OBVIOUS
<1>1. Backups!NoDump \in BkDump /\ Backups!NoDump.from = "none" /\ Backups!NoTask \in BkTask
    BY DEF Backups!NoDump, BkDump, Backups!NoTask, BkTask
<1>2. BkTypes /\ BkIds /\ BkRunning
    BY <1>1 DEF Backups!Init, BkTypes, BkIds, BkRunning
<1>3. BkOne /\ BkPlaced /\ BkAside /\ BkKept
    BY <1>1 DEF Backups!Init, BkOne, BkPlaced, BkAside, BkKept
<1> QED
    BY <1>2, <1>3 DEF BkInv

(* A step of another part leaves it as it is.                               *)
LEMMA BkStutter == BkInv /\ UNCHANGED backupVars => BkInv'
BY DEF backupVars, BkInv, BkTypes, BkIds, BkRunning, BkOne, BkPlaced, BkAside, BkKept, BkScope

(* What the invariant says to the user.                                     *)
LEMMA BkShows == BkInv => Backups!RunningIsRunning /\ Backups!NoHalfRestore
<1> SUFFICES ASSUME BkInv PROVE Backups!RunningIsRunning /\ Backups!NoHalfRestore
    OBVIOUS
<1>1. Backups!RunningIsRunning
    BY DEF BkInv, BkRunning, Backups!RunningIsRunning
<1>2. Backups!NoHalfRestore
    BY DEF BkInv, BkPlaced, BkScope, Backups!NoHalfRestore
<1> QED
    BY <1>1, <1>2


(* Types. What a restore shows is a status; the versions in the server, in  *)
(* its dumps, in the files and on their way are versions there are; and the *)
(* names of files are times that have been.                                 *)
BkVersion == 0 .. MaxVer + 1
BkStatuses == backupShown \in [DOMAIN backupShown -> BkStatus]
BkVersions ==
    /\ mem \in BkVersion /\ dump.ver \in BkVersion /\ pre.ver \in BkVersion
    /\ \A f \in DOMAIN files : files[f] \in BkVersion
    /\ \A i \in DOMAIN restore : restore[i].data \in BkVersion
BkTimes ==
    /\ clock \in 0 .. MaxClock /\ backup.file \in 0 .. MaxClock
    /\ DOMAIN files \subseteq 0 .. MaxClock
    /\ \A i \in DOMAIN restore : i \in 1 .. backupLastId
BkMore == BkStatuses /\ BkVersions /\ BkTimes
BkTyped == BkInv /\ BkMore

(* The bounds are numbers.                                                  *)
LEMMA BkNumbers ==
    /\ MaxVer \in Nat /\ MaxClock \in Nat /\ Backups!Half \in BkVersion
    /\ 0 \in BkVersion
BY BackupAssumption DEF Backups!BackupBounds, Backups!Half, BkVersion

(* The parts of the invariant a step has to keep.                           *)
LEMMA BkEndsTyped ==
    ASSUME BkTyped, NEW id, NEW s \in {"failed", "success"}, Backups!restoreEnds(id, s)
    PROVE  /\ BkStatuses'
           /\ DOMAIN restore' \subseteq DOMAIN restore
           /\ \A i \in DOMAIN restore' : restore'[i].data \in BkVersion
<1>1. /\ restore' = Backups!Without(restore, id)
      /\ backupShown' = IF id \in DOMAIN backupShown THEN [backupShown EXCEPT ![id] = s] ELSE backupShown
    BY DEF Backups!restoreEnds
<1>2. backupShown \in [DOMAIN backupShown -> BkStatus] /\ s \in BkStatus
    BY DEF BkTyped, BkMore, BkStatuses, BkStatus
<1>3. BkStatuses'
    BY <1>1, <1>2 DEF BkStatuses
<1>4. \A i \in DOMAIN restore : restore[i].data \in BkVersion
    BY DEF BkTyped, BkMore, BkVersions
<1> QED
    BY <1>1, <1>3, <1>4 DEF Backups!Without

(* A step of a restore.                                                     *)
LEMMA BkRestoreTyped ==
    ASSUME BkTyped, UNCHANGED <<backupLastId, files, backup, clock>>, BkStatuses',
           DOMAIN restore' \subseteq DOMAIN restore,
           \A i \in DOMAIN restore' : restore'[i].data \in BkVersion,
           mem' \in BkVersion, dump'.ver \in BkVersion, pre'.ver \in BkVersion
    PROVE  BkMore'
<1>1. BkVersions'
    BY DEF BkTyped, BkMore, BkVersions, BkVersion
<1>2. BkTimes'
    BY DEF BkTyped, BkMore, BkTimes
<1> QED
    BY <1>1, <1>2 DEF BkMore

(* A file that is there has a version there is.                             *)
LEMMA BkHeldTyped ==
    ASSUME BkTyped
    PROVE  /\ mem \in BkVersion /\ dump.ver \in BkVersion /\ pre.ver \in BkVersion
           /\ dump \in BkDump /\ pre \in BkDump
           /\ \A f \in DOMAIN files : files[f] \in BkVersion
           /\ \A i \in DOMAIN restore : restore[i] \in BkRestore /\ restore[i].data \in BkVersion
           /\ restore \in [DOMAIN restore -> BkRestore]
           /\ BkStatuses /\ Backups!NoDump.ver \in BkVersion
BY BkNumbers DEF BkTyped, BkMore, BkVersions, BkInv, BkTypes, Backups!NoDump

(* A restore goes on.                                                       *)
LEMMA BkGoesTyped ==
    ASSUME BkTyped, NEW id \in DOMAIN restore, NEW pc, Backups!Proceed(id, pc)
    PROVE  /\ BkStatuses'
           /\ DOMAIN restore' \subseteq DOMAIN restore
           /\ \A i \in DOMAIN restore' : restore'[i].data \in BkVersion
<1> USE BkHeldTyped
<1>1. restore' = [restore EXCEPT ![id].pc = pc] /\ backupShown' = backupShown
    BY DEF Backups!Proceed
<1>2. restore[id] \in BkRestore /\ restore[id].data \in BkVersion
    OBVIOUS
<1>3. [restore[id] EXCEPT !.pc = pc].data = restore[id].data
    BY <1>2 DEF BkRestore
<1>4. \A i \in DOMAIN restore' : restore'[i].data = restore[i].data
    BY <1>1, <1>3
<1>5. DOMAIN restore' = DOMAIN restore
    BY <1>1
<1> QED
    BY <1>1, <1>4, <1>5 DEF BkStatuses

(* A restore reads, stops, swaps or starts.                                 *)
LEMMA BkStepTyped ==
    ASSUME BkTyped, NEW id, NEW at, Backups!Restore(id, at)
    PROVE  BkMore'
<1> USE BkHeldTyped
<1>1. id \in DOMAIN restore /\ UNCHANGED <<backupLastId, files, backup, clock>>
    BY DEF Backups!Restore, Backups!restoreSQL, Backups!restoreRedisRead, Backups!restoreRedisStop,
           Backups!restoreRedisSwap, Backups!restoreRedisStart, Backups!Step, Backups!RestoreStep
<1>2. CASE Backups!restoreSQL(id, at)
  <2>1. /\ Backups!restoreEnds(id, "failed") \/ Backups!restoreEnds(id, "success")
        /\ UNCHANGED <<dump, pre>>
    BY <1>2 DEF Backups!restoreSQL
  <2>2. mem' \in BkVersion
    BY <1>1, <1>2, BkNumbers DEF Backups!restoreSQL, Backups!Readable
  <2> QED
    BY <1>1, <2>1, <2>2, BkEndsTyped, BkRestoreTyped
<1>3. CASE Backups!restoreRedisRead(id, at)
  <2>1. UNCHANGED <<mem, dump>>
    BY <1>3 DEF Backups!restoreRedisRead
  <2>2. CASE Backups!restoreEnds(id, "failed") /\ pre' = pre
    BY <1>1, <2>1, <2>2, BkEndsTyped, BkRestoreTyped
  <2>3. CASE ~(Backups!restoreEnds(id, "failed") /\ pre' = pre)
    <3> DEFINE data == files[restore[id].file]
               kept == (dump.from # "none")
               r == [restore[id] EXCEPT !.pc = "stop", !.data = data, !.kept = kept]
    <3>1. /\ Backups!Readable(id) /\ pre' \in {pre, dump} /\ backupShown' = backupShown
          /\ restore' = [restore EXCEPT ![id] = r]
      BY <1>1, <1>3, <2>3 DEF Backups!restoreRedisRead
    <3>2. data \in BkVersion /\ restore[id] \in BkRestore
      BY <1>1, <3>1 DEF Backups!Readable
    <3> HIDE DEF data, kept
    <3>3. r.data = data
      BY <3>2 DEF BkRestore
    <3> HIDE DEF r
    <3>4. DOMAIN restore' = DOMAIN restore /\ \A i \in DOMAIN restore' : restore'[i].data \in BkVersion
      BY <1>1, <3>1, <3>2, <3>3
    <3>5. BkStatuses'
      BY <3>1 DEF BkStatuses
    <3>6. pre'.ver \in BkVersion /\ mem' \in BkVersion /\ dump'.ver \in BkVersion
      BY <2>1, <3>1
    <3> QED
      BY <1>1, <3>4, <3>5, <3>6, BkRestoreTyped
  <2> QED
    BY <2>2, <2>3
<1>4. CASE Backups!restoreRedisStop(id, at)
  <2>1. /\ mem' = mem
        /\ Backups!restoreEnds(id, "failed") \/ Backups!Proceed(id, "swap")
    BY <1>4 DEF Backups!restoreRedisStop
  <2>2. pre' \in {pre, Backups!NoDump} /\ dump' \in {dump, [ver |-> mem, from |-> "server"]}
    BY <1>4 DEF Backups!restoreRedisStop
  <2>3. mem' \in BkVersion /\ dump'.ver \in BkVersion /\ pre'.ver \in BkVersion
    BY <2>1, <2>2
  <2> QED
    BY <1>1, <2>1, <2>3, BkEndsTyped, BkGoesTyped, BkRestoreTyped
<1>5. CASE Backups!restoreRedisSwap(id, at)
  <2>1. Backups!restoreEnds(id, "failed") \/ Backups!Proceed(id, "start")
    BY <1>5 DEF Backups!restoreRedisSwap
  <2>2. /\ pre' \in {pre, Backups!NoDump} /\ mem' \in {mem, dump.ver}
        /\ dump' \in {dump, [ver |-> restore[id].data, from |-> "backup"]}
    BY <1>5 DEF Backups!restoreRedisSwap
  <2>3. mem' \in BkVersion /\ dump'.ver \in BkVersion /\ pre'.ver \in BkVersion
    BY <1>1, <2>2
  <2> QED
    BY <1>1, <2>1, <2>3, BkEndsTyped, BkGoesTyped, BkRestoreTyped
<1>6. CASE Backups!restoreRedisStart(id, at)
  <2>1. Backups!restoreEnds(id, "failed") \/ Backups!restoreEnds(id, "success")
    BY <1>6 DEF Backups!restoreRedisStart
  <2>2. /\ pre' = Backups!NoDump /\ mem' \in {mem, dump.ver}
        /\ dump' \in {dump, pre, [dump EXCEPT !.from = "server"]}
    BY <1>6 DEF Backups!restoreRedisStart
  <2>a. [dump EXCEPT !.from = "server"].ver = dump.ver
    BY DEF BkDump
  <2>3. mem' \in BkVersion /\ dump'.ver \in BkVersion /\ pre'.ver \in BkVersion
    BY <2>2, <2>a
  <2> QED
    BY <1>1, <2>1, <2>3, BkEndsTyped, BkRestoreTyped
<1> QED
    BY <1>2, <1>3, <1>4, <1>5, <1>6 DEF Backups!Restore

(* A step that leaves the server: of the table, the files and the backup.   *)
LEMMA BkTableTyped ==
    ASSUME BkTyped, UNCHANGED <<mem, dump, pre, clock>>, BkStatuses', backupLastId' \in Nat,
           backupLastId <= backupLastId',
           DOMAIN files' \subseteq DOMAIN files \cup {backup.file},
           \A f \in DOMAIN files' : files'[f] \in BkVersion,
           DOMAIN restore' \subseteq DOMAIN restore \cup DOMAIN backupRows,
           \A i \in DOMAIN restore' : restore'[i].data \in BkVersion,
           backup'.file \in {backup.file, clock, 0}
    PROVE  BkMore'
<1>1. BkVersions'
    BY DEF BkTyped, BkMore, BkVersions, BkVersion
<1>2. backupLastId \in Nat /\ \A i \in DOMAIN backupRows : i \in 1 .. backupLastId
    BY DEF BkTyped, BkInv, BkTypes, BkIds
<1>3. \A i \in DOMAIN restore' : i \in 1 .. backupLastId'
    BY <1>2 DEF BkTyped, BkMore, BkTimes
<1>4. BkTimes'
    BY <1>3, BkNumbers DEF BkTyped, BkMore, BkTimes
<1> QED
    BY <1>1, <1>4 DEF BkMore

(* A file is written.                                                       *)
LEMMA BkWritesTyped ==
    ASSUME BkTyped, NEW v \in BkVersion, NEW f \in {files, Backups!With(files, backup.file, v)}
    PROVE  DOMAIN f \subseteq DOMAIN files \cup {backup.file} /\ \A n \in DOMAIN f : f[n] \in BkVersion
BY BkHeldTyped DEF Backups!With

(* A dump is made, or fails.                                                *)
LEMMA BkExecutesTyped ==
    ASSUME BkTyped, UNCHANGED <<mem, dump, pre, clock, backupLastId, restore, backupShown>>,
           NEW s, NEW v \in BkVersion, NEW f \in {files, Backups!With(files, backup.file, v)}, NEW at,
           Backups!executeBackup(s, f, at)
    PROVE  BkMore'
<1> USE BkHeldTyped
<1>1. files' = f /\ backup' = Backups!NoTask
    BY DEF Backups!executeBackup
<1>2. DOMAIN f \subseteq DOMAIN files \cup {backup.file} /\ \A n \in DOMAIN f : f[n] \in BkVersion
    BY BkWritesTyped
<1>3. backup'.file = 0 /\ BkStatuses' /\ backupLastId \in Nat
    BY <1>1 DEF Backups!NoTask, BkStatuses, BkTyped, BkInv, BkTypes
<1> QED
    BY <1>1, <1>2, <1>3, BkTableTyped

(* The task of a backup.                                                    *)
LEMMA BkTaskTyped ==
    ASSUME BkTyped, Backups!BackupTask
    PROVE  BkMore'
<1> USE BkHeldTyped
<1>1. ASSUME NEW at, Backups!backupSQL(at) PROVE BkMore'
  <2>1. UNCHANGED <<mem, dump, pre, clock, backupLastId, restore, backupShown>>
    BY <1>1 DEF Backups!backupSQL, Backups!server
  <2>2. \/ Backups!executeBackup("failed", files, at)
        \/ Backups!executeBackup("failed", Backups!With(files, backup.file, 0), at)
        \/ Backups!executeBackup("success", Backups!With(files, backup.file, mem), at)
    BY <1>1 DEF Backups!backupSQL
  <2>3. ASSUME NEW v \in BkVersion, NEW s, \/ Backups!executeBackup(s, files, at)
                                           \/ Backups!executeBackup(s, Backups!With(files, backup.file, v), at)
        PROVE  BkMore'
    BY <2>1, <2>3, BkExecutesTyped
  <2>4. 0 \in BkVersion /\ mem \in BkVersion
    BY BkNumbers
  <2> QED
    BY <2>2, <2>3, <2>4
<1>2. ASSUME NEW at, Backups!backupRedisCopy(at) PROVE BkMore'
  <2>1. UNCHANGED <<mem, dump, pre, clock, backupLastId, restore, backupShown>>
    BY <1>2 DEF Backups!backupRedisCopy, Backups!server
  <2>2. \/ Backups!executeBackup("failed", files, at)
        \/ Backups!executeBackup("success", Backups!With(files, backup.file, dump.ver), at)
    BY <1>2 DEF Backups!backupRedisCopy
  <2> QED
    BY <2>1, <2>2, BkExecutesTyped
<1>3. CASE Backups!backupRedisSave
  <2>1. UNCHANGED <<mem, dump, pre, clock, backupLastId, restore, backupShown>>
    BY <1>3 DEF Backups!backupRedisSave, Backups!server
  <2>2. CASE Backups!executeBackup("failed", files, "none")
    BY <2>1, <2>2, BkExecutesTyped
  <2>3. CASE backup' = [backup EXCEPT !.pc = "copy"] /\ UNCHANGED <<backupRows, files>>
    <3>1. backup \in BkTask /\ backupLastId \in Nat
      BY DEF BkTyped, BkInv, BkTypes
    <3>2. backup'.file = backup.file
      BY <2>3, <3>1 DEF BkTask
    <3>3. BkStatuses'
      BY <2>1 DEF BkStatuses
    <3> QED
      BY <2>1, <2>3, <3>1, <3>2, <3>3, BkTableTyped
  <2> QED
    BY <1>3, <2>2, <2>3 DEF Backups!backupRedisSave
<1> QED
    BY <1>1, <1>2, <1>3 DEF Backups!BackupTask

(* CreateBackup, DeleteBackup and RestoreBackup.                            *)
LEMMA BkPostsTyped ==
    ASSUME BkTyped, NEW id, NEW at,
           Backups!CreateBackup(at) \/ Backups!DeleteBackup(id) \/ Backups!RestoreBackup(id, at)
    PROVE  BkMore'
<1> USE BkHeldTyped
<1>0. backupLastId \in Nat /\ backup \in BkTask /\ backupShown \in [DOMAIN backupShown -> BkStatus]
    BY DEF BkTyped, BkInv, BkTypes, BkMore, BkStatuses
<1>1. CASE Backups!CreateBackup(at)
  <2>1. /\ UNCHANGED <<mem, dump, pre, clock, files, restore, backupShown>>
        /\ backupLastId' = backupLastId + 1
        /\ backup' \in {backup, [id |-> backupLastId', file |-> clock, pc |-> "dump"]}
    BY <1>1 DEF Backups!CreateBackup, Backups!server
  <2>2. backup'.file \in {backup.file, clock} /\ BkStatuses'
    BY <2>1 DEF BkStatuses
  <2> QED
    BY <1>0, <2>1, <2>2, BkTableTyped
<1>2. CASE Backups!DeleteBackup(id)
  <2>1. /\ UNCHANGED <<mem, dump, pre, clock, restore, backupShown, backup, backupLastId>>
        /\ files' = Backups!Without(files, backupRows[id].file)
    BY <1>2 DEF Backups!DeleteBackup, Backups!server
  <2>2. DOMAIN files' \subseteq DOMAIN files /\ \A f \in DOMAIN files' : files'[f] \in BkVersion
    BY <2>1 DEF Backups!Without
  <2>3. BkStatuses'
    BY <2>1 DEF BkStatuses
  <2> QED
    BY <1>0, <2>1, <2>2, <2>3, BkTableTyped
<1>3. CASE Backups!RestoreBackup(id, at)
  <2> DEFINE r == [pc |-> "read", file |-> backupRows[id].file, data |-> 0, kept |-> FALSE]
  <2>1. /\ UNCHANGED <<mem, dump, pre, clock, backup, backupLastId, files>> /\ id \in DOMAIN backupRows
        /\ \/ backupShown' = Backups!Without(backupShown, id) /\ restore' = restore
           \/ backupShown' = Backups!With(backupShown, id, "running")
              /\ restore' = Backups!With(restore, id, r)
    BY <1>3 DEF Backups!RestoreBackup, Backups!server
  <2>2. r.data = 0 /\ 0 \in BkVersion /\ "running" \in BkStatus
    BY BkNumbers DEF BkStatus
  <2> HIDE DEF r
  <2>3. BkStatuses'
    BY <1>0, <2>1, <2>2 DEF BkStatuses, Backups!Without, Backups!With
  <2>4. DOMAIN restore' \subseteq DOMAIN restore \cup DOMAIN backupRows
    BY <2>1 DEF Backups!With
  <2>5. \A i \in DOMAIN restore' : restore'[i].data \in BkVersion
    BY <2>1, <2>2 DEF Backups!With
  <2> QED
    BY <1>0, <2>1, <2>3, <2>4, <2>5, BkTableTyped
<1> QED
    BY <1>1, <1>2, <1>3

(* The server writes, saves or is started.                                  *)
LEMMA BkServerTyped ==
    ASSUME BkTyped, Backups!Write \/ Backups!Save \/ Backups!Tick
    PROVE  BkMore'
<1> USE BkHeldTyped
<1>1. /\ UNCHANGED <<files, backup, restore, backupShown, backupLastId, pre>>
      /\ mem' = mem \/ (mem < MaxVer /\ mem' = mem + 1)
      /\ dump' \in {dump, [ver |-> mem, from |-> "server"]}
      /\ clock' = clock \/ (clock < MaxClock /\ clock' = clock + 1)
  <2>1. CASE Backups!Write
    BY <2>1 DEF Backups!Write, Backups!panel
  <2>2. CASE Backups!Save
    BY <2>2 DEF Backups!Save, Backups!panel
  <2>3. CASE Backups!Tick
    BY <2>3 DEF Backups!Tick, Backups!panel
  <2> QED
    BY <2>1, <2>2, <2>3
<1>2. mem' \in BkVersion /\ dump'.ver \in BkVersion
    BY <1>1, BkNumbers DEF BkVersion
<1>3. clock' \in 0 .. MaxClock
    BY <1>1, BkNumbers DEF BkTyped, BkMore, BkTimes
<1>4. BkVersions'
    BY <1>1, <1>2 DEF BkVersions, BkVersion
<1>5. BkTimes'
    BY <1>1, <1>3 DEF BkTyped, BkMore, BkTimes
<1>6. BkStatuses'
    BY <1>1 DEF BkStatuses
<1> QED
    BY <1>4, <1>5, <1>6 DEF BkMore

(* The instance is removed, or the panel restarted.                         *)
LEMMA BkGoneTyped ==
    ASSUME BkTyped, Backups!PanelRestarts \/ (\E purge \in BOOLEAN : Backups!UninstallInstance(purge))
    PROVE  BkMore'
<1> USE BkHeldTyped
<1>0. backupLastId \in Nat /\ backup \in BkTask
    BY DEF BkTyped, BkInv, BkTypes
<1>1. CASE Backups!PanelRestarts
  <2>1. /\ UNCHANGED <<mem, dump, pre, clock, files, backupLastId>> /\ backup' = Backups!NoTask
        /\ restore' = [i \in {} |-> 0] /\ backupShown' = [i \in {} |-> 0]
    BY <1>1 DEF Backups!PanelRestarts, Backups!server
  <2>2. backup'.file = 0 /\ BkStatuses' /\ DOMAIN restore' = {}
    BY <2>1 DEF Backups!NoTask, BkStatuses
  <2> QED
    BY <1>0, <2>1, <2>2, BkTableTyped
<1>2. ASSUME NEW purge \in BOOLEAN, Backups!UninstallInstance(purge) PROVE BkMore'
  <2>1. /\ UNCHANGED <<mem, clock, backupLastId, backup, restore, backupShown>>
        /\ files' \in {files, [f \in {} |-> 0]} /\ dump' \in {dump, Backups!NoDump}
        /\ pre' \in {pre, Backups!NoDump}
    BY <1>2 DEF Backups!UninstallInstance
  <2>2. BkVersions'
    BY <2>1 DEF BkVersions, BkVersion
  <2>3. BkTimes'
    BY <2>1 DEF BkTyped, BkMore, BkTimes
  <2>4. BkStatuses'
    BY <2>1 DEF BkStatuses
  <2> QED
    BY <2>2, <2>3, <2>4 DEF BkMore
<1> QED
    BY <1>1, <1>2

(* The types are right at the start.                                        *)
LEMMA BkTypedInit == Init => BkMore
BY BkNumbers DEF Init, Backups!Init, Backups!NoDump, Backups!NoTask, BkMore, BkStatuses, BkVersions,
   BkTimes, BkVersion

(* Every step keeps the types.                                              *)
LEMMA BkTypedStep == ASSUME BkTyped, Backups!Next PROVE BkMore'
<1>1. ASSUME NEW at, Backups!CreateBackup(at) PROVE BkMore'
    BY <1>1, BkPostsTyped
<1>2. ASSUME NEW id, Backups!DeleteBackup(id) PROVE BkMore'
    BY <1>2, BkPostsTyped
<1>3. ASSUME NEW id, NEW at, Backups!RestoreBackup(id, at) PROVE BkMore'
    BY <1>3, BkPostsTyped
<1>4. ASSUME NEW id, NEW at, Backups!Restore(id, at) PROVE BkMore'
    BY <1>4, BkStepTyped
<1> QED
    BY <1>1, <1>2, <1>3, <1>4, BkTaskTyped, BkServerTyped, BkGoneTyped
       DEF Backups!Next, Backups!PostBackup, Backups!DeleteRequest, Backups!PostRestore, Backups!RestoreTask

(* They are kept while the part does nothing.                               *)
LEMMA BkTypedStutter == ASSUME BkTyped, UNCHANGED backupVars PROVE BkMore'
BY DEF BkTyped, BkMore, BkStatuses, BkVersions, BkTimes, BkVersion, backupVars

(* What the invariant says of types.                                        *)
LEMMA BkTypedShows == ASSUME BkTyped PROVE Backups!TypeOK
<1>1. /\ DOMAIN backupRows \subseteq 1 .. backupLastId
      /\ \A i \in DOMAIN backupRows : backupRows[i].status \in {"running", "success", "failed"}
      /\ dump.from \in {"none", "server", "backup"}
    BY DEF BkTyped, BkInv, BkTypes, BkIds, BkRow, BkStatus, BkDump
<1>2. /\ \A i \in DOMAIN backupShown : backupShown[i] \in {"running", "success", "failed"}
      /\ DOMAIN restore \subseteq 1 .. backupLastId /\ DOMAIN files \subseteq 0 .. MaxClock
      /\ mem \in 0 .. Backups!Half
    BY DEF BkTyped, BkMore, BkStatuses, BkVersions, BkTimes, BkStatus, BkVersion, Backups!Half
<1> QED
    BY <1>1, <1>2 DEF Backups!TypeOK

-----------------------------------------------------------------------------
(* Loops. A recursive function over 0 .. n has the values its equations     *)
(* give, and keeps to a set that every turn of the loop keeps to. The       *)
(* argument takes the first number at which that fails.                     *)
LEMMA Smallest ==
    ASSUME NEW T \in SUBSET Nat, T # {}
    PROVE  \E m \in T : \A k \in T : m <= k
<1>1. \E m \in T : \A k \in T : <<k, m>> \notin OpToRel(<, Nat)
    BY WFMin, NatLessThanWellFounded
<1>2. ASSUME NEW k \in Nat, NEW m \in Nat, k < m PROVE <<k, m>> \in OpToRel(<, Nat)
  <2>1. <<k, m>> \in Nat \X Nat /\ <<k, m>>[1] < <<k, m>>[2]
      BY <1>2
  <2> QED
      BY <2>1 DEF OpToRel
<1>3. \E m \in T : \A k \in T : ~ (k < m)
    BY <1>1, <1>2, Zenon
<1> QED
    BY <1>3

(* There is a function with the values of the loop.                         *)
LEMMA LoopEnds ==
    ASSUME NEW V, NEW b \in V, NEW n \in Nat, NEW G \in [1 .. n -> [V -> V]]
    PROVE  \E f \in [0 .. n -> V] : f[0] = b /\ \A i \in 1 .. n : f[i] = G[i][f[i - 1]]
<1> DEFINE Upto(m) == {f \in [0 .. m -> V] :
                         \A i \in 0 .. m : f[i] = IF i = 0 THEN b ELSE G[i][f[i - 1]]}
           T == {m \in 0 .. n : Upto(m) = {}}
<1>1. T = {}
  <2> SUFFICES ASSUME T # {} PROVE FALSE
      OBVIOUS
  <2>1. T \in SUBSET Nat
      OBVIOUS
  <2>2. PICK m \in T : \A k \in T : m <= k
    <3> HIDE DEF T
    <3> QED
      BY <2>1, Smallest
  <2>3. m \in 0 .. n /\ Upto(m) = {}
      OBVIOUS
  <2>4. CASE m = 0
    <3>1. [i \in 0 .. 0 |-> b] \in Upto(0)
        OBVIOUS
    <3> QED
        BY <2>3, <2>4, <3>1
  <2>5. CASE m # 0
    <3>1. m - 1 \in 0 .. n /\ ~ (m <= m - 1)
        BY <2>3, <2>5
    <3>0. m - 1 \notin T
      <4> HIDE DEF T
      <4> QED
        BY <2>2, <3>1
    <3>2. PICK g : g \in Upto(m - 1)
        BY <3>0, <3>1
    <3> DEFINE f == [i \in 0 .. m |-> IF i = m THEN G[m][g[m - 1]] ELSE g[i]]
    <3>3. g[m - 1] \in V /\ G[m][g[m - 1]] \in V
        BY <2>3, <2>5, <3>2
    <3>4. f \in [0 .. m -> V]
        BY <2>3, <2>5, <3>2, <3>3
    <3>5. ASSUME NEW i \in 0 .. m PROVE f[i] = IF i = 0 THEN b ELSE G[i][f[i - 1]]
      <4>1. CASE i = m
        <5>1. m - 1 \in 0 .. m /\ m - 1 # m
            BY <2>3, <2>5
        <5>2. f[m - 1] = g[m - 1] /\ f[m] = G[m][g[m - 1]]
            BY <5>1, <2>3
        <5> QED
            BY <4>1, <5>2, <2>5
      <4>2. CASE i # m
        <5>1. i \in 0 .. m - 1
            BY <4>2, <2>3
        <5>2. g[i] = IF i = 0 THEN b ELSE G[i][g[i - 1]]
            BY <5>1, <3>2
        <5>3. f[i] = g[i] /\ (i # 0 => f[i - 1] = g[i - 1])
            BY <4>2, <2>3
        <5> QED
            BY <5>2, <5>3
      <4> QED
        BY <4>1, <4>2
    <3> HIDE DEF f
    <3>6. f \in Upto(m)
        BY <3>4, <3>5
    <3> QED
        BY <2>3, <3>6
  <2> QED
      BY <2>4, <2>5
<1>2. PICK f : f \in Upto(n)
    BY <1>1
<1>3. f[0] = b /\ \A i \in 1 .. n : f[i] = G[i][f[i - 1]]
    BY <1>2
<1> QED
    BY <1>2, <1>3

(* What holds at the first turn and is kept by every turn holds at all of   *)
(* them.                                                                    *)
LEMMA LoopSteps ==
    ASSUME NEW n \in Nat, NEW S, 0 \in S, \A i \in 1 .. n : i - 1 \in S => i \in S
    PROVE  \A i \in 0 .. n : i \in S
<1> DEFINE T == {i \in 0 .. n : i \notin S}
<1> SUFFICES ASSUME T # {} PROVE FALSE
    OBVIOUS
<1>1. T \in SUBSET Nat
    OBVIOUS
<1>2. PICK m \in T : \A k \in T : m <= k
  <2> HIDE DEF T
  <2> QED
    BY <1>1, Smallest
<1>3. m \in 1 .. n /\ m \notin S /\ m - 1 \in 0 .. n /\ ~ (m <= m - 1)
    OBVIOUS
<1>4. m - 1 \notin T
  <2> HIDE DEF T
  <2> QED
    BY <1>2, <1>3
<1> QED
    BY <1>3, <1>4

(* A function of which the loop's equations hold as far as it stays in the  *)
(* set: it stays in the set.                                                *)
LoopOf(V, b, n, G, F) ==
    /\ b \in V /\ n \in Nat /\ G \in [1 .. n -> [V -> V]]
    /\ \A f \in [0 .. n -> V] :
          (f[0] = b /\ \A i \in 1 .. n : f[i] = G[i][f[i - 1]]) =>
          (F[0] = b /\ \A i \in 1 .. n : F[i - 1] \in V => F[i] = G[i][F[i - 1]])

(* A function with the values of the loop keeps to the set.                 *)
LEMMA LoopKeeps ==
    ASSUME NEW V, NEW b, NEW n, NEW G, NEW F, LoopOf(V, b, n, G, F)
    PROVE  \A i \in 0 .. n : F[i] \in V
<1> USE DEF LoopOf
<1>1. \E f \in [0 .. n -> V] : f[0] = b /\ \A i \in 1 .. n : f[i] = G[i][f[i - 1]]
    BY LoopEnds, SMTT(60)
<1>2. F[0] = b /\ \A i \in 1 .. n : F[i - 1] \in V => F[i] = G[i][F[i - 1]]
    BY <1>1
<1> DEFINE S == {j \in 0 .. n : F[j] \in V}
<1>3. 0 \in S
    BY <1>2
<1>4. ASSUME NEW i \in 1 .. n, i - 1 \in S PROVE i \in S
    BY <1>2, <1>4
<1>5. \A i \in 0 .. n : i \in S
  <2> HIDE DEF S
  <2> QED
    BY <1>3, <1>4, LoopSteps
<1> QED
    BY <1>5

(* It follows its equations.                                                *)
LEMMA LoopRuns ==
    ASSUME NEW V, NEW b, NEW n, NEW G, NEW F, LoopOf(V, b, n, G, F)
    PROVE  F[0] = b /\ \A i \in 1 .. n : F[i - 1] \in V /\ F[i] = G[i][F[i - 1]]
<1>1. \A i \in 0 .. n : F[i] \in V
    BY LoopKeeps
<1> USE DEF LoopOf
<1>2. \E f \in [0 .. n -> V] : f[0] = b /\ \A i \in 1 .. n : f[i] = G[i][f[i - 1]]
    BY LoopEnds, SMTT(60)
<1>3. F[0] = b /\ \A i \in 1 .. n : F[i - 1] \in V => F[i] = G[i][F[i - 1]]
    BY <1>2
<1> QED
    BY <1>1, <1>3

-----------------------------------------------------------------------------
(* The login history. What is kept of the last lines of the log is the end  *)
(* of what is kept of all of it.                                            *)
LoginLines == {"accepted", "failed", "noise"}
LoginKept(list) == Logins!Those(list, Logins!parseSSHLogLine)
LoginsInv ==
    /\ log \in Seq(LoginLines) /\ Len(log) <= MaxLog
    /\ kill \in Pids \cup {0}
    /\ DOMAIN procs \subseteq Pids
    /\ \A p \in DOMAIN procs : procs[p] \in {"tty", "plain", "other"}

(* The bounds are numbers.                                                  *)
LEMMA LoginNumbers == Limit \in Nat /\ MaxLog \in Nat /\ Pids \subseteq Nat
BY LoginAssumption DEF Logins!LoginBounds

(* The invariant holds at the start.                                        *)
LEMMA LoginsInit == Init => LoginsInv
BY LoginNumbers DEF Init, Logins!Init, LoginsInv

(* The invariant holds on while the part does nothing.                      *)
LEMMA LoginsStutters == ASSUME LoginsInv, UNCHANGED loginsVars PROVE LoginsInv'
BY DEF LoginsInv, loginsVars

(* Every step keeps the invariant.                                          *)
LEMMA LoginsStep == ASSUME LoginsInv, Logins!Next PROVE LoginsInv'
<1>1. CASE Logins!KillSession
  <2>1. PICK p \in Pids : kill' = p /\ UNCHANGED <<procs, log>>
    BY <1>1 DEF Logins!KillSession, Logins!KillVerify
  <2> QED
    BY <2>1 DEF LoginsInv
<1>2. CASE Logins!KillSignal
  <2>1. kill' = 0 /\ log' = log /\ procs' = [q \in DOMAIN procs \ {kill} |-> procs[q]]
    BY <1>2 DEF Logins!KillSignal
  <2> QED
    BY <2>1 DEF LoginsInv
<1>3. CASE Logins!LogLine
  <2>1. /\ Len(log) < MaxLog /\ UNCHANGED <<procs, kill>>
        /\ \E l \in LoginLines : log' = Append(log, l)
    BY <1>3 DEF Logins!LogLine, LoginLines
  <2>2. PICK l \in LoginLines : log' = Append(log, l)
    BY <2>1
  <2>3. log' \in Seq(LoginLines) /\ Len(log') = Len(log) + 1 /\ Len(log) \in Nat
    BY <2>2 DEF LoginsInv
  <2> QED
    BY <2>1, <2>3, LoginNumbers DEF LoginsInv
<1>4. ASSUME NEW p \in Pids, Logins!ProcStarts(p) PROVE LoginsInv'
  <2>1. PICK k \in {"tty", "plain", "other"} :
           procs' = [q \in DOMAIN procs \cup {p} |-> IF q = p THEN k ELSE procs[q]]
    BY <1>4 DEF Logins!ProcStarts
  <2>2. kill' = kill /\ log' = log
    BY <1>4 DEF Logins!ProcStarts
  <2> QED
    BY <2>1, <2>2 DEF LoginsInv
<1>5. ASSUME NEW p \in Pids, Logins!ProcEnds(p) PROVE LoginsInv'
  <2>1. /\ kill' = kill /\ log' = log
        /\ procs' = [q \in DOMAIN procs \ {p} |-> procs[q]]
    BY <1>5 DEF Logins!ProcEnds
  <2> QED
    BY <2>1 DEF LoginsInv
<1> QED
    BY <1>1, <1>2, <1>3, <1>4, <1>5 DEF Logins!Next

(* What is kept of a list, turn by turn.                                    *)
LoginTurns(f, list, S) ==
    /\ f \in [0 .. Len(list) -> Seq(S)]
    /\ f[0] = <<>>
    /\ \A i \in 1 .. Len(list) :
          f[i] = IF Logins!parseSSHLogLine(list[i]) THEN Append(f[i - 1], list[i]) ELSE f[i - 1]

(* What is kept of a sequence, line by line.                                *)
LEMMA LoginThose ==
    ASSUME NEW S, NEW list \in Seq(S)
    PROVE  \E f : LoginTurns(f, list, S) /\ LoginKept(list) = f[Len(list)]
<1> DEFINE n == Len(list)
           V == Seq(S)
           b == <<>>
           Turn(i, kept) == IF Logins!parseSSHLogLine(list[i]) THEN Append(kept, list[i]) ELSE kept
           G == [i \in 1 .. n |-> [v \in V |-> Turn(i, v)]]
           F == CHOOSE f : f = [i \in 0 .. n |-> IF i = 0 THEN b ELSE Turn(i, f[i - 1])]
<1>1. n \in Nat /\ b \in V
    OBVIOUS
<1>2. ASSUME NEW i \in 1 .. n, NEW v \in V PROVE Turn(i, v) \in V
    OBVIOUS
<1>3. LoginKept(list) = F[n]
    BY DEF LoginKept, Logins!Those
<1> HIDE DEF V, Turn, n, b
<1>4. G \in [1 .. n -> [V -> V]]
    BY <1>2
<1>5. ASSUME NEW f \in [0 .. n -> V], f[0] = b, \A i \in 1 .. n : f[i] = G[i][f[i - 1]]
      PROVE  f = [i \in 0 .. n |-> IF i = 0 THEN b ELSE Turn(i, f[i - 1])]
  <2>1. ASSUME NEW i \in 1 .. n PROVE f[i] = Turn(i, f[i - 1])
    <3>1. f[i - 1] \in V
        BY <1>1
    <3> QED
        BY <1>5, <3>1
  <2>2. \A i \in 0 .. n : f[i] = IF i = 0 THEN b ELSE Turn(i, f[i - 1])
      BY <1>1, <1>5, <2>1
  <2> QED
      BY <2>2
<1>6. ASSUME NEW f, f = [i \in 0 .. n |-> IF i = 0 THEN b ELSE Turn(i, f[i - 1])]
      PROVE  F = [i \in 0 .. n |-> IF i = 0 THEN b ELSE Turn(i, F[i - 1])]
    BY <1>6
<1> HIDE DEF F
<1>7. ASSUME NEW f \in [0 .. n -> V], f[0] = b, \A i \in 1 .. n : f[i] = G[i][f[i - 1]]
      PROVE  F[0] = b /\ \A i \in 1 .. n : F[i - 1] \in V => F[i] = G[i][F[i - 1]]
  <2>1. F = [i \in 0 .. n |-> IF i = 0 THEN b ELSE Turn(i, F[i - 1])]
      BY <1>5, <1>6, <1>7
  <2>2. F[0] = b /\ \A i \in 1 .. n : F[i] = Turn(i, F[i - 1])
      BY <1>1, <2>1
  <2> QED
      BY <2>2
<1> HIDE DEF G
<1>8. LoopOf(V, b, n, G, F)
    BY <1>1, <1>4, <1>7 DEF LoopOf
<1>9. \A i \in 0 .. n : F[i] \in V
    BY <1>8, LoopKeeps
<1>10. F[0] = b /\ \A i \in 1 .. n : F[i - 1] \in V /\ F[i] = G[i][F[i - 1]]
    BY <1>8, LoopRuns
<1>11. \A i \in 1 .. n : F[i] = Turn(i, F[i - 1])
    BY <1>10 DEF G
<1> DEFINE H == [i \in 0 .. n |-> F[i]]
<1>12. H \in [0 .. n -> V] /\ H[0] = b /\ H[n] = F[n]
    BY <1>1, <1>9, <1>10
<1>13. \A i \in 1 .. n : H[i] = Turn(i, H[i - 1])
    BY <1>1, <1>11
<1> HIDE DEF H
<1>14. \A i \in 1 .. n :
          H[i] = IF Logins!parseSSHLogLine(list[i]) THEN Append(H[i - 1], list[i]) ELSE H[i - 1]
    BY <1>13 DEF Turn
<1> QED
    BY <1>3, <1>12, <1>14 DEF V, n, b, LoginTurns

(* The end of a list.                                                       *)
LEMMA LoginEnd ==
    ASSUME NEW S, NEW front \in Seq(S), NEW back \in Seq(S)
    PROVE  Logins!LastOf(front \o back, Len(back)) = back
<1> DEFINE all == front \o back
           a == Len(front)
           k == Len(back)
           m == IF Len(all) > k THEN Len(all) - k + 1 ELSE 1
<1>1. a \in Nat /\ k \in Nat /\ all \in Seq(S) /\ Len(all) = a + k
    OBVIOUS
<1>2. \A i \in 1 .. k : all[a + i] = back[i]
    OBVIOUS
<1>3. m = a + 1
    BY <1>1
<1>4. Logins!LastOf(all, k) = SubSeq(all, a + 1, a + k)
    BY <1>1, <1>3 DEF Logins!LastOf
<1>5. SubSeq(all, a + 1, a + k) = [i \in 1 .. k |-> all[a + i]]
  <2> HIDE DEF all, a, k
  <2>1. a + 1 \in Int /\ a + k \in Int /\ 1 .. ((a + k) - (a + 1) + 1) = 1 .. k
    BY <1>1
  <2>2. SubSeq(all, a + 1, a + k) = [i \in 1 .. ((a + k) - (a + 1) + 1) |-> all[i + (a + 1) - 1]]
    BY <1>1 DEF SubSeq
  <2>3. \A i \in 1 .. k : i + (a + 1) - 1 = a + i
    BY <1>1
  <2> QED
    BY <2>1, <2>2, <2>3
<1>6. back = [i \in 1 .. k |-> back[i]]
    OBVIOUS
<1> QED
    BY <1>1, <1>2, <1>4, <1>5, <1>6

(* The end of a sequence, without its first element.                        *)
LEMMA LoginRest ==
    ASSUME NEW S, NEW list \in Seq(S), NEW m \in 1 .. Len(list) + 1
    PROVE  LET rest == SubSeq(list, m, Len(list))
           IN /\ rest \in Seq(S) /\ Len(rest) = Len(list) - m + 1
              /\ \A j \in 1 .. Len(rest) : rest[j] = list[m - 1 + j]
<1> DEFINE n == Len(list)
           rest == SubSeq(list, m, n)
<1>1. n \in Nat
    OBVIOUS
<1>2. rest = [i \in 1 .. (n - m + 1) |-> list[i + m - 1]]
    BY <1>1 DEF SubSeq
<1>3. \A i \in 1 .. (n - m + 1) : list[i + m - 1] \in S /\ i + m - 1 = m - 1 + i
    BY <1>1
<1>4. rest \in [1 .. (n - m + 1) -> S] /\ n - m + 1 \in Nat
    BY <1>1, <1>2, <1>3
<1>5. \A j \in 1 .. (n - m + 1) : rest[j] = list[m - 1 + j]
    BY <1>2, <1>3
<1> HIDE DEF rest
<1>6. rest \in Seq(S) /\ Len(rest) = n - m + 1
    BY <1>4
<1> QED
    BY <1>5, <1>6 DEF rest

(* What is kept of a sequence and of its end.                               *)
LEMMA LoginAppends ==
    \A x \in Seq(LoginLines), y \in Seq(LoginLines), z \in LoginLines : Append(x \o y, z) = x \o Append(y, z)
<1> TAKE x \in Seq(LoginLines), y \in Seq(LoginLines), z \in LoginLines
<1> QED
    OBVIOUS

(* What is kept of the rest of a list is the end of what is kept of it.     *)
LEMMA LoginParts ==
    ASSUME NEW list \in Seq(LoginLines), NEW m \in 1 .. Len(list) + 1
    PROVE  LET rest == SubSeq(list, m, Len(list))
           IN /\ Len(LoginKept(rest)) <= Len(rest)
              /\ \E front \in Seq(LoginLines) : LoginKept(list) = front \o LoginKept(rest)
              /\ LoginKept(rest) \in Seq(LoginLines)
<1> DEFINE rest == SubSeq(list, m, Len(list))
           n == Len(rest)
<1>1. /\ rest \in Seq(LoginLines) /\ n = Len(list) - m + 1 /\ n \in Nat /\ Len(list) \in Nat
      /\ \A j \in 1 .. n : rest[j] = list[m - 1 + j]
    BY LoginRest
<1> HIDE DEF rest
<1>2. PICK f : LoginTurns(f, list, LoginLines) /\ LoginKept(list) = f[Len(list)]
    BY LoginThose
<1>3. PICK h : LoginTurns(h, rest, LoginLines) /\ LoginKept(rest) = h[n]
    BY <1>1, LoginThose
<1>4. /\ f \in [0 .. Len(list) -> Seq(LoginLines)] /\ h \in [0 .. n -> Seq(LoginLines)] /\ h[0] = <<>>
      /\ \A i \in 1 .. Len(list) :
            f[i] = IF Logins!parseSSHLogLine(list[i]) THEN Append(f[i - 1], list[i]) ELSE f[i - 1]
      /\ \A i \in 1 .. n :
            h[i] = IF Logins!parseSSHLogLine(rest[i]) THEN Append(h[i - 1], rest[i]) ELSE h[i - 1]
    BY <1>2, <1>3 DEF LoginTurns
<1> DEFINE T == {j \in 0 .. n : Len(h[j]) <= j /\ f[m - 1 + j] = f[m - 1] \o h[j]}
<1>5. 0 \in T
  <2>1. f[m - 1] \in Seq(LoginLines) /\ m - 1 + 0 = m - 1 /\ 0 \in 0 .. n
    BY <1>1, <1>4
  <2>2. f[m - 1] \o <<>> = f[m - 1]
    BY <2>1
  <2> QED
    BY <1>4, <2>1, <2>2
<1>6. ASSUME NEW j \in 1 .. n, j - 1 \in T PROVE j \in T
  <2>1. Len(h[j - 1]) <= j - 1 /\ f[m - 1 + (j - 1)] = f[m - 1] \o h[j - 1]
    BY <1>6
  <2>2. /\ m - 1 + j \in 1 .. Len(list) /\ (m - 1 + j) - 1 = m - 1 + (j - 1)
        /\ m - 1 \in 0 .. Len(list) /\ j - 1 \in 0 .. n /\ j \in 0 .. n
    BY <1>1
  <2>3. /\ f[m - 1 + j] = IF Logins!parseSSHLogLine(rest[j]) THEN Append(f[m - 1 + (j - 1)], rest[j])
                          ELSE f[m - 1 + (j - 1)]
        /\ h[j] = IF Logins!parseSSHLogLine(rest[j]) THEN Append(h[j - 1], rest[j]) ELSE h[j - 1]
    BY <1>1, <1>4, <2>2
  <2> HIDE DEF T
  <2>a. h[j - 1] \in Seq(LoginLines) /\ f[m - 1] \in Seq(LoginLines)
    BY ONLY <2>2, <1>4
  <2>b. rest[j] \in LoginLines
    BY <1>1
  <2>4. h[j - 1] \in Seq(LoginLines) /\ f[m - 1] \in Seq(LoginLines) /\ rest[j] \in LoginLines
    BY ONLY <2>a, <2>b
  <2>5. CASE Logins!parseSSHLogLine(rest[j])
    <3>1. f[m - 1 + j] = Append(f[m - 1] \o h[j - 1], rest[j]) /\ h[j] = Append(h[j - 1], rest[j])
      BY <2>1, <2>3, <2>5
    <3>2. Append(f[m - 1] \o h[j - 1], rest[j]) = f[m - 1] \o Append(h[j - 1], rest[j])
      <4> DEFINE s == f[m - 1]
                 t == h[j - 1]
                 e == rest[j]
      <4>1. s \in Seq(LoginLines) /\ t \in Seq(LoginLines) /\ e \in LoginLines
        BY <2>4
      <4> HIDE DEF s, t, e
      <4>a. \A x \in Seq(LoginLines), y \in Seq(LoginLines), z \in LoginLines : Append(x \o y, z) = x \o Append(y, z)
        BY ONLY LoginAppends
      <4>2. Append(s \o t, e) = s \o Append(t, e)
        BY ONLY <4>1, <4>a
      <4> QED
        BY <4>2 DEF s, t, e
    <3>3. Len(h[j]) = Len(h[j - 1]) + 1 /\ Len(h[j - 1]) \in Nat
      BY <2>4, <3>1
    <3>4. Len(h[j]) <= j
      BY <2>1, <3>3
    <3>5. f[m - 1 + j] = f[m - 1] \o h[j]
      BY ONLY <3>1, <3>2
    <3> QED
      BY <2>2, <3>4, <3>5 DEF T
  <2>6. CASE ~Logins!parseSSHLogLine(rest[j])
    <3>1. f[m - 1 + j] = f[m - 1] \o h[j - 1] /\ h[j] = h[j - 1]
      BY ONLY <2>1, <2>3, <2>6
    <3>2. Len(h[j - 1]) \in Nat
      BY <2>4
    <3>3. Len(h[j]) <= j
      BY <2>1, <3>1, <3>2
    <3>4. f[m - 1 + j] = f[m - 1] \o h[j]
      BY ONLY <3>1
    <3> QED
      BY <2>2, <3>3, <3>4 DEF T
  <2> QED
    BY <2>5, <2>6
<1>7. \A j \in 0 .. n : j \in T
  <2> HIDE DEF T
  <2> QED
    BY <1>1, <1>5, <1>6, LoopSteps
<1> HIDE DEF T
<1>8. n \in T
  <2>1. n \in 0 .. n
    BY <1>1
  <2> QED
    BY ONLY <1>7, <2>1
<1>9. Len(h[n]) <= n /\ f[Len(list)] = f[m - 1] \o h[n] /\ h[n] \in Seq(LoginLines) /\ f[m - 1] \in Seq(LoginLines)
  <2>1. Len(h[n]) <= n /\ f[m - 1 + n] = f[m - 1] \o h[n]
    BY <1>8 DEF T
  <2>2. m - 1 + n = Len(list) /\ m - 1 \in 0 .. Len(list) /\ n \in 0 .. n
    BY <1>1
  <2>3. h[n] \in Seq(LoginLines) /\ f[m - 1] \in Seq(LoginLines)
    BY ONLY <1>4, <2>2
  <2>4. f[Len(list)] = f[m - 1] \o h[n]
    BY ONLY <2>1, <2>2
  <2> QED
    BY ONLY <2>1, <2>3, <2>4
<1> QED
    BY <1>2, <1>3, <1>9 DEF rest

(* What the invariant says of the login history.                            *)
LEMMA LoginsShow ==
    ASSUME LoginsInv
    PROVE  Logins!HistoryIsNewest /\ Logins!TypeOK
<1> DEFINE all == LoginKept(log)
           got == Logins!GetLoginHistory
           S == LoginLines
           m == IF Len(log) > Limit THEN Len(log) - Limit + 1 ELSE 1
           rest == SubSeq(log, m, Len(log))
<1>1. log \in Seq(S) /\ Len(log) \in Nat /\ Limit \in Nat /\ m \in 1 .. Len(log) + 1
    BY LoginNumbers DEF LoginsInv
<1>2. Logins!TypeOK
    BY DEF LoginsInv, Logins!TypeOK
<1>3. Len(got) <= Limit /\ got = Logins!LastOf(all, Len(got))
  <2>1. CASE journal
    <3>1. got = LoginKept(rest)
      BY <2>1 DEF Logins!GetLoginHistory, Logins!LastOf, LoginKept
    <3> HIDE DEF m, S
    <3>2. /\ Len(LoginKept(rest)) <= Len(rest)
          /\ \E front \in Seq(S) : all = front \o LoginKept(rest)
          /\ LoginKept(rest) \in Seq(S)
      BY <1>1, LoginParts DEF S
    <3>3. PICK front \in Seq(S) : all = front \o LoginKept(rest)
      BY <3>2
    <3>4. Logins!LastOf(all, Len(LoginKept(rest))) = LoginKept(rest)
      BY <3>2, <3>3, LoginEnd
    <3>5. Len(rest) = Len(log) - m + 1
      BY <1>1, LoginRest
    <3>6. Len(rest) <= Limit
      BY <1>1, <3>5 DEF m
    <3>7. Len(LoginKept(rest)) <= Limit
      <4> HIDE DEF rest
      <4>1. Len(LoginKept(rest)) \in Nat
        BY <3>2
      <4>2. Len(rest) \in Int
        BY <1>1, <3>5
      <4> QED
        BY <1>1, <3>2, <3>6, <4>1, <4>2
    <3> QED
      BY <3>1, <3>4, <3>7
  <2>2. CASE ~journal
    <3>1. got = Logins!LastOf(all, Limit)
      BY <2>2 DEF Logins!GetLoginHistory, Logins!getLoginHistoryFromAuthLog, LoginKept
    <3>2. all \in Seq(S)
      <4>1. 1 \in 1 .. Len(log) + 1 /\ SubSeq(log, 1, Len(log)) = log
        BY <1>1
      <4> QED
        BY <1>1, <4>1, LoginParts
    <3> HIDE DEF all, got, S, m
    <3>3. Len(all) \in Nat
      BY <3>2
    <3>4. CASE Len(all) > Limit
      <4>1. Logins!LastOf(all, Limit) = SubSeq(all, Len(all) - Limit + 1, Len(all))
        BY <3>4 DEF Logins!LastOf
      <4>2. Len(all) - Limit + 1 \in 1 .. Len(all) + 1
        BY <1>1, <3>3, <3>4
      <4>3. Len(SubSeq(all, Len(all) - Limit + 1, Len(all))) = Limit
        <5>1. Len(SubSeq(all, Len(all) - Limit + 1, Len(all))) = Len(all) - (Len(all) - Limit + 1) + 1
          BY <3>2, <4>2, LoginRest
        <5> QED
          BY <1>1, <3>3, <5>1
      <4> QED
        BY <1>1, <3>1, <4>1, <4>3
    <3>5. CASE ~(Len(all) > Limit)
      <4>1. Logins!LastOf(all, Limit) = SubSeq(all, 1, Len(all))
        BY <3>5 DEF Logins!LastOf
      <4>2. SubSeq(all, 1, Len(all)) = all
        BY <3>2
      <4>3. ~(Len(all) > Len(all))
        BY <3>3
      <4>4. Logins!LastOf(all, Len(all)) = SubSeq(all, 1, Len(all))
        BY <4>3 DEF Logins!LastOf
      <4> QED
        BY <1>1, <3>1, <3>3, <3>5, <4>1, <4>2, <4>4
    <3> QED
      BY <3>4, <3>5
  <2> QED
    BY <2>1, <2>2
<1>4. Logins!HistoryIsNewest
    BY <1>3 DEF Logins!HistoryIsNewest, LoginKept
<1> QED
    BY <1>2, <1>4

-----------------------------------------------------------------------------
(* The monitor. The newest points are in the ring, one behind the other     *)
(* back from the head, and what was taken out or saved is older than what   *)
(* is in the ring.                                                          *)
MonSlot(h, k) == IF h - 1 - k >= 0 THEN h - 1 - k ELSE h - 1 - k + ringSize
MonRises(s) == \A i, j \in 1 .. Len(s) : i < j => s[i] < s[j]
MonUpto(s, m) == \A i \in 1 .. Len(s) : s[i] <= m
MonPoints == 1 .. MaxPoints
MonRing ==
    /\ ringBuffer \in [0 .. ringSize - 1 -> 0 .. MaxPoints]
    /\ ringHead \in 0 .. ringSize - 1
    /\ ringCount \in 0 .. ringSize
    /\ ringCount <= collected
    /\ \A k \in 0 .. ringSize - 1 :
          k < collected => ringBuffer[MonSlot(ringHead, k)] = collected - k
MonSaved ==
    /\ batch \in Seq(MonPoints) /\ db \in Seq(MonPoints)
    /\ MonRises(batch) /\ MonUpto(batch, collected - ringCount)
    /\ MonRises(db) /\ MonUpto(db, collected - ringCount)
    /\ \A i \in 1 .. Len(db), j \in 1 .. Len(batch) : db[i] < batch[j]
MonRest ==
    /\ collected \in 0 .. MaxPoints
    /\ ctxDone \in BOOLEAN /\ flusher \in {"run", "done"}
    /\ monShown \in 0 .. MaxPoints
MonInv == MonRing /\ MonSaved /\ MonRest

(* The sizes are numbers.                                                   *)
LEMMA MonNumbers ==
    /\ ringSize \in Nat \ {0} /\ maxHistoryPoints \in Nat \ {0}
    /\ Retention \in Nat /\ MaxPoints \in Nat
BY MonitorAssumption DEF Mon!MonitorBounds

(* The next slot, before the end of the ring.                               *)
LEMMA MonModSmall ==
    ASSUME NEW n \in Nat \ {0}, NEW a \in 0 .. n - 1
    PROVE  a % n = a
OBVIOUS

(* The next slot, where the ring goes round.                                *)
LEMMA MonModOver ==
    ASSUME NEW n \in Nat \ {0}, NEW a \in n .. 2 * n - 1
    PROVE  a % n = a - n
OBVIOUS

(* The invariant holds at the start.                                        *)
LEMMA MonInit == Init => MonInv
<1> SUFFICES ASSUME Init PROVE MonInv
    OBVIOUS
<1>1. /\ ringBuffer = [i \in 0 .. (ringSize - 1) |-> 0] /\ ringHead = 0 /\ ringCount = 0
      /\ collected = 0 /\ batch = <<>> /\ db = <<>> /\ ctxDone = FALSE /\ flusher = "run"
      /\ monShown = 0
    BY DEF Init, Mon!Init
<1>2. MonRing
    BY <1>1, MonNumbers DEF MonRing
<1>3. MonSaved
    BY <1>1 DEF MonSaved, MonRises, MonUpto
<1>4. MonRest
    BY <1>1, MonNumbers DEF MonRest
<1> QED
    BY <1>2, <1>3, <1>4 DEF MonInv

MonThoseFrom(list, since) == Mon!Those(list, LAMBDA p : p >= since)
MonTurns(f, list, since, S) ==
    /\ f \in [0 .. Len(list) -> Seq(S)]
    /\ f[0] = <<>>
    /\ \A i \in 1 .. Len(list) :
          f[i] = IF list[i] >= since THEN Append(f[i - 1], list[i]) ELSE f[i - 1]

(* What is kept of a sequence is in its order.                              *)
LEMMA MonThose ==
    ASSUME NEW S, NEW list \in Seq(S), NEW since
    PROVE  \E f : MonTurns(f, list, since, S) /\ MonThoseFrom(list, since) = f[Len(list)]
<1> DEFINE n == Len(list)
           V == Seq(S)
           b == <<>>
           Turn(i, kept) == IF list[i] >= since THEN Append(kept, list[i]) ELSE kept
           G == [i \in 1 .. n |-> [v \in V |-> Turn(i, v)]]
           F == CHOOSE f : f = [i \in 0 .. n |-> IF i = 0 THEN b ELSE Turn(i, f[i - 1])]
<1>1. n \in Nat /\ b \in V
    OBVIOUS
<1>2. ASSUME NEW i \in 1 .. n, NEW v \in V PROVE Turn(i, v) \in V
    OBVIOUS
<1>3. MonThoseFrom(list, since) = F[n]
    BY DEF MonThoseFrom, Mon!Those
<1> HIDE DEF V, Turn, n, b
<1>4. G \in [1 .. n -> [V -> V]]
    BY <1>2
<1>5. ASSUME NEW f \in [0 .. n -> V], f[0] = b, \A i \in 1 .. n : f[i] = G[i][f[i - 1]]
      PROVE  f = [i \in 0 .. n |-> IF i = 0 THEN b ELSE Turn(i, f[i - 1])]
  <2>1. ASSUME NEW i \in 1 .. n PROVE f[i] = Turn(i, f[i - 1])
    <3>1. f[i - 1] \in V
        BY <1>1
    <3> QED
        BY <1>5, <3>1
  <2>2. \A i \in 0 .. n : f[i] = IF i = 0 THEN b ELSE Turn(i, f[i - 1])
      BY <1>1, <1>5, <2>1
  <2> QED
      BY <2>2
<1>6. ASSUME NEW f, f = [i \in 0 .. n |-> IF i = 0 THEN b ELSE Turn(i, f[i - 1])]
      PROVE  F = [i \in 0 .. n |-> IF i = 0 THEN b ELSE Turn(i, F[i - 1])]
    BY <1>6
<1> HIDE DEF F
<1>7. ASSUME NEW f \in [0 .. n -> V], f[0] = b, \A i \in 1 .. n : f[i] = G[i][f[i - 1]]
      PROVE  F[0] = b /\ \A i \in 1 .. n : F[i - 1] \in V => F[i] = G[i][F[i - 1]]
  <2>1. F = [i \in 0 .. n |-> IF i = 0 THEN b ELSE Turn(i, F[i - 1])]
      BY <1>5, <1>6, <1>7
  <2>2. F[0] = b /\ \A i \in 1 .. n : F[i] = Turn(i, F[i - 1])
      BY <1>1, <2>1
  <2> QED
      BY <2>2
<1> HIDE DEF G
<1>8. LoopOf(V, b, n, G, F)
    BY <1>1, <1>4, <1>7 DEF LoopOf
<1>9. \A i \in 0 .. n : F[i] \in V
    BY <1>8, LoopKeeps
<1>10. F[0] = b /\ \A i \in 1 .. n : F[i - 1] \in V /\ F[i] = G[i][F[i - 1]]
    BY <1>8, LoopRuns
<1>11. \A i \in 1 .. n : F[i] = Turn(i, F[i - 1])
    BY <1>10 DEF G
<1> DEFINE H == [i \in 0 .. n |-> F[i]]
<1>12. H \in [0 .. n -> V] /\ H[0] = b /\ H[n] = F[n]
    BY <1>1, <1>9, <1>10
<1>13. \A i \in 1 .. n : H[i] = Turn(i, H[i - 1])
    BY <1>1, <1>11
<1> HIDE DEF H
<1>14. \A i \in 1 .. n : H[i] = IF list[i] >= since THEN Append(H[i - 1], list[i]) ELSE H[i - 1]
    BY <1>13 DEF Turn
<1> QED
    BY <1>3, <1>12, <1>14 DEF V, n, b, MonTurns

(* Part of a list that rises.                                               *)
MonPart(kept, list, m) ==
    /\ MonRises(kept)
    /\ \A k \in 1 .. Len(kept) : \E j \in 1 .. m : kept[k] = list[j]

(* CleanOldData keeps the order of what is saved.                           *)
LEMMA MonCleans ==
    ASSUME NEW S \in SUBSET Nat, NEW list \in Seq(S), MonRises(list), NEW since
    PROVE  /\ MonThoseFrom(list, since) \in Seq(S)
           /\ MonPart(MonThoseFrom(list, since), list, Len(list))
<1> DEFINE n == Len(list)
<1>1. PICK f : MonTurns(f, list, since, S) /\ MonThoseFrom(list, since) = f[n]
    BY MonThose
<1>a. /\ f \in [0 .. n -> Seq(S)] /\ f[0] = <<>>
      /\ \A i \in 1 .. n :
            f[i] = IF list[i] >= since THEN Append(f[i - 1], list[i]) ELSE f[i - 1]
    BY <1>1 DEF MonTurns
<1> DEFINE Good(i) == MonPart(f[i], list, i)
           T == {i \in 0 .. n : Good(i)}
<1>2. n \in Nat /\ 0 \in T
    BY <1>a DEF MonRises, MonPart
<1>3. ASSUME NEW i \in 1 .. n, i - 1 \in T PROVE i \in T
  <2>1. /\ f[i - 1] \in Seq(S) /\ list[i] \in S /\ MonRises(f[i - 1])
        /\ \A k \in 1 .. Len(f[i - 1]) : \E j \in 1 .. i - 1 : f[i - 1][k] = list[j]
    BY <1>a, <1>3 DEF MonPart
  <2>2. CASE f[i] = f[i - 1]
    <3>1. MonRises(f[i])
      BY <2>1, <2>2
    <3>2. ASSUME NEW k \in 1 .. Len(f[i]) PROVE \E j \in 1 .. i : f[i][k] = list[j]
      <4>1. PICK j \in 1 .. i - 1 : f[i - 1][k] = list[j]
        BY <2>1, <2>2
      <4>2. j \in 1 .. i /\ f[i][k] = list[j]
        BY <2>2, <4>1
      <4> QED
        BY <4>2
    <3> QED
      BY <3>1, <3>2 DEF MonPart
  <2>3. CASE f[i] = Append(f[i - 1], list[i])
    <3>1. \A k \in 1 .. Len(f[i - 1]) : f[i - 1][k] < list[i]
      <4> TAKE k \in 1 .. Len(f[i - 1])
      <4>1. PICK j \in 1 .. i - 1 : f[i - 1][k] = list[j]
        BY <2>1
      <4> QED
        BY <4>1 DEF MonRises
    <3>2. /\ Len(f[i]) = Len(f[i - 1]) + 1
          /\ \A k \in 1 .. Len(f[i - 1]) : f[i][k] = f[i - 1][k]
          /\ f[i][Len(f[i - 1]) + 1] = list[i]
      BY <2>1, <2>3
    <3>3. MonRises(f[i])
      <4> SUFFICES ASSUME NEW k \in 1 .. Len(f[i]), NEW l \in 1 .. Len(f[i]), k < l
                   PROVE  f[i][k] < f[i][l]
        BY DEF MonRises
      <4>0. Len(f[i - 1]) \in Nat /\ k \in 1 .. Len(f[i - 1])
        BY <2>1, <3>2
      <4>1. CASE l = Len(f[i - 1]) + 1
        BY <4>0, <4>1, <3>1, <3>2
      <4>2. CASE l # Len(f[i - 1]) + 1
        <5>1. l \in 1 .. Len(f[i - 1])
          BY <4>0, <4>2, <3>2
        <5> QED
          BY <4>0, <5>1, <2>1, <3>2 DEF MonRises
      <4> QED
        BY <4>1, <4>2
    <3>4. ASSUME NEW k \in 1 .. Len(f[i]) PROVE \E j \in 1 .. i : f[i][k] = list[j]
      <4>1. CASE k = Len(f[i - 1]) + 1
        <5>1. f[i][k] = list[i] /\ i \in 1 .. i
          BY <4>1, <3>2
        <5> QED
          BY <5>1
      <4>2. CASE k \in 1 .. Len(f[i - 1])
        <5>1. PICK j \in 1 .. i - 1 : f[i - 1][k] = list[j]
          BY <2>1, <4>2
        <5>2. j \in 1 .. i /\ f[i][k] = list[j]
          BY <3>2, <4>2, <5>1
        <5> QED
          BY <5>2
      <4> QED
        BY <4>1, <4>2, <3>2, <2>1
    <3> QED
      BY <3>3, <3>4 DEF MonPart
  <2> QED
    BY <1>a, <2>2, <2>3
<1>4. \A i \in 0 .. n : i \in T
  <2> HIDE DEF T
  <2> QED
    BY <1>2, <1>3, LoopSteps
<1>5. n \in T
    BY <1>2, <1>4
<1>6. MonPart(f[n], list, n) /\ f[n] \in Seq(S)
    BY <1>a, <1>2, <1>5
<1> QED
    BY <1>1, <1>6

(* addToBuffer puts the newest point at the head.                           *)
LEMMA MonAdds ==
    ASSUME MonInv, Mon!collect(FALSE) \/ Mon!collect(TRUE)
    PROVE  MonRing'
<1> USE MonNumbers
<1>1. /\ collected' = collected + 1 /\ collected < MaxPoints
      /\ ringBuffer' = [ringBuffer EXCEPT ![ringHead] = collected + 1]
      /\ ringHead' = (ringHead + 1) % ringSize
      /\ ringCount' = IF ringCount < ringSize THEN ringCount + 1 ELSE ringCount
    BY DEF Mon!collect, Mon!addToBuffer
<1>2. MonRing /\ collected \in Nat
    BY DEF MonInv, MonRest
<1>3. ringHead' = IF ringHead + 1 = ringSize THEN 0 ELSE ringHead + 1
  <2>1. ringHead \in 0 .. ringSize - 1
    BY <1>2 DEF MonRing
  <2>2. CASE ringHead + 1 = ringSize
    <3>1. ringSize \in ringSize .. 2 * ringSize - 1
      OBVIOUS
    <3>2. ringSize % ringSize = ringSize - ringSize
      BY <3>1, MonModOver
    <3> QED
      BY <1>1, <2>2, <3>2
  <2>3. CASE ringHead + 1 # ringSize
    <3>1. ringHead + 1 \in 0 .. ringSize - 1
      BY <2>1, <2>3
    <3>2. (ringHead + 1) % ringSize = ringHead + 1
      BY <3>1, MonModSmall
    <3> QED
      BY <1>1, <2>3, <3>2
  <2> QED
    BY <2>2, <2>3
<1>4. ringBuffer' \in [0 .. ringSize - 1 -> 0 .. MaxPoints]
    BY <1>1, <1>2 DEF MonRing
<1>5. ASSUME NEW k \in 0 .. ringSize - 1, k < collected'
      PROVE  ringBuffer'[MonSlot(ringHead', k)] = collected' - k
  <2>1. CASE k = 0
    <3>1. MonSlot(ringHead', k) = ringHead
      BY <1>2, <1>3, <2>1 DEF MonRing, MonSlot
    <3> QED
      BY <1>1, <1>2, <2>1, <3>1 DEF MonRing
  <2>2. CASE k # 0
    <3>1. k - 1 \in 0 .. ringSize - 1 /\ k - 1 < collected
      BY <1>1, <1>2, <1>5, <2>2
    <3>2. /\ MonSlot(ringHead', k) = MonSlot(ringHead, k - 1)
          /\ MonSlot(ringHead, k - 1) # ringHead
          /\ MonSlot(ringHead, k - 1) \in 0 .. ringSize - 1
      BY <1>2, <1>3, <2>2 DEF MonRing, MonSlot
    <3>3. ringBuffer[MonSlot(ringHead, k - 1)] = collected - (k - 1)
      BY <1>2, <3>1 DEF MonRing
    <3> QED
      BY <1>1, <1>2, <3>2, <3>3 DEF MonRing
  <2> QED
    BY <2>1, <2>2
<1> QED
    BY <1>1, <1>2, <1>3, <1>4, <1>5 DEF MonRing

(* collect takes a point.                                                   *)
LEMMA MonCollects ==
    ASSUME MonInv, NEW due \in BOOLEAN, Mon!collect(due)
    PROVE  MonInv'
<1> USE MonNumbers
<1>1. /\ collected' = collected + 1 /\ collected < MaxPoints /\ UNCHANGED <<batch, ctxDone, flusher, monShown>>
      /\ ringCount' = IF ringCount < ringSize THEN ringCount + 1 ELSE ringCount
      /\ db' = IF due THEN MonThoseFrom(db, collected + 1 - Retention) ELSE db
    BY DEF Mon!collect, Mon!addToBuffer, Mon!cleanup, Mon!Clean, MonThoseFrom
<1>2. MonRing /\ MonSaved /\ MonRest
    BY DEF MonInv
<1>3. MonRing'
    BY MonAdds
<1>4. collected' - ringCount' >= collected - ringCount
    BY <1>1, <1>2 DEF MonRing, MonRest
<1>5. db' \in Seq(MonPoints) /\ MonRises(db') /\ MonPart(db', db, Len(db))
  <2>1. db \in Seq(MonPoints) /\ MonRises(db) /\ MonPoints \in SUBSET Nat
    BY <1>2 DEF MonSaved, MonPoints
  <2>2. CASE due
    BY <1>1, <2>1, <2>2, MonCleans DEF MonPart
  <2>3. CASE ~due
    BY <1>1, <2>1, <2>3 DEF MonPart
  <2> QED
    BY <2>2, <2>3
<1>6. MonSaved'
  <2>1. /\ db \in Seq(MonPoints) /\ batch \in Seq(MonPoints) /\ MonRises(batch)
        /\ MonUpto(batch, collected - ringCount) /\ MonUpto(db, collected - ringCount)
        /\ \A i \in 1 .. Len(db), j \in 1 .. Len(batch) : db[i] < batch[j]
    BY <1>2 DEF MonSaved
  <2>2. collected - ringCount \in Int /\ collected' - ringCount' \in Int
    BY <1>1, <1>2 DEF MonRing, MonRest
  <2>3. MonUpto(batch, collected' - ringCount')
    BY <1>4, <2>1, <2>2, SMTT(40) DEF MonUpto, MonPoints
  <2>4. \A i \in 1 .. Len(db') : \E j \in 1 .. Len(db) : db'[i] = db[j]
    BY <1>5 DEF MonPart
  <2>5. MonUpto(db', collected' - ringCount')
    BY <1>4, <2>1, <2>2, <2>4, SMTT(40) DEF MonUpto, MonPoints
  <2>6. \A i \in 1 .. Len(db'), j \in 1 .. Len(batch) : db'[i] < batch[j]
    BY <2>1, <2>4
  <2> QED
    BY <1>1, <1>5, <2>1, <2>3, <2>5, <2>6 DEF MonSaved
<1>7. MonRest'
    BY <1>1, <1>2 DEF MonRest
<1> QED
    BY <1>3, <1>6, <1>7 DEF MonInv

(* What a flush would take out: the newest points in their order.           *)
LEMMA MonTakes ==
    ASSUME MonRing, collected \in Nat
    PROVE  /\ Mon!Buffered \in Seq(Int) /\ Len(Mon!Buffered) = ringCount
           /\ \A i \in 1 .. ringCount : Mon!Buffered[i] = collected - ringCount + i
<1> USE MonNumbers
<1>1. /\ ringHead \in 0 .. ringSize - 1 /\ ringCount \in 0 .. ringSize /\ ringCount <= collected
      /\ \A k \in 0 .. ringSize - 1 : k < collected => ringBuffer[MonSlot(ringHead, k)] = collected - k
    BY DEF MonRing
<1> DEFINE h == ringHead
           c == ringCount
           tail == (h - c + ringSize) % ringSize
<1>2. CASE ringCount = 0
    BY <1>2 DEF Mon!Buffered
<1>3. CASE ringCount # 0
  <2>1. tail = IF h >= c THEN h - c ELSE h - c + ringSize
    <3>1. CASE h >= c
      <4>1. h - c + ringSize \in ringSize .. 2 * ringSize - 1
        BY <1>1, <3>1
      <4>2. tail = (h - c + ringSize) - ringSize
        BY <4>1, MonModOver
      <4> QED
        BY <1>1, <3>1, <4>2
    <3>2. CASE ~(h >= c)
      <4>1. h - c + ringSize \in 0 .. ringSize - 1
        BY <1>1, <3>2
      <4> QED
        BY <3>2, <4>1, MonModSmall
    <3> QED
      BY <3>1, <3>2
  <2> HIDE DEF tail
  <2>2. ASSUME NEW i \in 1 .. c
        PROVE  ringBuffer[(tail + i - 1) % ringSize] = collected - c + i
    <3>1. tail \in 0 .. ringSize - 1 /\ c - i \in 0 .. ringSize - 1 /\ c - i < collected
      BY <1>1, <2>1
    <3>2. (tail + i - 1) % ringSize = IF tail + i - 1 < ringSize THEN tail + i - 1 ELSE tail + i - 1 - ringSize
      <4>1. CASE tail + i - 1 < ringSize
        <5>1. tail + i - 1 \in 0 .. ringSize - 1
          BY <3>1, <4>1
        <5>2. (tail + i - 1) % ringSize = tail + i - 1
          BY <5>1, MonModSmall
        <5> QED
          BY <4>1, <5>2
      <4>2. CASE ~(tail + i - 1 < ringSize)
        <5>1. tail + i - 1 \in ringSize .. 2 * ringSize - 1
          BY <1>1, <3>1, <4>2
        <5>2. (tail + i - 1) % ringSize = (tail + i - 1) - ringSize
          BY <5>1, MonModOver
        <5> QED
          BY <4>2, <5>1, <5>2, <3>1
      <4> QED
        BY <4>1, <4>2
    <3>3. (tail + i - 1) % ringSize = MonSlot(h, c - i)
      BY <1>1, <2>1, <3>2 DEF MonSlot
    <3>4. ringBuffer[MonSlot(h, c - i)] = collected - (c - i)
      BY <1>1, <3>1
    <3> QED
      BY <1>1, <3>3, <3>4
  <2>3. Mon!Buffered = [i \in 1 .. c |-> ringBuffer[(tail + i - 1) % ringSize]]
    BY DEF Mon!Buffered, tail
  <2>4. \A i \in 1 .. c : Mon!Buffered[i] = collected - c + i
    BY <2>2, <2>3
  <2>5. Mon!Buffered \in [1 .. c -> Int] /\ c \in Nat
    BY <1>1, <2>3, <2>4
  <2> HIDE DEF c
  <2>6. Mon!Buffered \in Seq(Int) /\ Len(Mon!Buffered) = c
    BY <2>5
  <2> QED
    BY <2>4, <2>6 DEF c
<1> QED
    BY <1>2, <1>3

(* flushBuffer empties the ring.                                            *)
LEMMA MonFlushes ==
    ASSUME MonInv, Mon!flushBuffer
    PROVE  MonInv'
<1> USE MonNumbers
<1>1. /\ batch = <<>> /\ batch' = Mon!Buffered /\ ringCount' = 0
      /\ UNCHANGED <<ringBuffer, ringHead, collected, db, ctxDone, flusher, monShown>>
    BY DEF Mon!flushBuffer
<1>2. MonRing /\ MonSaved /\ MonRest /\ collected \in Nat /\ collected <= MaxPoints
    BY DEF MonInv, MonRest
<1>3. /\ Mon!Buffered \in Seq(Int) /\ Len(Mon!Buffered) = ringCount
      /\ \A i \in 1 .. ringCount : Mon!Buffered[i] = collected - ringCount + i
    BY <1>2, MonTakes
<1>4. ringCount \in Nat /\ ringCount <= collected
    BY <1>2 DEF MonRing
<1>5. MonRing'
    BY <1>1, <1>2 DEF MonRing
<1>6. MonSaved'
  <2>1. /\ db \in Seq(MonPoints) /\ MonRises(db) /\ MonUpto(db, collected - ringCount)
    BY <1>2 DEF MonSaved
  <2>2. batch' \in Seq(MonPoints)
    <3>1. \A i \in 1 .. Len(Mon!Buffered) : Mon!Buffered[i] \in MonPoints
      BY <1>2, <1>3, <1>4 DEF MonPoints
    <3> QED
      BY <1>1, <1>3, <3>1
  <2>3. MonRises(batch') /\ MonUpto(batch', collected)
    BY <1>1, <1>2, <1>3, <1>4 DEF MonRises, MonUpto
  <2>4. MonUpto(db, collected)
    BY <1>2, <1>4, <2>1 DEF MonUpto, MonPoints
  <2>5. ASSUME NEW i \in 1 .. Len(db), NEW j \in 1 .. Len(batch') PROVE db[i] < batch'[j]
    <3>1. db[i] <= collected - ringCount /\ db[i] \in Int
      BY <2>1 DEF MonUpto, MonPoints
    <3>2. j \in 1 .. ringCount /\ batch'[j] = collected - ringCount + j
      BY <1>1, <1>3
    <3> QED
      BY <1>2, <1>4, <3>1, <3>2
  <2>6. collected' - ringCount' = collected
    BY <1>1, <1>2
  <2> QED
    BY <1>1, <2>1, <2>2, <2>3, <2>4, <2>5, <2>6 DEF MonSaved
<1>7. MonRest'
    BY <1>1, <1>2 DEF MonRest
<1> QED
    BY <1>5, <1>6, <1>7 DEF MonInv

(* The batch is saved, or lost.                                             *)
LEMMA MonSaves ==
    ASSUME MonInv, NEW fails \in BOOLEAN, Mon!Flushed(fails)
    PROVE  MonInv'
<1> USE MonNumbers
<1>1. /\ batch' = <<>> /\ (db' = db \/ db' = db \o batch)
      /\ UNCHANGED <<ringBuffer, ringHead, ringCount, collected, ctxDone, flusher, monShown>>
    BY DEF Mon!Flushed, Mon!SaveBatch
<1>2. MonRing /\ MonSaved /\ MonRest /\ MonRing' /\ MonRest'
    BY <1>1 DEF MonInv, MonRing, MonRest
<1>3. /\ batch \in Seq(MonPoints) /\ db \in Seq(MonPoints)
      /\ MonRises(batch) /\ MonUpto(batch, collected - ringCount)
      /\ MonRises(db) /\ MonUpto(db, collected - ringCount)
      /\ \A i \in 1 .. Len(db), j \in 1 .. Len(batch) : db[i] < batch[j]
    BY <1>2 DEF MonSaved
<1>4. batch' \in Seq(MonPoints) /\ MonRises(batch') /\ MonUpto(batch', collected - ringCount)
      /\ \A i \in 1 .. Len(db'), j \in 1 .. Len(batch') : db'[i] < batch'[j]
    BY <1>1 DEF MonRises, MonUpto
<1>a. collected' - ringCount' = collected - ringCount
    BY <1>1
<1>b. ASSUME db' \in Seq(MonPoints), MonRises(db'), MonUpto(db', collected - ringCount)
      PROVE  MonSaved'
    BY ONLY <1>a, <1>b, <1>4 DEF MonSaved
<1>5. CASE db' = db
  <2>1. db \in Seq(MonPoints) /\ MonRises(db) /\ MonUpto(db, collected - ringCount)
    BY <1>3
  <2>2. db' \in Seq(MonPoints) /\ MonRises(db') /\ MonUpto(db', collected - ringCount)
    BY ONLY <2>1, <1>5
  <2> QED
    BY ONLY <1>b, <2>2, <1>2 DEF MonInv
<1>6. CASE db' = db \o batch
  <2>0. Len(db) \in Nat /\ Len(batch) \in Nat
    BY <1>3
  <2>1. /\ db' \in Seq(MonPoints) /\ Len(db') = Len(db) + Len(batch)
        /\ \A i \in 1 .. Len(db) : db'[i] = db[i]
        /\ \A i \in Len(db) + 1 .. Len(db) + Len(batch) : db'[i] = batch[i - Len(db)]
    BY <1>3, <1>6
  <2>2. MonRises(db')
    <3> SUFFICES ASSUME NEW i \in 1 .. Len(db'), NEW j \in 1 .. Len(db'), i < j
                 PROVE  db'[i] < db'[j]
      BY DEF MonRises
    <3>1. CASE j <= Len(db)
      <4>1. i \in 1 .. Len(db) /\ j \in 1 .. Len(db)
        BY <2>0, <3>1
      <4> QED
        BY <4>1, <2>1, <1>3 DEF MonRises
    <3>2. CASE j > Len(db) /\ i <= Len(db)
      <4>1. i \in 1 .. Len(db) /\ j - Len(db) \in 1 .. Len(batch)
            /\ j \in Len(db) + 1 .. Len(db) + Len(batch)
        BY <2>0, <2>1, <3>2
      <4>2. db'[i] = db[i] /\ db'[j] = batch[j - Len(db)]
        BY <4>1, <2>1
      <4> QED
        BY <4>1, <4>2, <1>3
    <3>3. CASE i > Len(db)
      <4>1. i - Len(db) \in 1 .. Len(batch) /\ j - Len(db) \in 1 .. Len(batch)
            /\ i \in Len(db) + 1 .. Len(db) + Len(batch)
            /\ j \in Len(db) + 1 .. Len(db) + Len(batch)
            /\ i - Len(db) < j - Len(db)
        BY <2>0, <2>1, <3>3
      <4>2. db'[i] = batch[i - Len(db)] /\ db'[j] = batch[j - Len(db)]
        BY <4>1, <2>1
      <4> QED
        BY <4>1, <4>2, <1>3 DEF MonRises
    <3> QED
      BY <2>0, <2>1, <3>1, <3>2, <3>3
  <2>3. MonUpto(db', collected - ringCount)
    <3> SUFFICES ASSUME NEW i \in 1 .. Len(db') PROVE db'[i] <= collected - ringCount
      BY DEF MonUpto
    <3>1. CASE i <= Len(db)
      <4>1. i \in 1 .. Len(db)
        BY <2>0, <3>1
      <4> QED
        BY <4>1, <2>1, <1>3 DEF MonUpto
    <3>2. CASE i > Len(db)
      <4>1. i - Len(db) \in 1 .. Len(batch) /\ i \in Len(db) + 1 .. Len(db) + Len(batch)
        BY <2>0, <2>1, <3>2
      <4> QED
        BY <4>1, <2>1, <1>3 DEF MonUpto
    <3> QED
      BY <2>0, <3>1, <3>2
  <2>4. db' \in Seq(MonPoints)
    BY <2>1
  <2> QED
    BY ONLY <1>b, <2>2, <2>3, <2>4, <1>2 DEF MonInv
<1> QED
    BY <1>1, <1>2, <1>5, <1>6 DEF MonInv

(* The context ends.                                                        *)
LEMMA MonStops ==
    ASSUME MonInv, Mon!Stops
    PROVE  MonInv'
<1>1. /\ UNCHANGED <<ringBuffer, ringHead, ringCount, collected, batch, db, monShown>>
      /\ ctxDone' \in {TRUE, ctxDone} /\ flusher' \in {"done", flusher}
    BY DEF Mon!Stops, Mon!run
<1> QED
    BY <1>1 DEF MonInv, MonRing, MonSaved, MonRest

(* GetCurrent.                                                              *)
LEMMA MonCurrent ==
    ASSUME MonInv
    PROVE  Mon!Current \in 0 .. MaxPoints
<1> USE MonNumbers
<1>1. MonRing /\ MonSaved
    BY DEF MonInv
<1>2. Mon!GetLatestPoint \in 0 .. MaxPoints
  <2>1. /\ ringHead \in 0 .. ringSize - 1
        /\ ringBuffer \in [0 .. ringSize - 1 -> 0 .. MaxPoints]
    BY <1>1 DEF MonRing
  <2>2. (ringHead - 1 + ringSize) % ringSize \in 0 .. ringSize - 1
    <3>1. CASE ringHead = 0
      <4>1. ringHead - 1 + ringSize \in 0 .. ringSize - 1
        BY <3>1
      <4> QED
        BY <4>1, MonModSmall
    <3>2. CASE ringHead # 0
      <4>1. ringHead - 1 + ringSize \in ringSize .. 2 * ringSize - 1
        BY <2>1, <3>2
      <4>2. (ringHead - 1 + ringSize) % ringSize = (ringHead - 1 + ringSize) - ringSize
        BY <4>1, MonModOver
      <4> QED
        BY <4>2, <2>1, <3>2
    <3> QED
      BY <3>1, <3>2
  <2>3. ringBuffer[(ringHead - 1 + ringSize) % ringSize] \in 0 .. MaxPoints
    BY <2>1, <2>2
  <2> QED
    BY <2>3 DEF Mon!GetLatestPoint
<1>3. Mon!GetLatest \in 0 .. MaxPoints
  <2>1. db \in Seq(MonPoints)
    BY <1>1 DEF MonSaved
  <2>2. CASE db = <<>>
    BY <2>2 DEF Mon!GetLatest
  <2>3. CASE db # <<>>
    <3>1. Len(db) \in 1 .. Len(db)
      BY <2>1, <2>3
    <3>2. db[Len(db)] \in MonPoints
      BY <2>1, <3>1
    <3> QED
      BY <2>3, <3>2 DEF Mon!GetLatest, Mon!Last, MonPoints
  <2> QED
    BY <2>2, <2>3
<1> QED
    BY <1>2, <1>3 DEF Mon!Current

(* GetHistory.                                                              *)
LEMMA MonAsked ==
    ASSUME MonInv, Mon!GetCurrentStats
    PROVE  MonInv'
<1>1. /\ UNCHANGED <<ringBuffer, ringHead, ringCount, collected, batch, db, ctxDone, flusher>>
      /\ monShown' \in {Mon!Current, monShown}
    BY DEF Mon!GetCurrentStats
<1>2. monShown' \in 0 .. MaxPoints
    BY <1>1, MonCurrent DEF MonInv, MonRest
<1> QED
    BY <1>1, <1>2 DEF MonInv, MonRing, MonSaved, MonRest

(* The invariant holds on while the part does nothing.                      *)
LEMMA MonStutters == ASSUME MonInv, UNCHANGED Mon!vars PROVE MonInv'
BY DEF MonInv, MonRing, MonSaved, MonRest, Mon!vars

(* Every step of the monitor keeps the invariant.                           *)
LEMMA MonStep == ASSUME MonInv, Mon!Next PROVE MonInv'
<1>1. ASSUME NEW due \in BOOLEAN, Mon!collect(due) PROVE MonInv'
    BY <1>1, MonCollects
<1>2. ASSUME NEW fails \in BOOLEAN, Mon!Flushed(fails) PROVE MonInv'
    BY <1>2, MonSaves
<1> QED
    BY <1>1, <1>2, MonFlushes, MonStops, MonAsked DEF Mon!Next

(* A chart of the whole table or of every step-th point of it.              *)
LEMMA MonSteps ==
    ASSUME NEW N \in Nat \ {0}, NEW n \in Nat, n > N
    PROVE  n \div N \in Nat \ {0}
OBVIOUS

(* Bounds of a quotient.                                                    *)
LEMMA MonQuotient ==
    ASSUME NEW s \in Nat \ {0}, NEW a \in Nat
    PROVE  a \div s \in Nat /\ (a \div s) * s <= a
OBVIOUS

(* A chart that is thinned out begins with the first point and ends with    *)
(* the last.                                                                *)
LEMMA MonChart ==
    ASSUME NEW S, NEW points \in Seq(S), points # <<>>
    PROVE  /\ Mon!GetHistory(points) # <<>>
           /\ Mon!GetHistory(points) \in Seq(S)
           /\ Mon!GetHistory(points)[1] = points[1]
           /\ Mon!GetHistory(points)[Len(Mon!GetHistory(points))] = points[Len(points)]
<1> DEFINE n == Len(points)
           step == n \div maxHistoryPoints
           m == ((n - 1) \div step) + 1
           sampled == [i \in 1 .. m |-> points[(i - 1) * step + 1]]
           all == Mon!GetHistory(points)
<1>1. n \in Nat \ {0} /\ 1 \in 1 .. n /\ n \in 1 .. n
    OBVIOUS
<1>2. CASE n <= maxHistoryPoints
  <2>1. all = points
    BY <1>2 DEF Mon!GetHistory
  <2> QED
    BY <1>1, <2>1
<1>3. CASE n > maxHistoryPoints
  <2>1. step \in Nat \ {0}
    BY <1>1, <1>3, MonNumbers, MonSteps
  <2> HIDE DEF step
  <2>2. (n - 1) \div step \in Nat /\ ((n - 1) \div step) * step <= n - 1
    BY <1>1, <2>1, MonQuotient
  <2>3. m \in Nat \ {0} /\ (m - 1) * step <= n - 1
    BY <2>2
  <2>4. ASSUME NEW i \in 1 .. m PROVE (i - 1) * step + 1 \in 1 .. n
    <3>1. (i - 1) * step <= (m - 1) * step /\ (i - 1) * step \in Nat
      BY <2>1, <2>3
    <3> QED
      BY <1>1, <2>1, <2>3, <3>1
  <2> HIDE DEF m
  <2>a. ASSUME NEW i \in 1 .. m PROVE points[(i - 1) * step + 1] \in S
    BY <2>4
  <2>b. sampled \in [1 .. m -> S]
    BY <2>a
  <2>c. sampled[1] = points[(1 - 1) * step + 1]
    BY <2>3
  <2>5. /\ sampled \in Seq(S) /\ Len(sampled) = m /\ sampled # <<>>
        /\ sampled[1] = points[(1 - 1) * step + 1]
    <3> HIDE DEF sampled
    <3> QED
      BY <2>3, <2>b, <2>c
  <2>6. sampled[1] = points[1]
    BY <2>1, <2>5
  <2>d. all = IF Mon!Last(sampled) # Mon!Last(points) THEN Append(sampled, Mon!Last(points)) ELSE sampled
    BY <1>1, <1>3, MonNumbers DEF Mon!GetHistory, m, step
  <2> HIDE DEF sampled
  <2>7. all = IF sampled[m] # points[n] THEN Append(sampled, points[n]) ELSE sampled
    BY <2>5, <2>d DEF Mon!Last
  <2> HIDE DEF all
  <2>8. CASE sampled[m] # points[n]
    <3>1. all = Append(sampled, points[n]) /\ points[n] \in S
      BY <1>1, <2>7, <2>8
    <3>2. all \in Seq(S) /\ Len(all) = m + 1 /\ all[1] = sampled[1] /\ all[m + 1] = points[n]
      BY <2>3, <2>5, <3>1
    <3> QED
      BY <2>3, <2>6, <3>2 DEF all
  <2>9. CASE sampled[m] = points[n]
    <3>1. all = sampled
      BY <2>7, <2>9
    <3> QED
      BY <2>3, <2>5, <2>6, <2>9, <3>1 DEF all
  <2> QED
    BY <2>8, <2>9
<1> QED
    BY <1>1, <1>2, <1>3, MonNumbers

(* What the invariant says of the monitor.                                  *)
LEMMA MonShows ==
    ASSUME MonInv
    PROVE  Mon!RingIsRecent /\ Mon!SavedOnce /\ Mon!ChartKeepsEnds /\ Mon!TypeOK
<1> USE MonNumbers
<1>1. MonRing /\ MonSaved /\ MonRest /\ collected \in Nat
    BY DEF MonInv, MonRest
<1>2. Mon!RingIsRecent
    BY <1>1, MonTakes DEF Mon!RingIsRecent
<1>3. Mon!SavedOnce
    BY <1>1 DEF MonSaved, MonRises, Mon!SavedOnce
<1>4. Mon!ChartKeepsEnds
  <2> SUFFICES ASSUME db # <<>>
               PROVE  /\ Head(Mon!GetHistory(db)) = Head(db)
                      /\ Mon!Last(Mon!GetHistory(db)) = Mon!Last(db)
    BY DEF Mon!ChartKeepsEnds
  <2>1. db \in Seq(MonPoints)
    BY <1>1 DEF MonSaved
  <2>2. /\ Mon!GetHistory(db) # <<>>
        /\ Mon!GetHistory(db) \in Seq(MonPoints)
        /\ Mon!GetHistory(db)[1] = db[1]
        /\ Mon!GetHistory(db)[Len(Mon!GetHistory(db))] = db[Len(db)]
    BY <2>1, MonChart
  <2>3. Head(Mon!GetHistory(db)) = Mon!GetHistory(db)[1] /\ Head(db) = db[1]
    BY <2>1, <2>2
  <2> QED
    BY <2>2, <2>3 DEF Mon!Last
<1>5. Mon!TypeOK
    BY <1>1 DEF MonRing, MonSaved, MonRest, MonPoints, Mon!TypeOK
<1> QED
    BY <1>2, <1>3, <1>4, <1>5

-----------------------------------------------------------------------------
(* The parts together.                                                      *)
IInv == DbTyped /\ BkTyped /\ LoginsInv /\ MonInv

(* The invariant holds in the initial states.                               *)
LEMMA IInit == Init => IInv
BY DbInit, BkInit, DbTypedInit, BkTypedInit, LoginsInit, MonInit DEF Init, IInv, DbTyped, BkTyped

(* Instances and their types, while another part moves.                     *)
LEMMA DbRests == ASSUME DbTyped, UNCHANGED dbVars PROVE DbTyped'
BY DbStutter, DbTypedStutter DEF DbTyped

(* Backups and their types, while another part moves.                       *)
LEMMA BkRests == ASSUME BkTyped, UNCHANGED backupVars PROVE BkTyped'
BY BkStutter, BkTypedStutter DEF BkTyped

(* The monitor, while another part moves.                                   *)
LEMMA MonRests == ASSUME MonInv, UNCHANGED monVars PROVE MonInv'
BY MonStutters DEF Mon!vars, monVars

(* A step of one part keeps its invariant and leaves the other parts alone. *)
LEMMA IStep == IInv /\ [Next]_vars => IInv'
<1> SUFFICES ASSUME IInv, [Next]_vars PROVE IInv'
    OBVIOUS
<1>1. CASE part = "db" /\ Instances!Next /\ UNCHANGED <<part, backupVars, loginsVars, monVars>>
    BY <1>1, DbStep, DbTypedStep, BkRests, LoginsStutters, MonRests DEF IInv, DbTyped
<1>2. CASE part = "backup" /\ Backups!Next /\ UNCHANGED <<part, dbVars, loginsVars, monVars>>
    BY <1>2, BkStep, BkTypedStep, DbRests, LoginsStutters, MonRests DEF IInv, BkTyped
<1>3. CASE part = "logins" /\ Logins!Next /\ UNCHANGED <<part, dbVars, backupVars, monVars>>
    BY <1>3, LoginsStep, DbRests, BkRests, MonRests DEF IInv
<1>4. CASE part = "mon" /\ Mon!Next /\ UNCHANGED <<part, dbVars, backupVars, loginsVars>>
    BY <1>4, MonStep, DbRests, BkRests, LoginsStutters DEF IInv
<1>5. CASE UNCHANGED vars
    BY <1>5, DbRests, BkRests, LoginsStutters, MonRests DEF IInv, vars
<1> QED
    BY <1>1, <1>2, <1>3, <1>4, <1>5 DEF Next

(* The invariant holds throughout.                                          *)
THEOREM Invariance == Spec => []IInv
BY IInit, IStep, PTL DEF Spec

(* What the panel shows of databases is true, whichever steps fail and      *)
(* however installs overlap with requests: an install is listed as under    *)
(* way only while its goroutine runs or the panel was restarted, and as     *)
(* failed only when that was notified (CreateInstance, installFailed);      *)
(* cached connections dial the port of the row (poolFor and                 *)
(* recreateInstanceContainer) and, while nothing has failed, the container  *)
(* made for the instance has it; and a backup shown as running is that of   *)
(* the task (CreateBackup, SweepOrphanBackups).                             *)
THEOREM ViewHolds == Spec => []ViewIsTrue
<1>1. IInv => ViewIsTrue
    BY DbShows, BkShows DEF IInv, DbTyped, BkTyped, ViewIsTrue
<1> QED
    BY <1>1, Invariance, PTL

(* restoreRedis: when no restore runs, the dump in place is not one of a    *)
(* backup, unless the panel stopped in the middle or two restores ran at    *)
(* once.                                                                    *)
THEOREM RestoresWhole == Spec => []NoHalfRestore
<1>1. IInv => NoHalfRestore
    BY BkShows DEF IInv, BkTyped, NoHalfRestore
<1> QED
    BY <1>1, Invariance, PTL

(* A flush of the monitor takes the newest points out of the ring, oldest   *)
(* first, also after the ring went round, and a point is saved once at most *)
(* however collecting falls into a flush and whatever batch is lost         *)
(* (addToBuffer, flushBuffer); a chart begins with the first point and ends *)
(* with the last (GetHistory); and reading only the last lines of a log     *)
(* gives the newest logins (GetLoginHistory).                               *)
THEOREM RecordsStayInOrder == Spec => []RecordsInOrder
<1>1. IInv => RecordsInOrder
    BY MonShows, LoginsShow DEF IInv, RecordsInOrder
<1> QED
    BY <1>1, Invariance, PTL

(* The rows, containers and installs of instances, the backups with their   *)
(* files and restores, the record of logins and the history of the monitor  *)
(* keep their types: no request, failing step or restart puts there what    *)
(* the code does not declare.                                               *)
THEOREM TypeCorrect == Spec => []TypeOK
<1>1. IInv => TypeOK
    BY DbTypedShows, BkTypedShows, LoginsShow, MonShows DEF IInv, TypeOK
<1> QED
    BY <1>1, Invariance, PTL
=============================================================================
