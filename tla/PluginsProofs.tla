---------------------------- MODULE PluginsProofs ----------------------------
(***************************************************************************)
(* Proofs about Plugins, for every value of its constants: the stores of   *)
(* the manager agree between requests, a disabled plugin has nothing left, *)
(* only the newest token is accepted, every running process is watched,    *)
(* and every variable keeps its type. Every part has its inductive         *)
(* invariant, with a lemma for its initial states, one per action, one for *)
(* the steps of the other parts and one for what it implies. The last      *)
(* section puts them together.                                             *)
(***************************************************************************)
EXTENDS Plugins, FiniteSetTheorems, SequenceTheorems, TLAPS

-----------------------------------------------------------------------------
(* One request at a time. Beside the types, the invariant says for every    *)
(* control point of a request where the directory, the row and the manifest *)
(* may differ, and what is left of a plugin that is not enabled.            *)
OneLabels == {"idle", "validate", "lookup", "issue", "ensure", "wait", "revoke", "enable", "subscribe",
             "schedule", "stop", "unsubscribe", "unschedule", "clear", "disable", "unload", "delete",
             "move", "insert", "load", "record", "halt", "backup", "replace", "update", "rollback",
             "putback", "restore", "reload", "cleanup", "scan"}
OneOps == {"none", "start", "approve", "stop", "disable", "remove", "install", "boot"}
OneRows == [ver : OneVersions \cup {One!None}, enabled : BOOLEAN, approved : SUBSET OnePermissions]
OneRow == [ver : OneVersions, enabled : BOOLEAN, approved : SUBSET OnePermissions]
OneProcess == [ver : OneVersions, tok : 1..OneMaxTokens, alive : BOOLEAN, ready : BOOLEAN]
OneReqs == [pc : OneLabels, op : OneOps, mft : OneVersions \cup {One!None}, approved : SUBSET OnePermissions,
            tok : 0..OneMaxTokens, new : OneVersions \cup {One!None}, old : OneRows,
            bak : OneVersions \cup {One!None}]

OneTypes ==
    /\ oneDisk \in OneVersions \cup {One!None} /\ oneDb \in {One!NoRow} \cup OneRow
    /\ oneManifest \in OneVersions \cup {One!None}
    /\ oneTokens \subseteq 1..OneMaxTokens
    /\ oneProc \in {One!NoProc} \cup OneProcess
    /\ oneSubscribed \in BOOLEAN /\ oneScheduled \in BOOLEAN
    /\ oneLastToken \in 0..OneMaxTokens /\ oneFaults \in 0..OneMaxFaults /\ oneRestarts \in 0..OneMaxRestarts
    /\ oneGranted \subseteq OnePermissions

(* The local variables of the requests have their types.                    *)
OneTyped == oneReq \in [OneRequests -> OneReqs]

(* What a request has read at its control point.                            *)
OneLocals ==
    \A r \in OneRequests :
        /\ oneReq[r].pc = "ensure" => oneReq[r].tok \in 1..OneMaxTokens
        /\ oneReq[r].pc \in {"move", "insert", "load", "record", "halt", "backup", "replace", "update"} =>
              oneReq[r].new \in OneVersions
        /\ oneReq[r].pc \in {"halt", "backup", "replace", "update", "rollback", "putback", "restore"} =>
              oneReq[r].old \in OneRow
        /\ oneReq[r].pc \in {"replace", "update", "rollback", "putback"} => oneReq[r].bak \in OneVersions

(* The directory, the row and the loaded manifest are of one version.       *)
OneAgree ==
    /\ oneDb = One!NoRow <=> oneManifest = One!None
    /\ oneDb # One!NoRow => oneDisk = oneDb.ver /\ oneManifest = oneDb.ver

OneStoresAt(r) ==
    /\ oneReq[r].pc \notin {"insert", "load", "replace", "update", "rollback", "putback", "scan", "delete"} =>
          OneAgree
    /\ oneReq[r].pc = "move" => oneDisk = One!None
    /\ oneReq[r].pc = "insert" =>
          oneDb = One!NoRow /\ oneManifest = One!None /\ oneDisk = oneReq[r].new
    /\ oneReq[r].pc = "load" =>
          oneDb # One!NoRow /\ oneDisk = oneReq[r].new /\ oneDb.ver = oneReq[r].new
    /\ oneReq[r].pc \in {"issue", "ensure", "wait", "revoke", "enable", "subscribe", "schedule", "reload"} =>
          oneDb # One!NoRow
    /\ oneReq[r].pc \in {"halt", "backup", "replace", "update", "rollback", "putback", "restore"} =>
          oneDb # One!NoRow /\ oneReq[r].old.ver = oneDb.ver
    /\ oneReq[r].pc \in {"replace", "update", "rollback", "putback"} =>
          oneManifest = oneDb.ver /\ oneReq[r].bak = oneDb.ver
    /\ oneReq[r].pc \in {"replace", "putback"} => oneDisk = One!None
    /\ oneReq[r].pc = "update" => oneDisk = oneReq[r].new
    /\ oneReq[r].pc = "scan" =>
          oneManifest = One!None /\ (oneDb # One!NoRow => oneDisk = oneDb.ver)
    /\ oneReq[r].pc = "delete" => oneManifest = One!None

(* A plugin that is not enabled. A process that was killed before it became *)
(* healthy is not restarted by the supervisor.                              *)
OneOff == oneDb = One!NoRow \/ ~oneDb.enabled
OneDead == ~oneProc.alive /\ ~oneProc.ready

OneRestAt(r) ==
    /\ oneReq[r].pc \notin {"ensure", "wait", "enable", "revoke"} /\ OneOff =>
          OneDead /\ oneTokens = {} /\ ~oneSubscribed /\ ~oneScheduled
    /\ oneReq[r].pc \in {"ensure", "wait", "revoke"} /\ OneOff =>
          ~oneProc.ready /\ oneTokens \subseteq {oneReq[r].tok} /\ ~oneSubscribed /\ ~oneScheduled
    /\ oneReq[r].pc \in {"ensure", "revoke"} /\ OneOff => ~oneProc.alive
    /\ oneReq[r].pc = "wait" => oneProc # One!NoProc /\ oneProc.tok = oneReq[r].tok
    /\ oneReq[r].pc \in {"subscribe", "schedule"} => ~OneOff
    /\ oneReq[r].pc \in {"unsubscribe", "unschedule", "clear", "disable"} => oneProc = One!NoProc
    /\ oneReq[r].pc \in {"unschedule", "clear", "disable"} => ~oneSubscribed
    /\ oneReq[r].pc \in {"clear", "disable"} => ~oneScheduled
    /\ oneReq[r].pc = "disable" => oneTokens = {}
    /\ oneReq[r].pc \in {"unload", "delete"} => OneOff

(* The scope of the two: one request at a time, no restart of the panel in  *)
(* the middle of it; and for the second, no failure of SetPluginEnabled,    *)
(* after which StartWithApproved leaves the process and its token.          *)
OneAlone == (\E q \in OneRequests : OneRequests = {q}) /\ ~OneRestartAnywhere
OneEnables == "enable" \notin OneFaults

OneStores == \A r \in OneRequests : OneStoresAt(r)
OneRest == \A r \in OneRequests : OneRestAt(r)
OneInv ==
    /\ OneTypes /\ OneTyped /\ OneLocals
    /\ OneAlone => OneStores
    /\ OneAlone /\ OneEnables => OneRest

(* The constants.                                                           *)
LEMMA OneNumbers ==
    /\ One!None \notin OneVersions /\ OneDeclared \in [OneVersions -> SUBSET OnePermissions]
    /\ OneMaxFaults \in Nat /\ OneMaxTokens \in Nat /\ OneMaxRestarts \in Nat
BY OneAssumption DEF One!LifecycleBounds

(* No row, and a request that is not under way.                             *)
LEMMA OneNothing ==
    /\ One!NoRow \in OneRows /\ One!NoRow \notin OneRow /\ One!NoRow.ver = One!None /\ One!NoRow.enabled = FALSE
    /\ OneRow \subseteq OneRows
    /\ One!NoProc.alive = FALSE /\ One!NoProc.ready = FALSE
    /\ One!Idle \in OneReqs /\ One!Idle.pc = "idle" /\ One!Idle.old = One!NoRow
<1>1. One!NoRow \in OneRows /\ One!NoRow \notin OneRow /\ One!NoRow.ver = One!None /\ One!NoRow.enabled = FALSE
    BY OneNumbers DEF One!NoRow, One!Row, OneRows, OneRow
<1>2. OneRow \subseteq OneRows
    BY DEF OneRows, OneRow
<1>3. One!NoProc.alive = FALSE /\ One!NoProc.ready = FALSE
    BY DEF One!NoProc
<1>4. One!Idle \in OneReqs /\ One!Idle.pc = "idle" /\ One!Idle.old = One!NoRow
    BY <1>1, OneNumbers DEF One!Idle, OneReqs, OneLabels, OneOps
<1> QED
    BY <1>1, <1>2, <1>3, <1>4

(* The fields of a row, of a process and of a request.                      *)
LEMMA OneFields ==
    /\ \A d \in OneRow : d.ver \in OneVersions /\ d.enabled \in BOOLEAN /\ d.approved \subseteq OnePermissions
    /\ \A d \in OneRows : d.ver \in OneVersions \cup {One!None} /\ d.enabled \in BOOLEAN /\ d.approved \subseteq OnePermissions
    /\ \A p \in OneProcess : p.ver \in OneVersions /\ p.tok \in 1..OneMaxTokens /\ p.alive \in BOOLEAN /\ p.ready \in BOOLEAN
    /\ \A q \in OneReqs : /\ q.mft \in OneVersions \cup {One!None} /\ q.approved \subseteq OnePermissions
                        /\ q.tok \in 0..OneMaxTokens /\ q.new \in OneVersions \cup {One!None} /\ q.old \in OneRows
                        /\ q.bak \in OneVersions \cup {One!None}
BY DEF OneRow, OneRows, OneProcess, OneReqs

(* A request goes on to its next control point, or returns.                 *)
OneSame(r) ==
    /\ oneReq'[r].mft = oneReq[r].mft /\ oneReq'[r].approved = oneReq[r].approved /\ oneReq'[r].tok = oneReq[r].tok
    /\ oneReq'[r].new = oneReq[r].new /\ oneReq'[r].old = oneReq[r].old /\ oneReq'[r].bak = oneReq[r].bak
OneRestSame(r) == \A q \in OneRequests : q # r => oneReq'[q] = oneReq[q]

(* A request goes on to its next control point.                             *)
LEMMA OneGoes ==
    ASSUME OneTyped, NEW r \in OneRequests, NEW l \in OneLabels, One!Goto(r, l)
    PROVE  OneTyped' /\ OneRestSame(r) /\ oneReq'[r].pc = l /\ OneSame(r)
<1>1. oneReq \in [OneRequests -> OneReqs] /\ oneReq' = [oneReq EXCEPT ![r].pc = l] /\ oneReq[r] \in OneReqs
    BY DEF OneTyped, One!Goto
<1>2. oneReq'[r] = [oneReq[r] EXCEPT !.pc = l] /\ OneRestSame(r)
    BY <1>1 DEF OneRestSame
<1>3. oneReq'[r] \in OneReqs /\ oneReq'[r].pc = l /\ OneSame(r)
    BY <1>1, <1>2 DEF OneReqs, OneSame
<1>4. oneReq' \in [OneRequests -> OneReqs]
    BY <1>1, <1>2, <1>3 DEF OneRestSame
<1> QED
    BY <1>2, <1>3, <1>4 DEF OneTyped

(* A request returns.                                                       *)
LEMMA OneEnds ==
    ASSUME OneTyped, NEW r \in OneRequests, One!Done(r)
    PROVE  OneTyped' /\ OneRestSame(r) /\ oneReq'[r] = One!Idle /\ oneReq'[r].pc = "idle"
BY OneNothing DEF OneTyped, One!Done, OneRestSame

(* A start is over.                                                         *)
LEMMA OneAfter ==
    ASSUME OneTyped, NEW r \in OneRequests, One!AfterStart(r)
    PROVE  OneTyped' /\ OneRestSame(r) /\ oneReq'[r].pc \in {"idle", "cleanup"}
<1>1. CASE One!Goto(r, "cleanup")
    BY <1>1, OneGoes DEF OneLabels
<1>2. CASE One!Done(r)
    BY <1>2, OneEnds
<1> QED
    BY <1>1, <1>2 DEF One!AfterStart

(* A request takes a step with its variables.                               *)
LEMMA OnePuts ==
    ASSUME OneTyped, NEW r \in OneRequests, NEW z \in OneReqs, oneReq' = [oneReq EXCEPT ![r] = z]
    PROVE  OneTyped' /\ OneRestSame(r) /\ oneReq'[r] = z
BY DEF OneTyped, OneRestSame

(* What a start approves are permissions.                                   *)
LEMMA OneApproves ==
    ASSUME OneTypes, oneManifest # One!None, NEW w \in SUBSET OnePermissions
    PROVE  One!Approved(oneManifest, w) \subseteq OnePermissions
BY OneNumbers DEF OneTypes, One!Approved

(* UpsertPlugin writes a row of that version.                               *)
LEMMA OneUpserts ==
    ASSUME OneTypes, NEW v \in OneVersions, NEW e \in BOOLEAN, NEW a \in SUBSET OnePermissions
    PROVE  /\ One!Upserted(v, e, a) \in OneRow /\ One!Upserted(v, e, a) # One!NoRow
           /\ One!Upserted(v, e, a).ver = v
           /\ One!Upserted(v, e, a).enabled = IF oneDb = One!NoRow THEN e ELSE oneDb.enabled
<1>1. CASE oneDb = One!NoRow
  <2>1. One!Upserted(v, e, a) = One!Row(v, e, a)
    BY <1>1 DEF One!Upserted
  <2> QED
    BY <1>1, <2>1, OneNothing DEF One!Row, OneRow
<1>2. CASE oneDb # One!NoRow
  <2>1. One!Upserted(v, e, a) = [oneDb EXCEPT !.ver = v] /\ oneDb \in OneRow
    BY <1>2 DEF One!Upserted, OneTypes
  <2> QED
    BY <1>2, <2>1, OneNothing DEF OneRow
<1> QED
    BY <1>1, <1>2

(* Approve looks the manifest up, and refuses or goes on.                   *)
LEMMA OneValidates == ASSUME OneInv, NEW r \in OneRequests, One!Validate(r) PROVE OneInv'
<1>0. /\ OneTypes /\ OneTyped /\ OneLocals
      /\ OneAlone => OneStores
      /\ OneAlone /\ OneEnables => OneRest
    BY DEF OneInv
<1>1. /\ oneReq[r].pc = "validate"
      /\ UNCHANGED <<oneDisk, oneDb, oneManifest, oneTokens, oneProc, oneSubscribed, oneScheduled, oneLastToken, oneFaults, oneRestarts, oneGranted>>
    BY DEF One!Validate, One!stores, One!runtime, One!counters, One!At, One!Works, One!Fails
<1>2. /\ OneTyped' /\ OneRestSame(r)
      /\ oneReq'[r].pc \in {"idle", "lookup"}
  <2>0. oneReq[r] \in OneReqs
    BY <1>0 DEF OneTyped
  <2>1. CASE One!Done(r)
    <3>1. OneTyped' /\ OneRestSame(r) /\ oneReq'[r].pc = "idle"
      BY <1>0, <2>1, OneEnds
    <3> QED
      BY <2>1, <3>1
  <2>2. CASE \E w \in SUBSET OneDeclared[oneManifest] :
                oneManifest # One!None /\ oneReq' = [oneReq EXCEPT ![r].pc = "lookup", ![r].approved = w]
    <3>1. PICK w \in SUBSET OnePermissions : oneReq' = [oneReq EXCEPT ![r].pc = "lookup", ![r].approved = w]
      BY <1>0, <2>2, OneNumbers DEF OneTypes
    <3> DEFINE z == [oneReq[r] EXCEPT !.pc = "lookup", !.approved = w]
    <3>3. "lookup" \in OneLabels
      BY <1>0, <1>1, <2>0, <2>2, <3>1, OneNumbers DEF OneTypes, OneLabels, OneOps
    <3>4. z \in OneReqs
      BY <2>0, <3>3 DEF OneReqs
    <3>5. oneReq' = [oneReq EXCEPT ![r] = z]
      BY <1>0, <1>1, <2>0, <2>2, <3>1 DEF OneTyped, One!Validate
    <3>6. z.pc = "lookup"
      BY <2>0 DEF OneReqs
    <3> HIDE DEF z
    <3>7. OneTyped' /\ OneRestSame(r) /\ oneReq'[r] = z
      BY <1>0, <3>4, <3>5, OnePuts
    <3> QED
      BY <2>2, <3>6, <3>7
  <2> QED
    BY <1>1, <2>1, <2>2 DEF One!Validate
<1>5. oneReq[r] \in OneReqs
    BY <1>0 DEF OneTyped
<1>6. OneTypes'
    BY <1>0, <1>1, <1>2, <1>5, OneNumbers, OneNothing, OneFields DEF OneTypes, OneLocals
<1>7. OneLocals'
    BY <1>0, <1>1, <1>2, <1>5, OneNumbers, OneFields DEF OneLocals, OneRestSame, OneSame
<1>8. OneAlone => OneStores'
  <2>1. OneAlone => OneStoresAt(r)
    BY <1>0 DEF OneStores
  <2>2. OneAlone => OneStoresAt(r)'
    BY <1>0, <1>1, <1>2, <1>5, <2>1, OneNumbers, OneNothing, OneFields DEF OneStoresAt, OneAgree, OneSame, OneTypes, OneLocals, One!Row
  <2> QED
    BY <2>2 DEF OneStores, OneAlone
<1>9. OneAlone /\ OneEnables => OneRest'
  <2>1. OneAlone /\ OneEnables => OneRestAt(r) /\ OneStoresAt(r)
    BY <1>0 DEF OneRest, OneStores
  <2>2. OneAlone /\ OneEnables => OneRestAt(r)'
    BY <1>0, <1>1, <1>2, <1>5, <2>1, OneNumbers, OneNothing, OneFields DEF OneRestAt, OneStoresAt, OneAgree, OneOff, OneDead, OneSame, OneTypes, OneLocals, OneEnables, One!Row, One!Mine
  <2> QED
    BY <2>2 DEF OneRest, OneAlone
<1> QED
    BY <1>2, <1>6, <1>7, <1>8, <1>9 DEF OneInv

(* StartWithApproved looks the manifest up; without one it ends.            *)
LEMMA OneLooksUp == ASSUME OneInv, NEW r \in OneRequests, One!LookUp(r) PROVE OneInv'
<1>0. /\ OneTypes /\ OneTyped /\ OneLocals
      /\ OneAlone => OneStores
      /\ OneAlone /\ OneEnables => OneRest
    BY DEF OneInv
<1>1. /\ oneReq[r].pc = "lookup"
      /\ UNCHANGED <<oneDisk, oneDb, oneManifest, oneTokens, oneProc, oneSubscribed, oneScheduled, oneLastToken, oneFaults, oneRestarts, oneGranted>>
    BY DEF One!LookUp, One!stores, One!runtime, One!counters, One!At, One!Works, One!Fails
<1>2. /\ OneTyped' /\ OneRestSame(r)
      /\ \/ oneReq'[r].pc \in {"idle", "cleanup"}
         \/ oneReq'[r].pc = "issue" /\ oneManifest # One!None
  <2>0. oneReq[r] \in OneReqs
    BY <1>0 DEF OneTyped
  <2>1. CASE oneManifest = One!None /\ One!AfterStart(r)
    <3>1. OneTyped' /\ OneRestSame(r) /\ oneReq'[r].pc \in {"idle", "cleanup"}
      BY <1>0, <2>1, OneAfter
    <3> QED
      BY <2>1, <3>1
  <2>2. CASE oneManifest # One!None
    <3> DEFINE z == [oneReq[r] EXCEPT !.pc = "issue", !.mft = oneManifest,
                                   !.approved = One!Approved(oneManifest, oneReq[r].approved)]
    <3>3. /\ "issue" \in OneLabels /\ oneManifest \in OneVersions \cup {One!None}
          /\ One!Approved(oneManifest, oneReq[r].approved) \in SUBSET OnePermissions
      BY <1>0, <1>1, <2>0, <2>2, OneFields, OneApproves DEF OneTypes, OneLabels, OneOps
    <3>4. z \in OneReqs
      BY <2>0, <3>3 DEF OneReqs
    <3>5. oneReq' = [oneReq EXCEPT ![r] = z]
      BY <1>0, <1>1, <2>0, <2>2 DEF OneTyped, One!LookUp
    <3>6. z.pc = "issue"
      BY <2>0 DEF OneReqs
    <3> HIDE DEF z
    <3>7. OneTyped' /\ OneRestSame(r) /\ oneReq'[r] = z
      BY <1>0, <3>4, <3>5, OnePuts
    <3> QED
      BY <2>2, <3>6, <3>7
  <2> QED
    BY <1>1, <2>1, <2>2 DEF One!LookUp
<1>5. oneReq[r] \in OneReqs
    BY <1>0 DEF OneTyped
<1>6. OneTypes'
    BY <1>0, <1>1, <1>2, <1>5, OneNumbers, OneNothing, OneFields DEF OneTypes, OneLocals
<1>7. OneLocals'
    BY <1>0, <1>1, <1>2, <1>5, OneNumbers, OneFields DEF OneLocals, OneRestSame, OneSame
<1>8. OneAlone => OneStores'
  <2>1. OneAlone => OneStoresAt(r)
    BY <1>0 DEF OneStores
  <2>2. OneAlone => OneStoresAt(r)'
    BY <1>0, <1>1, <1>2, <1>5, <2>1, OneNumbers, OneNothing, OneFields DEF OneStoresAt, OneAgree, OneSame, OneTypes, OneLocals, One!Row
  <2> QED
    BY <2>2 DEF OneStores, OneAlone
<1>9. OneAlone /\ OneEnables => OneRest'
  <2>1. OneAlone /\ OneEnables => OneRestAt(r) /\ OneStoresAt(r)
    BY <1>0 DEF OneRest, OneStores
  <2>2. OneAlone /\ OneEnables => OneRestAt(r)'
    BY <1>0, <1>1, <1>2, <1>5, <2>1, OneNumbers, OneNothing, OneFields DEF OneRestAt, OneStoresAt, OneAgree, OneOff, OneDead, OneSame, OneTypes, OneLocals, OneEnables, One!Row, One!Mine
  <2> QED
    BY <2>2 DEF OneRest, OneAlone
<1> QED
    BY <1>2, <1>6, <1>7, <1>8, <1>9 DEF OneInv

(* The new token replaces all tokens.                                       *)
LEMMA OneIssues == ASSUME OneInv, NEW r \in OneRequests, One!IssueToken(r) PROVE OneInv'
<1>0. /\ OneTypes /\ OneTyped /\ OneLocals
      /\ OneAlone => OneStores
      /\ OneAlone /\ OneEnables => OneRest
    BY DEF OneInv
<1>1. /\ oneReq[r].pc = "issue"
      /\ oneLastToken < OneMaxTokens
      /\ oneLastToken' = oneLastToken + 1
      /\ oneTokens' = {oneLastToken + 1}
      /\ UNCHANGED <<oneDisk, oneDb, oneManifest, oneProc, oneSubscribed, oneScheduled, oneFaults, oneRestarts, oneGranted>>
    BY DEF One!IssueToken, One!stores, One!runtime, One!counters, One!At, One!Works, One!Fails, One!TokensAfterIssue
<1>2. /\ OneTyped' /\ OneRestSame(r)
      /\ oneReq'[r].pc = "ensure" /\ oneReq'[r].tok = oneLastToken + 1
  <2>0. oneReq[r] \in OneReqs
    BY <1>0 DEF OneTyped
  <2> DEFINE z == [oneReq[r] EXCEPT !.pc = "ensure", !.tok = oneLastToken + 1]
  <2>3. "ensure" \in OneLabels /\ oneLastToken + 1 \in 0..OneMaxTokens
    BY <1>0, <1>1, <2>0, OneNumbers DEF OneTypes, OneLabels, OneOps
  <2>4. z \in OneReqs
    BY <2>0, <2>3 DEF OneReqs
  <2>5. oneReq' = [oneReq EXCEPT ![r] = z]
    BY <1>0, <1>1, <2>0 DEF OneTyped, One!IssueToken
  <2>6. z.pc = "ensure" /\ z.tok = oneLastToken + 1
    BY <2>0 DEF OneReqs
  <2> HIDE DEF z
  <2>7. OneTyped' /\ OneRestSame(r) /\ oneReq'[r] = z
    BY <1>0, <2>4, <2>5, OnePuts
  <2> QED
    BY <1>1, <2>6, <2>7
<1>5. oneReq[r] \in OneReqs
    BY <1>0 DEF OneTyped
<1>6. OneTypes'
    BY <1>0, <1>1, <1>2, <1>5, OneNumbers, OneNothing, OneFields DEF OneTypes, OneLocals
<1>7. OneLocals'
    BY <1>0, <1>1, <1>2, <1>5, OneNumbers, OneFields DEF OneLocals, OneRestSame, OneSame, OneTypes
<1>8. OneAlone => OneStores'
  <2>1. OneAlone => OneStoresAt(r)
    BY <1>0 DEF OneStores
  <2>2. OneAlone => OneStoresAt(r)'
    BY <1>0, <1>1, <1>2, <1>5, <2>1, OneNumbers, OneNothing, OneFields DEF OneStoresAt, OneAgree, OneSame, OneTypes, OneLocals, One!Row
  <2> QED
    BY <2>2 DEF OneStores, OneAlone
<1>9. OneAlone /\ OneEnables => OneRest'
  <2>1. OneAlone /\ OneEnables => OneRestAt(r) /\ OneStoresAt(r)
    BY <1>0 DEF OneRest, OneStores
  <2>2. OneAlone /\ OneEnables => OneRestAt(r)'
    BY <1>0, <1>1, <1>2, <1>5, <2>1, OneNumbers, OneNothing, OneFields DEF OneRestAt, OneStoresAt, OneAgree, OneOff, OneDead, OneSame, OneTypes, OneLocals, OneEnables, One!Row, One!Mine
  <2> QED
    BY <2>2 DEF OneRest, OneAlone
<1> QED
    BY <1>2, <1>6, <1>7, <1>8, <1>9 DEF OneInv

(* EnsureRunning finds the plugin running.                                  *)
LEMMA OneFindsRunning == ASSUME OneInv, NEW r \in OneRequests, One!AlreadyRunning(r) PROVE OneInv'
<1>0. /\ OneTypes /\ OneTyped /\ OneLocals
      /\ OneAlone => OneStores
      /\ OneAlone /\ OneEnables => OneRest
    BY DEF OneInv
<1>1. /\ oneReq[r].pc = "ensure"
      /\ oneProc.alive
      /\ One!Goto(r, "enable")
      /\ UNCHANGED <<oneDisk, oneDb, oneManifest, oneTokens, oneProc, oneSubscribed, oneScheduled, oneLastToken, oneFaults, oneRestarts, oneGranted>>
    BY DEF One!AlreadyRunning, One!stores, One!runtime, One!counters, One!At, One!Works, One!Fails
<1>2. /\ OneTyped' /\ OneRestSame(r)
      /\ oneReq'[r].pc = "enable" /\ OneSame(r)
    BY <1>0, <1>1, OneGoes DEF OneLabels
<1>5. oneReq[r] \in OneReqs
    BY <1>0 DEF OneTyped
<1>6. OneTypes'
    BY <1>0, <1>1, <1>2, <1>5, OneNumbers, OneNothing, OneFields DEF OneTypes, OneLocals
<1>7. OneLocals'
    BY <1>0, <1>1, <1>2, <1>5, OneNumbers, OneFields DEF OneLocals, OneRestSame, OneSame
<1>8. OneAlone => OneStores'
  <2>1. OneAlone => OneStoresAt(r)
    BY <1>0 DEF OneStores
  <2>2. OneAlone => OneStoresAt(r)'
    BY <1>0, <1>1, <1>2, <1>5, <2>1, OneNumbers, OneNothing, OneFields DEF OneStoresAt, OneAgree, OneSame, OneTypes, OneLocals, One!Row
  <2> QED
    BY <2>2 DEF OneStores, OneAlone
<1>9. OneAlone /\ OneEnables => OneRest'
  <2>1. OneAlone /\ OneEnables => OneRestAt(r) /\ OneStoresAt(r)
    BY <1>0 DEF OneRest, OneStores
  <2>2. OneAlone /\ OneEnables => OneRestAt(r)'
    BY <1>0, <1>1, <1>2, <1>5, <2>1, OneNumbers, OneNothing, OneFields DEF OneRestAt, OneStoresAt, OneAgree, OneOff, OneDead, OneSame, OneTypes, OneLocals, OneEnables, One!Row, One!Mine
  <2> QED
    BY <2>2 DEF OneRest, OneAlone
<1> QED
    BY <1>2, <1>6, <1>7, <1>8, <1>9 DEF OneInv

(* EnsureRunning launches the process with the token.                       *)
LEMMA OneLaunches == ASSUME OneInv, NEW r \in OneRequests, One!Launch(r) PROVE OneInv'
<1>0. /\ OneTypes /\ OneTyped /\ OneLocals
      /\ OneAlone => OneStores
      /\ OneAlone /\ OneEnables => OneRest
    BY DEF OneInv
<1>1. /\ oneReq[r].pc = "ensure"
      /\ ~oneProc.alive /\ oneDisk # One!None
      /\ oneProc' = [ver |-> oneDisk, tok |-> oneReq[r].tok, alive |-> TRUE, ready |-> FALSE]
      /\ One!Goto(r, "wait")
      /\ UNCHANGED <<oneDisk, oneDb, oneManifest, oneTokens, oneSubscribed, oneScheduled, oneLastToken, oneFaults, oneRestarts, oneGranted>>
    BY DEF One!Launch, One!stores, One!runtime, One!counters, One!At, One!Works, One!Fails, One!Executable
<1>2. /\ OneTyped' /\ OneRestSame(r)
      /\ oneReq'[r].pc = "wait" /\ OneSame(r)
    BY <1>0, <1>1, OneGoes DEF OneLabels
<1>5. oneReq[r] \in OneReqs
    BY <1>0 DEF OneTyped
<1>6. OneTypes'
    BY <1>0, <1>1, <1>2, <1>5, OneNumbers, OneNothing, OneFields DEF OneTypes, OneLocals, OneProcess
<1>7. OneLocals'
    BY <1>0, <1>1, <1>2, <1>5, OneNumbers, OneFields DEF OneLocals, OneRestSame, OneSame
<1>8. OneAlone => OneStores'
  <2>1. OneAlone => OneStoresAt(r)
    BY <1>0 DEF OneStores
  <2>2. OneAlone => OneStoresAt(r)'
    BY <1>0, <1>1, <1>2, <1>5, <2>1, OneNumbers, OneNothing, OneFields DEF OneStoresAt, OneAgree, OneSame, OneTypes, OneLocals, One!Row
  <2> QED
    BY <2>2 DEF OneStores, OneAlone
<1>9. OneAlone /\ OneEnables => OneRest'
  <2>1. OneAlone /\ OneEnables => OneRestAt(r) /\ OneStoresAt(r)
    BY <1>0 DEF OneRest, OneStores
  <2>2. OneAlone /\ OneEnables => OneRestAt(r)'
    BY <1>0, <1>1, <1>2, <1>5, <2>1, OneNumbers, OneNothing, OneFields DEF OneRestAt, OneStoresAt, OneAgree, OneOff, OneDead, OneSame, OneTypes, OneLocals, OneEnables, One!Row, One!Mine
  <2> QED
    BY <2>2 DEF OneRest, OneAlone
<1> QED
    BY <1>2, <1>6, <1>7, <1>8, <1>9 DEF OneInv

(* There is no executable, or the exec fails.                               *)
LEMMA OneLaunchFails == ASSUME OneInv, NEW r \in OneRequests, One!LaunchFails(r) PROVE OneInv'
<1>0. /\ OneTypes /\ OneTyped /\ OneLocals
      /\ OneAlone => OneStores
      /\ OneAlone /\ OneEnables => OneRest
    BY DEF OneInv
<1>1. /\ oneReq[r].pc = "ensure"
      /\ ~oneProc.alive
      /\ oneFaults' = oneFaults \/ (oneFaults < OneMaxFaults /\ oneFaults' = oneFaults + 1)
      /\ One!Goto(r, "revoke")
      /\ UNCHANGED <<oneDisk, oneDb, oneManifest, oneTokens, oneProc, oneSubscribed, oneScheduled, oneLastToken, oneRestarts, oneGranted>>
    BY DEF One!LaunchFails, One!stores, One!runtime, One!counters, One!At, One!Works, One!Fails, One!Executable
<1>2. /\ OneTyped' /\ OneRestSame(r)
      /\ oneReq'[r].pc = "revoke" /\ OneSame(r)
    BY <1>0, <1>1, OneGoes DEF OneLabels
<1>5. oneReq[r] \in OneReqs
    BY <1>0 DEF OneTyped
<1>6. OneTypes'
    BY <1>0, <1>1, <1>2, <1>5, OneNumbers, OneNothing, OneFields DEF OneTypes, OneLocals
<1>7. OneLocals'
    BY <1>0, <1>1, <1>2, <1>5, OneNumbers, OneFields DEF OneLocals, OneRestSame, OneSame
<1>8. OneAlone => OneStores'
  <2>1. OneAlone => OneStoresAt(r)
    BY <1>0 DEF OneStores
  <2>2. OneAlone => OneStoresAt(r)'
    BY <1>0, <1>1, <1>2, <1>5, <2>1, OneNumbers, OneNothing, OneFields DEF OneStoresAt, OneAgree, OneSame, OneTypes, OneLocals, One!Row
  <2> QED
    BY <2>2 DEF OneStores, OneAlone
<1>9. OneAlone /\ OneEnables => OneRest'
  <2>1. OneAlone /\ OneEnables => OneRestAt(r) /\ OneStoresAt(r)
    BY <1>0 DEF OneRest, OneStores
  <2>2. OneAlone /\ OneEnables => OneRestAt(r)'
    BY <1>0, <1>1, <1>2, <1>5, <2>1, OneNumbers, OneNothing, OneFields DEF OneRestAt, OneStoresAt, OneAgree, OneOff, OneDead, OneSame, OneTypes, OneLocals, OneEnables, One!Row, One!Mine
  <2> QED
    BY <2>2 DEF OneRest, OneAlone
<1> QED
    BY <1>2, <1>6, <1>7, <1>8, <1>9 DEF OneInv

(* The process becomes healthy.                                             *)
LEMMA OneBecomes == ASSUME OneInv, NEW r \in OneRequests, One!Ready(r) PROVE OneInv'
<1>0. /\ OneTypes /\ OneTyped /\ OneLocals
      /\ OneAlone => OneStores
      /\ OneAlone /\ OneEnables => OneRest
    BY DEF OneInv
<1>1. /\ oneReq[r].pc = "wait"
      /\ One!Mine(r) /\ oneProc' = [oneProc EXCEPT !.ready = TRUE]
      /\ One!Goto(r, "enable")
      /\ UNCHANGED <<oneDisk, oneDb, oneManifest, oneTokens, oneSubscribed, oneScheduled, oneLastToken, oneFaults, oneRestarts, oneGranted>>
    BY DEF One!Ready, One!stores, One!runtime, One!counters, One!At, One!Works, One!Fails
<1>2. /\ OneTyped' /\ OneRestSame(r)
      /\ oneReq'[r].pc = "enable" /\ OneSame(r)
    BY <1>0, <1>1, OneGoes DEF OneLabels
<1>5. oneReq[r] \in OneReqs
    BY <1>0 DEF OneTyped
<1>6. OneTypes'
    BY <1>0, <1>1, <1>2, <1>5, OneNumbers, OneNothing, OneFields DEF OneTypes, OneLocals, OneProcess, One!Mine
<1>7. OneLocals'
    BY <1>0, <1>1, <1>2, <1>5, OneNumbers, OneFields DEF OneLocals, OneRestSame, OneSame
<1>8. OneAlone => OneStores'
  <2>1. OneAlone => OneStoresAt(r)
    BY <1>0 DEF OneStores
  <2>2. OneAlone => OneStoresAt(r)'
    BY <1>0, <1>1, <1>2, <1>5, <2>1, OneNumbers, OneNothing, OneFields DEF OneStoresAt, OneAgree, OneSame, OneTypes, OneLocals, One!Row
  <2> QED
    BY <2>2 DEF OneStores, OneAlone
<1>9. OneAlone /\ OneEnables => OneRest'
  <2>1. OneAlone /\ OneEnables => OneRestAt(r) /\ OneStoresAt(r)
    BY <1>0 DEF OneRest, OneStores
  <2>2. OneAlone /\ OneEnables => OneRestAt(r)'
    BY <1>0, <1>1, <1>2, <1>5, <2>1, OneNumbers, OneNothing, OneFields DEF OneRestAt, OneStoresAt, OneAgree, OneOff, OneDead, OneSame, OneTypes, OneLocals, OneEnables, One!Row, One!Mine
  <2> QED
    BY <2>2 DEF OneRest, OneAlone
<1> QED
    BY <1>2, <1>6, <1>7, <1>8, <1>9 DEF OneInv

(* The process is killed, or has exited or was stopped.                     *)
LEMMA OneNotReady == ASSUME OneInv, NEW r \in OneRequests, One!NotReady(r) PROVE OneInv'
<1>0. /\ OneTypes /\ OneTyped /\ OneLocals
      /\ OneAlone => OneStores
      /\ OneAlone /\ OneEnables => OneRest
    BY DEF OneInv
<1>1. /\ oneReq[r].pc = "wait"
      /\ \/ One!Mine(r) /\ oneProc' = [oneProc EXCEPT !.alive = FALSE]
         \/ (~One!Mine(r) \/ ~oneProc.alive) /\ oneProc' = oneProc
      /\ oneFaults' = oneFaults \/ (oneFaults < OneMaxFaults /\ oneFaults' = oneFaults + 1)
      /\ One!Goto(r, "revoke")
      /\ UNCHANGED <<oneDisk, oneDb, oneManifest, oneTokens, oneSubscribed, oneScheduled, oneLastToken, oneRestarts, oneGranted>>
    BY DEF One!NotReady, One!stores, One!runtime, One!counters, One!At, One!Works, One!Fails
<1>2. /\ OneTyped' /\ OneRestSame(r)
      /\ oneReq'[r].pc = "revoke" /\ OneSame(r)
    BY <1>0, <1>1, OneGoes DEF OneLabels
<1>4. /\ oneProc' \in {One!NoProc} \cup OneProcess /\ oneProc'.ready = oneProc.ready /\ oneProc'.tok = oneProc.tok
      /\ oneProc # One!NoProc => oneProc' # One!NoProc
      /\ One!Mine(r) => ~oneProc'.alive
  <2>1. CASE One!Mine(r) /\ oneProc' = [oneProc EXCEPT !.alive = FALSE]
    <3>1. oneProc \in OneProcess /\ One!NoProc \notin OneProcess
      BY <1>0, <2>1, OneNumbers DEF OneTypes, One!Mine, One!NoProc, OneProcess
    <3> QED
      BY <2>1, <3>1 DEF OneProcess
  <2>2. CASE (~One!Mine(r) \/ ~oneProc.alive) /\ oneProc' = oneProc
    BY <1>0, <2>2 DEF OneTypes
  <2> QED
    BY <1>1, <2>1, <2>2
<1>5. oneReq[r] \in OneReqs
    BY <1>0 DEF OneTyped
<1>6. OneTypes'
    BY <1>0, <1>1, <1>2, <1>5, <1>4, OneNumbers, OneNothing, OneFields DEF OneTypes, OneLocals
<1>7. OneLocals'
    BY <1>0, <1>1, <1>2, <1>5, OneNumbers, OneFields DEF OneLocals, OneRestSame, OneSame
<1>8. OneAlone => OneStores'
  <2>1. OneAlone => OneStoresAt(r)
    BY <1>0 DEF OneStores
  <2>2. OneAlone => OneStoresAt(r)'
    BY <1>0, <1>1, <1>2, <1>5, <2>1, <1>4, OneNumbers, OneNothing, OneFields DEF OneStoresAt, OneAgree, OneSame, OneTypes, OneLocals, One!Row
  <2> QED
    BY <2>2 DEF OneStores, OneAlone
<1>9. OneAlone /\ OneEnables => OneRest'
  <2>1. OneAlone /\ OneEnables => OneRestAt(r) /\ OneStoresAt(r)
    BY <1>0 DEF OneRest, OneStores
  <2>2. OneAlone /\ OneEnables => OneRestAt(r)'
    BY <1>0, <1>1, <1>2, <1>5, <2>1, <1>4, OneNumbers, OneNothing, OneFields DEF OneRestAt, OneStoresAt, OneAgree, OneOff, OneDead, OneSame, OneTypes, OneLocals, OneEnables, One!Row, One!Mine
  <2> QED
    BY <2>2 DEF OneRest, OneAlone
<1> QED
    BY <1>2, <1>6, <1>7, <1>8, <1>9 DEF OneInv

(* The rollback of a start takes back its token.                            *)
LEMMA OneRevokes == ASSUME OneInv, NEW r \in OneRequests, One!RevokeToken(r) PROVE OneInv'
<1>0. /\ OneTypes /\ OneTyped /\ OneLocals
      /\ OneAlone => OneStores
      /\ OneAlone /\ OneEnables => OneRest
    BY DEF OneInv
<1>1. /\ oneReq[r].pc = "revoke"
      /\ oneTokens' = oneTokens \ {oneReq[r].tok}
      /\ One!AfterStart(r)
      /\ UNCHANGED <<oneDisk, oneDb, oneManifest, oneProc, oneSubscribed, oneScheduled, oneLastToken, oneFaults, oneRestarts, oneGranted>>
    BY DEF One!RevokeToken, One!stores, One!runtime, One!counters, One!At, One!Works, One!Fails, One!Revoked
<1>2. /\ OneTyped' /\ OneRestSame(r)
      /\ oneReq'[r].pc \in {"idle", "cleanup"}
    BY <1>0, <1>1, OneAfter
<1>5. oneReq[r] \in OneReqs
    BY <1>0 DEF OneTyped
<1>6. OneTypes'
    BY <1>0, <1>1, <1>2, <1>5, OneNumbers, OneNothing, OneFields DEF OneTypes, OneLocals
<1>7. OneLocals'
    BY <1>0, <1>1, <1>2, <1>5, OneNumbers, OneFields DEF OneLocals, OneRestSame, OneSame
<1>8. OneAlone => OneStores'
  <2>1. OneAlone => OneStoresAt(r)
    BY <1>0 DEF OneStores
  <2>2. OneAlone => OneStoresAt(r)'
    BY <1>0, <1>1, <1>2, <1>5, <2>1, OneNumbers, OneNothing, OneFields DEF OneStoresAt, OneAgree, OneSame, OneTypes, OneLocals, One!Row
  <2> QED
    BY <2>2 DEF OneStores, OneAlone
<1>9. OneAlone /\ OneEnables => OneRest'
  <2>1. OneAlone /\ OneEnables => OneRestAt(r) /\ OneStoresAt(r)
    BY <1>0 DEF OneRest, OneStores
  <2>2. OneAlone /\ OneEnables => OneRestAt(r)'
    BY <1>0, <1>1, <1>2, <1>5, <2>1, OneNumbers, OneNothing, OneFields DEF OneRestAt, OneStoresAt, OneAgree, OneOff, OneDead, OneSame, OneTypes, OneLocals, OneEnables, One!Row, One!Mine
  <2> QED
    BY <2>2 DEF OneRest, OneAlone
<1> QED
    BY <1>2, <1>6, <1>7, <1>8, <1>9 DEF OneInv

(* SetPluginEnabled.                                                        *)
LEMMA OneSetsEnabled == ASSUME OneInv, NEW r \in OneRequests, One!Enable(r) PROVE OneInv'
<1>0. /\ OneTypes /\ OneTyped /\ OneLocals
      /\ OneAlone => OneStores
      /\ OneAlone /\ OneEnables => OneRest
    BY DEF OneInv
<1>1. /\ oneReq[r].pc = "enable"
      /\ oneDb' = IF oneDb = One!NoRow THEN One!NoRow ELSE One!Row(oneDb.ver, TRUE, oneReq[r].approved)
      /\ oneGranted' \in {oneGranted, oneReq[r].approved}
      /\ One!Goto(r, "subscribe")
      /\ UNCHANGED <<oneDisk, oneManifest, oneTokens, oneProc, oneSubscribed, oneScheduled, oneLastToken, oneFaults, oneRestarts>>
    BY DEF One!Enable, One!stores, One!runtime, One!counters, One!At, One!Works, One!Fails
<1>2. /\ OneTyped' /\ OneRestSame(r)
      /\ oneReq'[r].pc = "subscribe" /\ OneSame(r)
    BY <1>0, <1>1, OneGoes DEF OneLabels
<1>5. oneReq[r] \in OneReqs
    BY <1>0 DEF OneTyped
<1>6. OneTypes'
    BY <1>0, <1>1, <1>2, <1>5, OneNumbers, OneNothing, OneFields DEF OneTypes, OneLocals, One!Row, OneRow
<1>7. OneLocals'
    BY <1>0, <1>1, <1>2, <1>5, OneNumbers, OneFields DEF OneLocals, OneRestSame, OneSame
<1>8. OneAlone => OneStores'
  <2>1. OneAlone => OneStoresAt(r)
    BY <1>0 DEF OneStores
  <2>2. OneAlone => OneStoresAt(r)'
    BY <1>0, <1>1, <1>2, <1>5, <2>1, OneNumbers, OneNothing, OneFields DEF OneStoresAt, OneAgree, OneSame, OneTypes, OneLocals, One!Row
  <2> QED
    BY <2>2 DEF OneStores, OneAlone
<1>9. OneAlone /\ OneEnables => OneRest'
  <2>1. OneAlone /\ OneEnables => OneRestAt(r) /\ OneStoresAt(r)
    BY <1>0 DEF OneRest, OneStores
  <2>2. OneAlone /\ OneEnables => OneRestAt(r)'
    BY <1>0, <1>1, <1>2, <1>5, <2>1, OneNumbers, OneNothing, OneFields DEF OneRestAt, OneStoresAt, OneAgree, OneOff, OneDead, OneSame, OneTypes, OneLocals, OneEnables, One!Row, One!Mine
  <2> QED
    BY <2>2 DEF OneRest, OneAlone
<1> QED
    BY <1>2, <1>6, <1>7, <1>8, <1>9 DEF OneInv

(* SetPluginEnabled fails; the process and its token stay.                  *)
LEMMA OneSetEnabledFails == ASSUME OneInv, NEW r \in OneRequests, One!EnableFails(r) PROVE OneInv'
<1>0. /\ OneTypes /\ OneTyped /\ OneLocals
      /\ OneAlone => OneStores
      /\ OneAlone /\ OneEnables => OneRest
    BY DEF OneInv
<1>1. /\ oneReq[r].pc = "enable"
      /\ oneFaults' = oneFaults \/ (oneFaults < OneMaxFaults /\ oneFaults' = oneFaults + 1)
      /\ "enable" \in OneFaults
      /\ One!AfterStart(r)
      /\ UNCHANGED <<oneDisk, oneDb, oneManifest, oneTokens, oneProc, oneSubscribed, oneScheduled, oneLastToken, oneRestarts, oneGranted>>
    BY DEF One!EnableFails, One!stores, One!runtime, One!counters, One!At, One!Works, One!Fails
<1>2. /\ OneTyped' /\ OneRestSame(r)
      /\ oneReq'[r].pc \in {"idle", "cleanup"}
    BY <1>0, <1>1, OneAfter
<1>5. oneReq[r] \in OneReqs
    BY <1>0 DEF OneTyped
<1>6. OneTypes'
    BY <1>0, <1>1, <1>2, <1>5, OneNumbers, OneNothing, OneFields DEF OneTypes, OneLocals
<1>7. OneLocals'
    BY <1>0, <1>1, <1>2, <1>5, OneNumbers, OneFields DEF OneLocals, OneRestSame, OneSame
<1>8. OneAlone => OneStores'
  <2>1. OneAlone => OneStoresAt(r)
    BY <1>0 DEF OneStores
  <2>2. OneAlone => OneStoresAt(r)'
    BY <1>0, <1>1, <1>2, <1>5, <2>1, OneNumbers, OneNothing, OneFields DEF OneStoresAt, OneAgree, OneSame, OneTypes, OneLocals, One!Row
  <2> QED
    BY <2>2 DEF OneStores, OneAlone
<1>9. OneAlone /\ OneEnables => OneRest'
  <2>1. OneAlone /\ OneEnables => OneRestAt(r) /\ OneStoresAt(r)
    BY <1>0 DEF OneRest, OneStores
  <2>2. OneAlone /\ OneEnables => OneRestAt(r)'
    BY <1>0, <1>1, <1>2, <1>5, <2>1, OneNumbers, OneNothing, OneFields DEF OneRestAt, OneStoresAt, OneAgree, OneOff, OneDead, OneSame, OneTypes, OneLocals, OneEnables, One!Row, One!Mine
  <2> QED
    BY <2>2 DEF OneRest, OneAlone
<1> QED
    BY <1>2, <1>6, <1>7, <1>8, <1>9 DEF OneInv

(* The events of the plugin are delivered.                                  *)
LEMMA OneSubscribes == ASSUME OneInv, NEW r \in OneRequests, One!StartEventDelivery(r) PROVE OneInv'
<1>0. /\ OneTypes /\ OneTyped /\ OneLocals
      /\ OneAlone => OneStores
      /\ OneAlone /\ OneEnables => OneRest
    BY DEF OneInv
<1>1. /\ oneReq[r].pc = "subscribe"
      /\ oneSubscribed' = TRUE
      /\ One!Goto(r, "schedule")
      /\ UNCHANGED <<oneDisk, oneDb, oneManifest, oneTokens, oneProc, oneScheduled, oneLastToken, oneFaults, oneRestarts, oneGranted>>
    BY DEF One!StartEventDelivery, One!stores, One!runtime, One!counters, One!At, One!Works, One!Fails
<1>2. /\ OneTyped' /\ OneRestSame(r)
      /\ oneReq'[r].pc = "schedule" /\ OneSame(r)
    BY <1>0, <1>1, OneGoes DEF OneLabels
<1>5. oneReq[r] \in OneReqs
    BY <1>0 DEF OneTyped
<1>6. OneTypes'
    BY <1>0, <1>1, <1>2, <1>5, OneNumbers, OneNothing, OneFields DEF OneTypes, OneLocals
<1>7. OneLocals'
    BY <1>0, <1>1, <1>2, <1>5, OneNumbers, OneFields DEF OneLocals, OneRestSame, OneSame
<1>8. OneAlone => OneStores'
  <2>1. OneAlone => OneStoresAt(r)
    BY <1>0 DEF OneStores
  <2>2. OneAlone => OneStoresAt(r)'
    BY <1>0, <1>1, <1>2, <1>5, <2>1, OneNumbers, OneNothing, OneFields DEF OneStoresAt, OneAgree, OneSame, OneTypes, OneLocals, One!Row
  <2> QED
    BY <2>2 DEF OneStores, OneAlone
<1>9. OneAlone /\ OneEnables => OneRest'
  <2>1. OneAlone /\ OneEnables => OneRestAt(r) /\ OneStoresAt(r)
    BY <1>0 DEF OneRest, OneStores
  <2>2. OneAlone /\ OneEnables => OneRestAt(r)'
    BY <1>0, <1>1, <1>2, <1>5, <2>1, OneNumbers, OneNothing, OneFields DEF OneRestAt, OneStoresAt, OneAgree, OneOff, OneDead, OneSame, OneTypes, OneLocals, OneEnables, One!Row, One!Mine
  <2> QED
    BY <2>2 DEF OneRest, OneAlone
<1> QED
    BY <1>2, <1>6, <1>7, <1>8, <1>9 DEF OneInv

(* The services of the plugin are scheduled.                                *)
LEMMA OneSchedules == ASSUME OneInv, NEW r \in OneRequests, One!Schedule(r) PROVE OneInv'
<1>0. /\ OneTypes /\ OneTyped /\ OneLocals
      /\ OneAlone => OneStores
      /\ OneAlone /\ OneEnables => OneRest
    BY DEF OneInv
<1>1. /\ oneReq[r].pc = "schedule"
      /\ oneScheduled' = TRUE
      /\ One!AfterStart(r)
      /\ UNCHANGED <<oneDisk, oneDb, oneManifest, oneTokens, oneProc, oneSubscribed, oneLastToken, oneFaults, oneRestarts, oneGranted>>
    BY DEF One!Schedule, One!stores, One!runtime, One!counters, One!At, One!Works, One!Fails
<1>2. /\ OneTyped' /\ OneRestSame(r)
      /\ oneReq'[r].pc \in {"idle", "cleanup"}
    BY <1>0, <1>1, OneAfter
<1>5. oneReq[r] \in OneReqs
    BY <1>0 DEF OneTyped
<1>6. OneTypes'
    BY <1>0, <1>1, <1>2, <1>5, OneNumbers, OneNothing, OneFields DEF OneTypes, OneLocals
<1>7. OneLocals'
    BY <1>0, <1>1, <1>2, <1>5, OneNumbers, OneFields DEF OneLocals, OneRestSame, OneSame
<1>8. OneAlone => OneStores'
  <2>1. OneAlone => OneStoresAt(r)
    BY <1>0 DEF OneStores
  <2>2. OneAlone => OneStoresAt(r)'
    BY <1>0, <1>1, <1>2, <1>5, <2>1, OneNumbers, OneNothing, OneFields DEF OneStoresAt, OneAgree, OneSame, OneTypes, OneLocals, One!Row
  <2> QED
    BY <2>2 DEF OneStores, OneAlone
<1>9. OneAlone /\ OneEnables => OneRest'
  <2>1. OneAlone /\ OneEnables => OneRestAt(r) /\ OneStoresAt(r)
    BY <1>0 DEF OneRest, OneStores
  <2>2. OneAlone /\ OneEnables => OneRestAt(r)'
    BY <1>0, <1>1, <1>2, <1>5, <2>1, OneNumbers, OneNothing, OneFields DEF OneRestAt, OneStoresAt, OneAgree, OneOff, OneDead, OneSame, OneTypes, OneLocals, OneEnables, One!Row, One!Mine
  <2> QED
    BY <2>2 DEF OneRest, OneAlone
<1> QED
    BY <1>2, <1>6, <1>7, <1>8, <1>9 DEF OneInv

(* The process is stopped.                                                  *)
LEMMA OneStops == ASSUME OneInv, NEW r \in OneRequests, One!StopPlugin(r) PROVE OneInv'
<1>0. /\ OneTypes /\ OneTyped /\ OneLocals
      /\ OneAlone => OneStores
      /\ OneAlone /\ OneEnables => OneRest
    BY DEF OneInv
<1>1. /\ oneReq[r].pc = "stop"
      /\ oneProc' = One!NoProc
      /\ One!Goto(r, "unsubscribe")
      /\ UNCHANGED <<oneDisk, oneDb, oneManifest, oneTokens, oneSubscribed, oneScheduled, oneLastToken, oneFaults, oneRestarts, oneGranted>>
    BY DEF One!StopPlugin, One!stores, One!runtime, One!counters, One!At, One!Works, One!Fails
<1>2. /\ OneTyped' /\ OneRestSame(r)
      /\ oneReq'[r].pc = "unsubscribe" /\ OneSame(r)
    BY <1>0, <1>1, OneGoes DEF OneLabels
<1>5. oneReq[r] \in OneReqs
    BY <1>0 DEF OneTyped
<1>6. OneTypes'
    BY <1>0, <1>1, <1>2, <1>5, OneNumbers, OneNothing, OneFields DEF OneTypes, OneLocals
<1>7. OneLocals'
    BY <1>0, <1>1, <1>2, <1>5, OneNumbers, OneFields DEF OneLocals, OneRestSame, OneSame
<1>8. OneAlone => OneStores'
  <2>1. OneAlone => OneStoresAt(r)
    BY <1>0 DEF OneStores
  <2>2. OneAlone => OneStoresAt(r)'
    BY <1>0, <1>1, <1>2, <1>5, <2>1, OneNumbers, OneNothing, OneFields DEF OneStoresAt, OneAgree, OneSame, OneTypes, OneLocals, One!Row
  <2> QED
    BY <2>2 DEF OneStores, OneAlone
<1>9. OneAlone /\ OneEnables => OneRest'
  <2>1. OneAlone /\ OneEnables => OneRestAt(r) /\ OneStoresAt(r)
    BY <1>0 DEF OneRest, OneStores
  <2>2. OneAlone /\ OneEnables => OneRestAt(r)'
    BY <1>0, <1>1, <1>2, <1>5, <2>1, OneNumbers, OneNothing, OneFields DEF OneRestAt, OneStoresAt, OneAgree, OneOff, OneDead, OneSame, OneTypes, OneLocals, OneEnables, One!Row, One!Mine
  <2> QED
    BY <2>2 DEF OneRest, OneAlone
<1> QED
    BY <1>2, <1>6, <1>7, <1>8, <1>9 DEF OneInv

(* The delivery of events ends.                                             *)
LEMMA OneUnsubscribes == ASSUME OneInv, NEW r \in OneRequests, One!StopEventDelivery(r) PROVE OneInv'
<1>0. /\ OneTypes /\ OneTyped /\ OneLocals
      /\ OneAlone => OneStores
      /\ OneAlone /\ OneEnables => OneRest
    BY DEF OneInv
<1>1. /\ oneReq[r].pc = "unsubscribe"
      /\ oneSubscribed' = FALSE
      /\ One!Goto(r, "unschedule")
      /\ UNCHANGED <<oneDisk, oneDb, oneManifest, oneTokens, oneProc, oneScheduled, oneLastToken, oneFaults, oneRestarts, oneGranted>>
    BY DEF One!StopEventDelivery, One!stores, One!runtime, One!counters, One!At, One!Works, One!Fails
<1>2. /\ OneTyped' /\ OneRestSame(r)
      /\ oneReq'[r].pc = "unschedule" /\ OneSame(r)
    BY <1>0, <1>1, OneGoes DEF OneLabels
<1>5. oneReq[r] \in OneReqs
    BY <1>0 DEF OneTyped
<1>6. OneTypes'
    BY <1>0, <1>1, <1>2, <1>5, OneNumbers, OneNothing, OneFields DEF OneTypes, OneLocals
<1>7. OneLocals'
    BY <1>0, <1>1, <1>2, <1>5, OneNumbers, OneFields DEF OneLocals, OneRestSame, OneSame
<1>8. OneAlone => OneStores'
  <2>1. OneAlone => OneStoresAt(r)
    BY <1>0 DEF OneStores
  <2>2. OneAlone => OneStoresAt(r)'
    BY <1>0, <1>1, <1>2, <1>5, <2>1, OneNumbers, OneNothing, OneFields DEF OneStoresAt, OneAgree, OneSame, OneTypes, OneLocals, One!Row
  <2> QED
    BY <2>2 DEF OneStores, OneAlone
<1>9. OneAlone /\ OneEnables => OneRest'
  <2>1. OneAlone /\ OneEnables => OneRestAt(r) /\ OneStoresAt(r)
    BY <1>0 DEF OneRest, OneStores
  <2>2. OneAlone /\ OneEnables => OneRestAt(r)'
    BY <1>0, <1>1, <1>2, <1>5, <2>1, OneNumbers, OneNothing, OneFields DEF OneRestAt, OneStoresAt, OneAgree, OneOff, OneDead, OneSame, OneTypes, OneLocals, OneEnables, One!Row, One!Mine
  <2> QED
    BY <2>2 DEF OneRest, OneAlone
<1> QED
    BY <1>2, <1>6, <1>7, <1>8, <1>9 DEF OneInv

(* The services are taken out of the cron.                                  *)
LEMMA OneUnschedules == ASSUME OneInv, NEW r \in OneRequests, One!Unschedule(r) PROVE OneInv'
<1>0. /\ OneTypes /\ OneTyped /\ OneLocals
      /\ OneAlone => OneStores
      /\ OneAlone /\ OneEnables => OneRest
    BY DEF OneInv
<1>1. /\ oneReq[r].pc = "unschedule"
      /\ oneScheduled' = FALSE
      /\ One!Done(r) \/ One!Goto(r, "clear")
      /\ UNCHANGED <<oneDisk, oneDb, oneManifest, oneTokens, oneProc, oneSubscribed, oneLastToken, oneFaults, oneRestarts, oneGranted>>
    BY DEF One!Unschedule, One!stores, One!runtime, One!counters, One!At, One!Works, One!Fails
<1>2. /\ OneTyped' /\ OneRestSame(r)
      /\ oneReq'[r].pc \in {"idle", "clear"}
    BY <1>0, <1>1, OneGoes, OneEnds DEF OneLabels
<1>5. oneReq[r] \in OneReqs
    BY <1>0 DEF OneTyped
<1>6. OneTypes'
    BY <1>0, <1>1, <1>2, <1>5, OneNumbers, OneNothing, OneFields DEF OneTypes, OneLocals
<1>7. OneLocals'
    BY <1>0, <1>1, <1>2, <1>5, OneNumbers, OneFields DEF OneLocals, OneRestSame, OneSame
<1>8. OneAlone => OneStores'
  <2>1. OneAlone => OneStoresAt(r)
    BY <1>0 DEF OneStores
  <2>2. OneAlone => OneStoresAt(r)'
    BY <1>0, <1>1, <1>2, <1>5, <2>1, OneNumbers, OneNothing, OneFields DEF OneStoresAt, OneAgree, OneSame, OneTypes, OneLocals, One!Row
  <2> QED
    BY <2>2 DEF OneStores, OneAlone
<1>9. OneAlone /\ OneEnables => OneRest'
  <2>1. OneAlone /\ OneEnables => OneRestAt(r) /\ OneStoresAt(r)
    BY <1>0 DEF OneRest, OneStores
  <2>2. OneAlone /\ OneEnables => OneRestAt(r)'
    BY <1>0, <1>1, <1>2, <1>5, <2>1, OneNumbers, OneNothing, OneFields DEF OneRestAt, OneStoresAt, OneAgree, OneOff, OneDead, OneSame, OneTypes, OneLocals, OneEnables, One!Row, One!Mine
  <2> QED
    BY <2>2 DEF OneRest, OneAlone
<1> QED
    BY <1>2, <1>6, <1>7, <1>8, <1>9 DEF OneInv

(* Disable revokes the tokens.                                              *)
LEMMA OneClears == ASSUME OneInv, NEW r \in OneRequests, One!ClearTokens(r) PROVE OneInv'
<1>0. /\ OneTypes /\ OneTyped /\ OneLocals
      /\ OneAlone => OneStores
      /\ OneAlone /\ OneEnables => OneRest
    BY DEF OneInv
<1>1. /\ oneReq[r].pc = "clear"
      /\ oneTokens' = {}
      /\ One!Goto(r, "disable")
      /\ UNCHANGED <<oneDisk, oneDb, oneManifest, oneProc, oneSubscribed, oneScheduled, oneLastToken, oneFaults, oneRestarts, oneGranted>>
    BY DEF One!ClearTokens, One!stores, One!runtime, One!counters, One!At, One!Works, One!Fails, One!Cleared
<1>2. /\ OneTyped' /\ OneRestSame(r)
      /\ oneReq'[r].pc = "disable" /\ OneSame(r)
    BY <1>0, <1>1, OneGoes DEF OneLabels
<1>5. oneReq[r] \in OneReqs
    BY <1>0 DEF OneTyped
<1>6. OneTypes'
    BY <1>0, <1>1, <1>2, <1>5, OneNumbers, OneNothing, OneFields DEF OneTypes, OneLocals
<1>7. OneLocals'
    BY <1>0, <1>1, <1>2, <1>5, OneNumbers, OneFields DEF OneLocals, OneRestSame, OneSame
<1>8. OneAlone => OneStores'
  <2>1. OneAlone => OneStoresAt(r)
    BY <1>0 DEF OneStores
  <2>2. OneAlone => OneStoresAt(r)'
    BY <1>0, <1>1, <1>2, <1>5, <2>1, OneNumbers, OneNothing, OneFields DEF OneStoresAt, OneAgree, OneSame, OneTypes, OneLocals, One!Row
  <2> QED
    BY <2>2 DEF OneStores, OneAlone
<1>9. OneAlone /\ OneEnables => OneRest'
  <2>1. OneAlone /\ OneEnables => OneRestAt(r) /\ OneStoresAt(r)
    BY <1>0 DEF OneRest, OneStores
  <2>2. OneAlone /\ OneEnables => OneRestAt(r)'
    BY <1>0, <1>1, <1>2, <1>5, <2>1, OneNumbers, OneNothing, OneFields DEF OneRestAt, OneStoresAt, OneAgree, OneOff, OneDead, OneSame, OneTypes, OneLocals, OneEnables, One!Row, One!Mine
  <2> QED
    BY <2>2 DEF OneRest, OneAlone
<1> QED
    BY <1>2, <1>6, <1>7, <1>8, <1>9 DEF OneInv

(* Disable writes the row.                                                  *)
LEMMA OneDisables == ASSUME OneInv, NEW r \in OneRequests, One!SetDisabled(r) PROVE OneInv'
<1>0. /\ OneTypes /\ OneTyped /\ OneLocals
      /\ OneAlone => OneStores
      /\ OneAlone /\ OneEnables => OneRest
    BY DEF OneInv
<1>1. /\ oneReq[r].pc = "disable"
      /\ oneDb' = IF oneDb = One!NoRow THEN One!NoRow ELSE One!Row(oneDb.ver, FALSE, {})
      /\ One!Done(r) \/ One!Goto(r, "unload")
      /\ UNCHANGED <<oneDisk, oneManifest, oneTokens, oneProc, oneSubscribed, oneScheduled, oneLastToken, oneFaults, oneRestarts, oneGranted>>
    BY DEF One!SetDisabled, One!stores, One!runtime, One!counters, One!At, One!Works, One!Fails
<1>2. /\ OneTyped' /\ OneRestSame(r)
      /\ oneReq'[r].pc \in {"idle", "unload"}
    BY <1>0, <1>1, OneGoes, OneEnds DEF OneLabels
<1>5. oneReq[r] \in OneReqs
    BY <1>0 DEF OneTyped
<1>6. OneTypes'
    BY <1>0, <1>1, <1>2, <1>5, OneNumbers, OneNothing, OneFields DEF OneTypes, OneLocals, One!Row, OneRow
<1>7. OneLocals'
    BY <1>0, <1>1, <1>2, <1>5, OneNumbers, OneFields DEF OneLocals, OneRestSame, OneSame
<1>8. OneAlone => OneStores'
  <2>1. OneAlone => OneStoresAt(r)
    BY <1>0 DEF OneStores
  <2>2. OneAlone => OneStoresAt(r)'
    BY <1>0, <1>1, <1>2, <1>5, <2>1, OneNumbers, OneNothing, OneFields DEF OneStoresAt, OneAgree, OneSame, OneTypes, OneLocals, One!Row
  <2> QED
    BY <2>2 DEF OneStores, OneAlone
<1>9. OneAlone /\ OneEnables => OneRest'
  <2>1. OneAlone /\ OneEnables => OneRestAt(r) /\ OneStoresAt(r)
    BY <1>0 DEF OneRest, OneStores
  <2>2. OneAlone /\ OneEnables => OneRestAt(r)'
    BY <1>0, <1>1, <1>2, <1>5, <2>1, OneNumbers, OneNothing, OneFields DEF OneRestAt, OneStoresAt, OneAgree, OneOff, OneDead, OneSame, OneTypes, OneLocals, OneEnables, One!Row, One!Mine
  <2> QED
    BY <2>2 DEF OneRest, OneAlone
<1> QED
    BY <1>2, <1>6, <1>7, <1>8, <1>9 DEF OneInv

(* Remove takes the manifest and the tokens out of the maps.                *)
LEMMA OneUnloads == ASSUME OneInv, NEW r \in OneRequests, One!Unload(r) PROVE OneInv'
<1>0. /\ OneTypes /\ OneTyped /\ OneLocals
      /\ OneAlone => OneStores
      /\ OneAlone /\ OneEnables => OneRest
    BY DEF OneInv
<1>1. /\ oneReq[r].pc = "unload"
      /\ oneManifest' = One!None /\ oneTokens' = {}
      /\ One!Goto(r, "delete")
      /\ UNCHANGED <<oneDisk, oneDb, oneProc, oneSubscribed, oneScheduled, oneLastToken, oneFaults, oneRestarts, oneGranted>>
    BY DEF One!Unload, One!stores, One!runtime, One!counters, One!At, One!Works, One!Fails
<1>2. /\ OneTyped' /\ OneRestSame(r)
      /\ oneReq'[r].pc = "delete" /\ OneSame(r)
    BY <1>0, <1>1, OneGoes DEF OneLabels
<1>5. oneReq[r] \in OneReqs
    BY <1>0 DEF OneTyped
<1>6. OneTypes'
    BY <1>0, <1>1, <1>2, <1>5, OneNumbers, OneNothing, OneFields DEF OneTypes, OneLocals
<1>7. OneLocals'
    BY <1>0, <1>1, <1>2, <1>5, OneNumbers, OneFields DEF OneLocals, OneRestSame, OneSame
<1>8. OneAlone => OneStores'
  <2>1. OneAlone => OneStoresAt(r)
    BY <1>0 DEF OneStores
  <2>2. OneAlone => OneStoresAt(r)'
    BY <1>0, <1>1, <1>2, <1>5, <2>1, OneNumbers, OneNothing, OneFields DEF OneStoresAt, OneAgree, OneSame, OneTypes, OneLocals, One!Row
  <2> QED
    BY <2>2 DEF OneStores, OneAlone
<1>9. OneAlone /\ OneEnables => OneRest'
  <2>1. OneAlone /\ OneEnables => OneRestAt(r) /\ OneStoresAt(r)
    BY <1>0 DEF OneRest, OneStores
  <2>2. OneAlone /\ OneEnables => OneRestAt(r)'
    BY <1>0, <1>1, <1>2, <1>5, <2>1, OneNumbers, OneNothing, OneFields DEF OneRestAt, OneStoresAt, OneAgree, OneOff, OneDead, OneSame, OneTypes, OneLocals, OneEnables, One!Row, One!Mine
  <2> QED
    BY <2>2 DEF OneRest, OneAlone
<1> QED
    BY <1>2, <1>6, <1>7, <1>8, <1>9 DEF OneInv

(* Remove deletes the row; the directory stays.                             *)
LEMMA OneDeletes == ASSUME OneInv, NEW r \in OneRequests, One!Delete(r) PROVE OneInv'
<1>0. /\ OneTypes /\ OneTyped /\ OneLocals
      /\ OneAlone => OneStores
      /\ OneAlone /\ OneEnables => OneRest
    BY DEF OneInv
<1>1. /\ oneReq[r].pc = "delete"
      /\ oneDb' = One!NoRow
      /\ One!Done(r)
      /\ UNCHANGED <<oneDisk, oneManifest, oneTokens, oneProc, oneSubscribed, oneScheduled, oneLastToken, oneFaults, oneRestarts, oneGranted>>
    BY DEF One!Delete, One!stores, One!runtime, One!counters, One!At, One!Works, One!Fails
<1>2. /\ OneTyped' /\ OneRestSame(r)
      /\ oneReq'[r].pc = "idle"
    BY <1>0, <1>1, OneEnds
<1>5. oneReq[r] \in OneReqs
    BY <1>0 DEF OneTyped
<1>6. OneTypes'
    BY <1>0, <1>1, <1>2, <1>5, OneNumbers, OneNothing, OneFields DEF OneTypes, OneLocals
<1>7. OneLocals'
    BY <1>0, <1>1, <1>2, <1>5, OneNumbers, OneFields DEF OneLocals, OneRestSame, OneSame
<1>8. OneAlone => OneStores'
  <2>1. OneAlone => OneStoresAt(r)
    BY <1>0 DEF OneStores
  <2>2. OneAlone => OneStoresAt(r)'
    BY <1>0, <1>1, <1>2, <1>5, <2>1, OneNumbers, OneNothing, OneFields DEF OneStoresAt, OneAgree, OneSame, OneTypes, OneLocals, One!Row
  <2> QED
    BY <2>2 DEF OneStores, OneAlone
<1>9. OneAlone /\ OneEnables => OneRest'
  <2>1. OneAlone /\ OneEnables => OneRestAt(r) /\ OneStoresAt(r)
    BY <1>0 DEF OneRest, OneStores
  <2>2. OneAlone /\ OneEnables => OneRestAt(r)'
    BY <1>0, <1>1, <1>2, <1>5, <2>1, OneNumbers, OneNothing, OneFields DEF OneRestAt, OneStoresAt, OneAgree, OneOff, OneDead, OneSame, OneTypes, OneLocals, OneEnables, One!Row, One!Mine
  <2> QED
    BY <2>2 DEF OneRest, OneAlone
<1> QED
    BY <1>2, <1>6, <1>7, <1>8, <1>9 DEF OneInv

(* The directory of a new plugin is moved in, unless there is one.          *)
LEMMA OneMovesIn == ASSUME OneInv, NEW r \in OneRequests, One!Move(r) PROVE OneInv'
<1>0. /\ OneTypes /\ OneTyped /\ OneLocals
      /\ OneAlone => OneStores
      /\ OneAlone /\ OneEnables => OneRest
    BY DEF OneInv
<1>1. /\ oneReq[r].pc = "move"
      /\ oneFaults' = oneFaults \/ (oneFaults < OneMaxFaults /\ oneFaults' = oneFaults + 1)
      /\ \/ oneDisk = One!None /\ oneDisk' = oneReq[r].new /\ One!Goto(r, "insert")
         \/ oneDisk' = oneDisk /\ One!Done(r)
      /\ UNCHANGED <<oneDb, oneManifest, oneTokens, oneProc, oneSubscribed, oneScheduled, oneLastToken, oneRestarts, oneGranted>>
    BY DEF One!Move, One!stores, One!runtime, One!counters, One!At, One!Works, One!Fails
<1>2. /\ OneTyped' /\ OneRestSame(r)
      /\ \/ oneReq'[r].pc = "insert" /\ OneSame(r) /\ oneDisk = One!None /\ oneDisk' = oneReq[r].new
         \/ oneReq'[r].pc = "idle" /\ oneDisk' = oneDisk
  <2>1. CASE oneDisk = One!None /\ oneDisk' = oneReq[r].new /\ One!Goto(r, "insert")
    <3>1. OneTyped' /\ OneRestSame(r) /\ oneReq'[r].pc = "insert" /\ OneSame(r)
      BY <1>0, <2>1, OneGoes DEF OneLabels
    <3> QED
      BY <2>1, <3>1
  <2>2. CASE oneDisk' = oneDisk /\ One!Done(r)
    <3>1. OneTyped' /\ OneRestSame(r) /\ oneReq'[r].pc = "idle"
      BY <1>0, <2>2, OneEnds
    <3> QED
      BY <2>2, <3>1
  <2> QED
    BY <1>1, <2>1, <2>2
<1>5. oneReq[r] \in OneReqs
    BY <1>0 DEF OneTyped
<1>6. OneTypes'
    BY <1>0, <1>1, <1>2, <1>5, OneNumbers, OneNothing, OneFields DEF OneTypes, OneLocals
<1>7. OneLocals'
    BY <1>0, <1>1, <1>2, <1>5, OneNumbers, OneFields DEF OneLocals, OneRestSame, OneSame
<1>8. OneAlone => OneStores'
  <2>1. OneAlone => OneStoresAt(r)
    BY <1>0 DEF OneStores
  <2>2. OneAlone => OneStoresAt(r)'
    BY <1>0, <1>1, <1>2, <1>5, <2>1, OneNumbers, OneNothing, OneFields DEF OneStoresAt, OneAgree, OneSame, OneTypes, OneLocals, One!Row
  <2> QED
    BY <2>2 DEF OneStores, OneAlone
<1>9. OneAlone /\ OneEnables => OneRest'
  <2>1. OneAlone /\ OneEnables => OneRestAt(r) /\ OneStoresAt(r)
    BY <1>0 DEF OneRest, OneStores
  <2>2. OneAlone /\ OneEnables => OneRestAt(r)'
    BY <1>0, <1>1, <1>2, <1>5, <2>1, OneNumbers, OneNothing, OneFields DEF OneRestAt, OneStoresAt, OneAgree, OneOff, OneDead, OneSame, OneTypes, OneLocals, OneEnables, One!Row, One!Mine
  <2> QED
    BY <2>2 DEF OneRest, OneAlone
<1> QED
    BY <1>2, <1>6, <1>7, <1>8, <1>9 DEF OneInv

(* The row of a new plugin is inserted, or its directory removed.           *)
LEMMA OneInserts == ASSUME OneInv, NEW r \in OneRequests, One!Insert(r) PROVE OneInv'
<1>0. /\ OneTypes /\ OneTyped /\ OneLocals
      /\ OneAlone => OneStores
      /\ OneAlone /\ OneEnables => OneRest
    BY DEF OneInv
<1>1. /\ oneReq[r].pc = "insert"
      /\ oneFaults' = oneFaults \/ (oneFaults < OneMaxFaults /\ oneFaults' = oneFaults + 1)
      /\ \/ oneDb' = One!Upserted(oneReq[r].new, FALSE, OneDeclared[oneReq[r].new]) /\ One!Goto(r, "load") /\ oneDisk' = oneDisk
         \/ "upsert" \in OneFaults /\ oneDisk' = One!None /\ One!Done(r) /\ oneDb' = oneDb
      /\ UNCHANGED <<oneManifest, oneTokens, oneProc, oneSubscribed, oneScheduled, oneLastToken, oneRestarts, oneGranted>>
    BY DEF One!Insert, One!stores, One!runtime, One!counters, One!At, One!Works, One!Fails
<1>2. /\ OneTyped' /\ OneRestSame(r)
      /\ \/ /\ oneReq'[r].pc = "load" /\ OneSame(r) /\ oneDisk' = oneDisk
            /\ oneDb' = One!Upserted(oneReq[r].new, FALSE, OneDeclared[oneReq[r].new])
         \/ oneReq'[r].pc = "idle" /\ oneDisk' = One!None /\ oneDb' = oneDb /\ "upsert" \in OneFaults
  <2>1. CASE /\ oneDb' = One!Upserted(oneReq[r].new, FALSE, OneDeclared[oneReq[r].new])
             /\ One!Goto(r, "load") /\ oneDisk' = oneDisk
    <3>1. OneTyped' /\ OneRestSame(r) /\ oneReq'[r].pc = "load" /\ OneSame(r)
      BY <1>0, <2>1, OneGoes DEF OneLabels
    <3> QED
      BY <2>1, <3>1
  <2>2. CASE "upsert" \in OneFaults /\ oneDisk' = One!None /\ One!Done(r) /\ oneDb' = oneDb
    <3>1. OneTyped' /\ OneRestSame(r) /\ oneReq'[r].pc = "idle"
      BY <1>0, <2>2, OneEnds
    <3> QED
      BY <2>2, <3>1
  <2> QED
    BY <1>1, <2>1, <2>2
<1>3. oneReq[r].new \in OneVersions /\ FALSE \in BOOLEAN /\ OneDeclared[oneReq[r].new] \in SUBSET OnePermissions
    BY <1>0, <1>1, OneNumbers, OneFields, OneNothing DEF OneLocals, OneTyped, OneTypes
<1>4. /\ One!Upserted(oneReq[r].new, FALSE, OneDeclared[oneReq[r].new]) \in OneRow /\ One!Upserted(oneReq[r].new, FALSE, OneDeclared[oneReq[r].new]) # One!NoRow /\ One!Upserted(oneReq[r].new, FALSE, OneDeclared[oneReq[r].new]).ver = oneReq[r].new
      /\ One!Upserted(oneReq[r].new, FALSE, OneDeclared[oneReq[r].new]).enabled = IF oneDb = One!NoRow THEN FALSE ELSE oneDb.enabled
    BY <1>0, <1>3, OneUpserts
<1>5. oneReq[r] \in OneReqs
    BY <1>0 DEF OneTyped
<1>t. oneDb' \in {One!NoRow} \cup OneRow /\ oneDisk' \in OneVersions \cup {One!None}
    BY <1>0, <1>1, <1>2, <1>4 DEF OneTypes
<1>6. OneTypes'
    BY <1>0, <1>1, <1>2, <1>t, OneNumbers DEF OneTypes
<1>7. OneLocals'
    BY <1>0, <1>1, <1>2, <1>5, OneNumbers, OneFields DEF OneLocals, OneRestSame, OneSame
<1>8. OneAlone => OneStores'
  <2>1. OneAlone => OneStoresAt(r)
    BY <1>0 DEF OneStores
  <2>2. OneAlone => OneStoresAt(r)'
    BY <1>0, <1>1, <1>2, <1>5, <2>1, <1>4, OneNumbers, OneNothing, OneFields DEF OneStoresAt, OneAgree, OneSame, OneTypes, OneLocals, One!Row
  <2> QED
    BY <2>2 DEF OneStores, OneAlone
<1>9. OneAlone /\ OneEnables => OneRest'
  <2>1. OneAlone /\ OneEnables => OneRestAt(r) /\ OneStoresAt(r)
    BY <1>0 DEF OneRest, OneStores
  <2>2. OneAlone /\ OneEnables => OneRestAt(r)'
    BY <1>0, <1>1, <1>2, <1>5, <2>1, <1>4, OneNumbers, OneNothing, OneFields DEF OneRestAt, OneStoresAt, OneAgree, OneOff, OneDead, OneSame, OneTypes, OneLocals, OneEnables, One!Row, One!Mine
  <2> QED
    BY <2>2 DEF OneRest, OneAlone
<1> QED
    BY <1>2, <1>6, <1>7, <1>8, <1>9 DEF OneInv

(* The new manifest is loaded; an upgrade starts a plugin that was enabled. *)
LEMMA OneLoads == ASSUME OneInv, NEW r \in OneRequests, One!LoadNew(r) PROVE OneInv'
<1>0. /\ OneTypes /\ OneTyped /\ OneLocals
      /\ OneAlone => OneStores
      /\ OneAlone /\ OneEnables => OneRest
    BY DEF OneInv
<1>1. /\ oneReq[r].pc = "load"
      /\ oneManifest' = oneReq[r].new
      /\ UNCHANGED <<oneDisk, oneDb, oneTokens, oneProc, oneSubscribed, oneScheduled, oneLastToken, oneFaults, oneRestarts, oneGranted>>
    BY DEF One!LoadNew, One!stores, One!runtime, One!counters, One!At, One!Works, One!Fails
<1>2. /\ OneTyped' /\ OneRestSame(r)
      /\ oneReq'[r].pc \in {"idle", "lookup", "cleanup"}
  <2>0. oneReq[r] \in OneReqs
    BY <1>0 DEF OneTyped
  <2>1. CASE One!Done(r)
    <3>1. OneTyped' /\ OneRestSame(r) /\ oneReq'[r].pc = "idle"
      BY <1>0, <2>1, OneEnds
    <3> QED
      BY <2>1, <3>1
  <2>2. CASE oneReq[r].old # One!NoRow
    <3> DEFINE z == [oneReq[r] EXCEPT !.pc = IF oneReq[r].old.enabled THEN "lookup" ELSE "cleanup",
                                   !.approved = oneReq[r].old.approved]
    <3>3. {"lookup", "cleanup"} \subseteq OneLabels /\ oneReq[r].old.approved \in SUBSET OnePermissions
      BY <1>0, <1>1, <2>0, <2>2, OneFields DEF OneTypes, OneLabels, OneOps
    <3>4. z \in OneReqs
      BY <2>0, <3>3 DEF OneReqs
    <3>5. oneReq' = [oneReq EXCEPT ![r] = z]
      BY <1>0, <1>1, <2>0, <2>2 DEF OneTyped, One!LoadNew
    <3>6. z.pc \in {"lookup", "cleanup"}
      BY <2>0 DEF OneReqs
    <3> HIDE DEF z
    <3>7. OneTyped' /\ OneRestSame(r) /\ oneReq'[r] = z
      BY <1>0, <3>4, <3>5, OnePuts
    <3> QED
      BY <2>2, <3>6, <3>7
  <2> QED
    BY <1>1, <2>1, <2>2 DEF One!LoadNew
<1>5. oneReq[r] \in OneReqs
    BY <1>0 DEF OneTyped
<1>6. OneTypes'
    BY <1>0, <1>1, <1>2, <1>5, OneNumbers, OneNothing, OneFields DEF OneTypes, OneLocals
<1>7. OneLocals'
    BY <1>0, <1>1, <1>2, <1>5, OneNumbers, OneFields DEF OneLocals, OneRestSame, OneSame
<1>8. OneAlone => OneStores'
  <2>1. OneAlone => OneStoresAt(r)
    BY <1>0 DEF OneStores
  <2>2. OneAlone => OneStoresAt(r)'
    BY <1>0, <1>1, <1>2, <1>5, <2>1, OneNumbers, OneNothing, OneFields DEF OneStoresAt, OneAgree, OneSame, OneTypes, OneLocals, One!Row
  <2> QED
    BY <2>2 DEF OneStores, OneAlone
<1>9. OneAlone /\ OneEnables => OneRest'
  <2>1. OneAlone /\ OneEnables => OneRestAt(r) /\ OneStoresAt(r)
    BY <1>0 DEF OneRest, OneStores
  <2>2. OneAlone /\ OneEnables => OneRestAt(r)'
    BY <1>0, <1>1, <1>2, <1>5, <2>1, OneNumbers, OneNothing, OneFields DEF OneRestAt, OneStoresAt, OneAgree, OneOff, OneDead, OneSame, OneTypes, OneLocals, OneEnables, One!Row, One!Mine
  <2> QED
    BY <2>2 DEF OneRest, OneAlone
<1> QED
    BY <1>2, <1>6, <1>7, <1>8, <1>9 DEF OneInv

(* An upgrade reads the row.                                                *)
LEMMA OneReadsRecord == ASSUME OneInv, NEW r \in OneRequests, One!ReadRecord(r) PROVE OneInv'
<1>0. /\ OneTypes /\ OneTyped /\ OneLocals
      /\ OneAlone => OneStores
      /\ OneAlone /\ OneEnables => OneRest
    BY DEF OneInv
<1>1. /\ oneReq[r].pc = "record"
      /\ UNCHANGED <<oneDisk, oneDb, oneManifest, oneTokens, oneProc, oneSubscribed, oneScheduled, oneLastToken, oneFaults, oneRestarts, oneGranted>>
    BY DEF One!ReadRecord, One!stores, One!runtime, One!counters, One!At, One!Works, One!Fails
<1>2. /\ OneTyped' /\ OneRestSame(r)
      /\ \/ oneReq'[r].pc = "idle"
         \/ /\ oneReq'[r].pc = "halt" /\ oneDb # One!NoRow /\ oneReq'[r].old = oneDb
            /\ oneReq'[r].new = oneReq[r].new
  <2>0. oneReq[r] \in OneReqs
    BY <1>0 DEF OneTyped
  <2>1. CASE One!Done(r)
    <3>1. OneTyped' /\ OneRestSame(r) /\ oneReq'[r].pc = "idle"
      BY <1>0, <2>1, OneEnds
    <3> QED
      BY <2>1, <3>1
  <2>2. CASE oneDb # One!NoRow
    <3> DEFINE z == [oneReq[r] EXCEPT !.pc = "halt", !.old = oneDb]
    <3>3. "halt" \in OneLabels /\ oneDb \in OneRows
      BY <1>0, <1>1, <2>0, <2>2, OneNothing DEF OneTypes, OneLabels, OneOps
    <3>4. z \in OneReqs
      BY <2>0, <3>3 DEF OneReqs
    <3>5. oneReq' = [oneReq EXCEPT ![r] = z]
      BY <1>0, <1>1, <2>0, <2>2 DEF OneTyped, One!ReadRecord
    <3>6. z.pc = "halt" /\ z.old = oneDb /\ z.new = oneReq[r].new
      BY <2>0 DEF OneReqs
    <3> HIDE DEF z
    <3>7. OneTyped' /\ OneRestSame(r) /\ oneReq'[r] = z
      BY <1>0, <3>4, <3>5, OnePuts
    <3> QED
      BY <2>2, <3>6, <3>7
  <2> QED
    BY <1>1, <2>1, <2>2 DEF One!ReadRecord
<1>5. oneReq[r] \in OneReqs
    BY <1>0 DEF OneTyped
<1>6. OneTypes'
    BY <1>0, <1>1, <1>2, <1>5, OneNumbers, OneNothing, OneFields DEF OneTypes, OneLocals
<1>7. OneLocals'
    BY <1>0, <1>1, <1>2, <1>5, OneNumbers, OneFields DEF OneLocals, OneRestSame, OneSame, OneTypes
<1>8. OneAlone => OneStores'
  <2>1. OneAlone => OneStoresAt(r)
    BY <1>0 DEF OneStores
  <2>2. OneAlone => OneStoresAt(r)'
    BY <1>0, <1>1, <1>2, <1>5, <2>1, OneNumbers, OneNothing, OneFields DEF OneStoresAt, OneAgree, OneSame, OneTypes, OneLocals, One!Row
  <2> QED
    BY <2>2 DEF OneStores, OneAlone
<1>9. OneAlone /\ OneEnables => OneRest'
  <2>1. OneAlone /\ OneEnables => OneRestAt(r) /\ OneStoresAt(r)
    BY <1>0 DEF OneRest, OneStores
  <2>2. OneAlone /\ OneEnables => OneRestAt(r)'
    BY <1>0, <1>1, <1>2, <1>5, <2>1, OneNumbers, OneNothing, OneFields DEF OneRestAt, OneStoresAt, OneAgree, OneOff, OneDead, OneSame, OneTypes, OneLocals, OneEnables, One!Row, One!Mine
  <2> QED
    BY <2>2 DEF OneRest, OneAlone
<1> QED
    BY <1>2, <1>6, <1>7, <1>8, <1>9 DEF OneInv

(* An upgrade stops the process.                                            *)
LEMMA OneHalts == ASSUME OneInv, NEW r \in OneRequests, One!Halt(r) PROVE OneInv'
<1>0. /\ OneTypes /\ OneTyped /\ OneLocals
      /\ OneAlone => OneStores
      /\ OneAlone /\ OneEnables => OneRest
    BY DEF OneInv
<1>1. /\ oneReq[r].pc = "halt"
      /\ oneProc' = One!NoProc
      /\ One!Goto(r, "backup")
      /\ UNCHANGED <<oneDisk, oneDb, oneManifest, oneTokens, oneSubscribed, oneScheduled, oneLastToken, oneFaults, oneRestarts, oneGranted>>
    BY DEF One!Halt, One!stores, One!runtime, One!counters, One!At, One!Works, One!Fails
<1>2. /\ OneTyped' /\ OneRestSame(r)
      /\ oneReq'[r].pc = "backup" /\ OneSame(r)
    BY <1>0, <1>1, OneGoes DEF OneLabels
<1>5. oneReq[r] \in OneReqs
    BY <1>0 DEF OneTyped
<1>6. OneTypes'
    BY <1>0, <1>1, <1>2, <1>5, OneNumbers, OneNothing, OneFields DEF OneTypes, OneLocals
<1>7. OneLocals'
    BY <1>0, <1>1, <1>2, <1>5, OneNumbers, OneFields DEF OneLocals, OneRestSame, OneSame
<1>8. OneAlone => OneStores'
  <2>1. OneAlone => OneStoresAt(r)
    BY <1>0 DEF OneStores
  <2>2. OneAlone => OneStoresAt(r)'
    BY <1>0, <1>1, <1>2, <1>5, <2>1, OneNumbers, OneNothing, OneFields DEF OneStoresAt, OneAgree, OneSame, OneTypes, OneLocals, One!Row
  <2> QED
    BY <2>2 DEF OneStores, OneAlone
<1>9. OneAlone /\ OneEnables => OneRest'
  <2>1. OneAlone /\ OneEnables => OneRestAt(r) /\ OneStoresAt(r)
    BY <1>0 DEF OneRest, OneStores
  <2>2. OneAlone /\ OneEnables => OneRestAt(r)'
    BY <1>0, <1>1, <1>2, <1>5, <2>1, OneNumbers, OneNothing, OneFields DEF OneRestAt, OneStoresAt, OneAgree, OneOff, OneDead, OneSame, OneTypes, OneLocals, OneEnables, One!Row, One!Mine
  <2> QED
    BY <2>2 DEF OneRest, OneAlone
<1> QED
    BY <1>2, <1>6, <1>7, <1>8, <1>9 DEF OneInv

(* The directory is renamed to the backup.                                  *)
LEMMA OneBacksUp == ASSUME OneInv, NEW r \in OneRequests, One!Backup(r) PROVE OneInv'
<1>0. /\ OneTypes /\ OneTyped /\ OneLocals
      /\ OneAlone => OneStores
      /\ OneAlone /\ OneEnables => OneRest
    BY DEF OneInv
<1>1. /\ oneReq[r].pc = "backup"
      /\ oneFaults' = oneFaults \/ (oneFaults < OneMaxFaults /\ oneFaults' = oneFaults + 1)
      /\ UNCHANGED <<oneDb, oneManifest, oneTokens, oneProc, oneSubscribed, oneScheduled, oneLastToken, oneRestarts, oneGranted>>
    BY DEF One!Backup, One!stores, One!runtime, One!counters, One!At, One!Works, One!Fails
<1>2. /\ OneTyped' /\ OneRestSame(r)
      /\ \/ /\ oneDisk # One!None /\ oneDisk' = One!None /\ oneReq'[r].pc = "replace" /\ oneReq'[r].bak = oneDisk
            /\ oneReq'[r].new = oneReq[r].new /\ oneReq'[r].old = oneReq[r].old
         \/ oneDisk' = oneDisk /\ oneReq'[r].pc = "idle"
  <2>0. oneReq[r] \in OneReqs
    BY <1>0 DEF OneTyped
  <2>1. CASE oneDisk' = oneDisk /\ One!Done(r)
    <3>1. OneTyped' /\ OneRestSame(r) /\ oneReq'[r].pc = "idle"
      BY <1>0, <2>1, OneEnds
    <3> QED
      BY <2>1, <3>1
  <2>2. CASE /\ oneDisk # One!None /\ oneDisk' = One!None
             /\ oneReq' = [oneReq EXCEPT ![r].pc = "replace", ![r].bak = oneDisk]
    <3> DEFINE z == [oneReq[r] EXCEPT !.pc = "replace", !.bak = oneDisk]
    <3>3. "replace" \in OneLabels /\ oneDisk \in OneVersions \cup {One!None}
      BY <1>0, <1>1, <2>0, <2>2, OneNumbers DEF OneTypes, OneLabels, OneOps
    <3>4. z \in OneReqs
      BY <2>0, <3>3 DEF OneReqs
    <3>5. oneReq' = [oneReq EXCEPT ![r] = z]
      BY <1>0, <1>1, <2>0, <2>2 DEF OneTyped, One!Backup
    <3>6. z.pc = "replace" /\ z.bak = oneDisk /\ z.new = oneReq[r].new /\ z.old = oneReq[r].old
      BY <2>0 DEF OneReqs
    <3> HIDE DEF z
    <3>7. OneTyped' /\ OneRestSame(r) /\ oneReq'[r] = z
      BY <1>0, <3>4, <3>5, OnePuts
    <3> QED
      BY <2>2, <3>6, <3>7
  <2> QED
    BY <1>1, <2>1, <2>2 DEF One!Backup
<1>5. oneReq[r] \in OneReqs
    BY <1>0 DEF OneTyped
<1>6. OneTypes'
    BY <1>0, <1>1, <1>2, <1>5, OneNumbers, OneNothing, OneFields DEF OneTypes, OneLocals
<1>7. OneLocals'
    BY <1>0, <1>1, <1>2, <1>5, OneNumbers, OneFields DEF OneLocals, OneRestSame, OneSame, OneTypes
<1>8. OneAlone => OneStores'
  <2>1. OneAlone => OneStoresAt(r)
    BY <1>0 DEF OneStores
  <2>2. OneAlone => OneStoresAt(r)'
    BY <1>0, <1>1, <1>2, <1>5, <2>1, OneNumbers, OneNothing, OneFields DEF OneStoresAt, OneAgree, OneSame, OneTypes, OneLocals, One!Row
  <2> QED
    BY <2>2 DEF OneStores, OneAlone
<1>9. OneAlone /\ OneEnables => OneRest'
  <2>1. OneAlone /\ OneEnables => OneRestAt(r) /\ OneStoresAt(r)
    BY <1>0 DEF OneRest, OneStores
  <2>2. OneAlone /\ OneEnables => OneRestAt(r)'
    BY <1>0, <1>1, <1>2, <1>5, <2>1, OneNumbers, OneNothing, OneFields DEF OneRestAt, OneStoresAt, OneAgree, OneOff, OneDead, OneSame, OneTypes, OneLocals, OneEnables, One!Row, One!Mine
  <2> QED
    BY <2>2 DEF OneRest, OneAlone
<1> QED
    BY <1>2, <1>6, <1>7, <1>8, <1>9 DEF OneInv

(* The new directory is moved in, or the upgrade rolls back.                *)
LEMMA OneReplaces == ASSUME OneInv, NEW r \in OneRequests, One!Replace(r) PROVE OneInv'
<1>0. /\ OneTypes /\ OneTyped /\ OneLocals
      /\ OneAlone => OneStores
      /\ OneAlone /\ OneEnables => OneRest
    BY DEF OneInv
<1>1. /\ oneReq[r].pc = "replace"
      /\ oneFaults' = oneFaults \/ (oneFaults < OneMaxFaults /\ oneFaults' = oneFaults + 1)
      /\ \/ oneDisk = One!None /\ oneDisk' = oneReq[r].new /\ One!Goto(r, "update")
         \/ oneDisk' = oneDisk /\ One!Goto(r, "rollback")
      /\ UNCHANGED <<oneDb, oneManifest, oneTokens, oneProc, oneSubscribed, oneScheduled, oneLastToken, oneRestarts, oneGranted>>
    BY DEF One!Replace, One!stores, One!runtime, One!counters, One!At, One!Works, One!Fails
<1>2. /\ OneTyped' /\ OneRestSame(r)
      /\ OneSame(r)
      /\ \/ oneDisk = One!None /\ oneDisk' = oneReq[r].new /\ oneReq'[r].pc = "update"
         \/ oneDisk' = oneDisk /\ oneReq'[r].pc = "rollback"
    BY <1>0, <1>1, OneGoes DEF OneLabels
<1>5. oneReq[r] \in OneReqs
    BY <1>0 DEF OneTyped
<1>6. OneTypes'
    BY <1>0, <1>1, <1>2, <1>5, OneNumbers, OneNothing, OneFields DEF OneTypes, OneLocals
<1>7. OneLocals'
    BY <1>0, <1>1, <1>2, <1>5, OneNumbers, OneFields DEF OneLocals, OneRestSame, OneSame
<1>8. OneAlone => OneStores'
  <2>1. OneAlone => OneStoresAt(r)
    BY <1>0 DEF OneStores
  <2>2. OneAlone => OneStoresAt(r)'
    BY <1>0, <1>1, <1>2, <1>5, <2>1, OneNumbers, OneNothing, OneFields DEF OneStoresAt, OneAgree, OneSame, OneTypes, OneLocals, One!Row
  <2> QED
    BY <2>2 DEF OneStores, OneAlone
<1>9. OneAlone /\ OneEnables => OneRest'
  <2>1. OneAlone /\ OneEnables => OneRestAt(r) /\ OneStoresAt(r)
    BY <1>0 DEF OneRest, OneStores
  <2>2. OneAlone /\ OneEnables => OneRestAt(r)'
    BY <1>0, <1>1, <1>2, <1>5, <2>1, OneNumbers, OneNothing, OneFields DEF OneRestAt, OneStoresAt, OneAgree, OneOff, OneDead, OneSame, OneTypes, OneLocals, OneEnables, One!Row, One!Mine
  <2> QED
    BY <2>2 DEF OneRest, OneAlone
<1> QED
    BY <1>2, <1>6, <1>7, <1>8, <1>9 DEF OneInv

(* The row gets the new version, or the upgrade rolls back.                 *)
LEMMA OneUpdates == ASSUME OneInv, NEW r \in OneRequests, One!Update(r) PROVE OneInv'
<1>0. /\ OneTypes /\ OneTyped /\ OneLocals
      /\ OneAlone => OneStores
      /\ OneAlone /\ OneEnables => OneRest
    BY DEF OneInv
<1>1. /\ oneReq[r].pc = "update"
      /\ oneFaults' = oneFaults \/ (oneFaults < OneMaxFaults /\ oneFaults' = oneFaults + 1)
      /\ \/ oneDb' = One!Upserted(oneReq[r].new, oneReq[r].old.enabled, oneReq[r].old.approved) /\ One!Goto(r, "load")
         \/ oneDb' = oneDb /\ One!Goto(r, "rollback")
      /\ UNCHANGED <<oneDisk, oneManifest, oneTokens, oneProc, oneSubscribed, oneScheduled, oneLastToken, oneRestarts, oneGranted>>
    BY DEF One!Update, One!stores, One!runtime, One!counters, One!At, One!Works, One!Fails
<1>2. /\ OneTyped' /\ OneRestSame(r)
      /\ OneSame(r)
      /\ \/ /\ oneDb' = One!Upserted(oneReq[r].new, oneReq[r].old.enabled, oneReq[r].old.approved)
            /\ oneReq'[r].pc = "load"
         \/ oneDb' = oneDb /\ oneReq'[r].pc = "rollback"
    BY <1>0, <1>1, OneGoes DEF OneLabels
<1>3. oneReq[r].new \in OneVersions /\ oneReq[r].old.enabled \in BOOLEAN /\ oneReq[r].old.approved \in SUBSET OnePermissions
    BY <1>0, <1>1, OneNumbers, OneFields, OneNothing DEF OneLocals, OneTyped, OneTypes
<1>4. /\ One!Upserted(oneReq[r].new, oneReq[r].old.enabled, oneReq[r].old.approved) \in OneRow /\ One!Upserted(oneReq[r].new, oneReq[r].old.enabled, oneReq[r].old.approved) # One!NoRow /\ One!Upserted(oneReq[r].new, oneReq[r].old.enabled, oneReq[r].old.approved).ver = oneReq[r].new
      /\ One!Upserted(oneReq[r].new, oneReq[r].old.enabled, oneReq[r].old.approved).enabled = IF oneDb = One!NoRow THEN oneReq[r].old.enabled ELSE oneDb.enabled
    BY <1>0, <1>3, OneUpserts
<1>5. oneReq[r] \in OneReqs
    BY <1>0 DEF OneTyped
<1>t. oneDb' \in {One!NoRow} \cup OneRow /\ oneDisk' \in OneVersions \cup {One!None}
    BY <1>0, <1>1, <1>2, <1>4 DEF OneTypes
<1>6. OneTypes'
    BY <1>0, <1>1, <1>2, <1>t, OneNumbers DEF OneTypes
<1>7. OneLocals'
    BY <1>0, <1>1, <1>2, <1>5, OneNumbers, OneFields DEF OneLocals, OneRestSame, OneSame
<1>8. OneAlone => OneStores'
  <2>1. OneAlone => OneStoresAt(r)
    BY <1>0 DEF OneStores
  <2>2. OneAlone => OneStoresAt(r)'
    BY <1>0, <1>1, <1>2, <1>5, <2>1, <1>4, OneNumbers, OneNothing, OneFields DEF OneStoresAt, OneAgree, OneSame, OneTypes, OneLocals, One!Row
  <2> QED
    BY <2>2 DEF OneStores, OneAlone
<1>9. OneAlone /\ OneEnables => OneRest'
  <2>1. OneAlone /\ OneEnables => OneRestAt(r) /\ OneStoresAt(r)
    BY <1>0 DEF OneRest, OneStores
  <2>2. OneAlone /\ OneEnables => OneRestAt(r)'
    BY <1>0, <1>1, <1>2, <1>5, <2>1, <1>4, OneNumbers, OneNothing, OneFields DEF OneRestAt, OneStoresAt, OneAgree, OneOff, OneDead, OneSame, OneTypes, OneLocals, OneEnables, One!Row, One!Mine
  <2> QED
    BY <2>2 DEF OneRest, OneAlone
<1> QED
    BY <1>2, <1>6, <1>7, <1>8, <1>9 DEF OneInv

(* The rollback removes what is in the directory.                           *)
LEMMA OneRemovesNew == ASSUME OneInv, NEW r \in OneRequests, One!RemoveNew(r) PROVE OneInv'
<1>0. /\ OneTypes /\ OneTyped /\ OneLocals
      /\ OneAlone => OneStores
      /\ OneAlone /\ OneEnables => OneRest
    BY DEF OneInv
<1>1. /\ oneReq[r].pc = "rollback"
      /\ oneDisk' = One!None
      /\ One!Goto(r, "putback")
      /\ UNCHANGED <<oneDb, oneManifest, oneTokens, oneProc, oneSubscribed, oneScheduled, oneLastToken, oneFaults, oneRestarts, oneGranted>>
    BY DEF One!RemoveNew, One!stores, One!runtime, One!counters, One!At, One!Works, One!Fails
<1>2. /\ OneTyped' /\ OneRestSame(r)
      /\ oneReq'[r].pc = "putback" /\ OneSame(r)
    BY <1>0, <1>1, OneGoes DEF OneLabels
<1>5. oneReq[r] \in OneReqs
    BY <1>0 DEF OneTyped
<1>6. OneTypes'
    BY <1>0, <1>1, <1>2, <1>5, OneNumbers, OneNothing, OneFields DEF OneTypes, OneLocals
<1>7. OneLocals'
    BY <1>0, <1>1, <1>2, <1>5, OneNumbers, OneFields DEF OneLocals, OneRestSame, OneSame
<1>8. OneAlone => OneStores'
  <2>1. OneAlone => OneStoresAt(r)
    BY <1>0 DEF OneStores
  <2>2. OneAlone => OneStoresAt(r)'
    BY <1>0, <1>1, <1>2, <1>5, <2>1, OneNumbers, OneNothing, OneFields DEF OneStoresAt, OneAgree, OneSame, OneTypes, OneLocals, One!Row
  <2> QED
    BY <2>2 DEF OneStores, OneAlone
<1>9. OneAlone /\ OneEnables => OneRest'
  <2>1. OneAlone /\ OneEnables => OneRestAt(r) /\ OneStoresAt(r)
    BY <1>0 DEF OneRest, OneStores
  <2>2. OneAlone /\ OneEnables => OneRestAt(r)'
    BY <1>0, <1>1, <1>2, <1>5, <2>1, OneNumbers, OneNothing, OneFields DEF OneRestAt, OneStoresAt, OneAgree, OneOff, OneDead, OneSame, OneTypes, OneLocals, OneEnables, One!Row, One!Mine
  <2> QED
    BY <2>2 DEF OneRest, OneAlone
<1> QED
    BY <1>2, <1>6, <1>7, <1>8, <1>9 DEF OneInv

(* The rollback moves the backup in, unless there is a directory again.     *)
LEMMA OnePutsBack == ASSUME OneInv, NEW r \in OneRequests, One!RestoreDirectory(r) PROVE OneInv'
<1>0. /\ OneTypes /\ OneTyped /\ OneLocals
      /\ OneAlone => OneStores
      /\ OneAlone /\ OneEnables => OneRest
    BY DEF OneInv
<1>1. /\ oneReq[r].pc = "putback"
      /\ oneDisk' = IF oneDisk = One!None THEN oneReq[r].bak ELSE oneDisk
      /\ One!Goto(r, "restore")
      /\ UNCHANGED <<oneDb, oneManifest, oneTokens, oneProc, oneSubscribed, oneScheduled, oneLastToken, oneFaults, oneRestarts, oneGranted>>
    BY DEF One!RestoreDirectory, One!stores, One!runtime, One!counters, One!At, One!Works, One!Fails, One!Restored
<1>2. /\ OneTyped' /\ OneRestSame(r)
      /\ oneReq'[r].pc = "restore" /\ OneSame(r)
    BY <1>0, <1>1, OneGoes DEF OneLabels
<1>5. oneReq[r] \in OneReqs
    BY <1>0 DEF OneTyped
<1>6. OneTypes'
    BY <1>0, <1>1, <1>2, <1>5, OneNumbers, OneNothing, OneFields DEF OneTypes, OneLocals
<1>7. OneLocals'
    BY <1>0, <1>1, <1>2, <1>5, OneNumbers, OneFields DEF OneLocals, OneRestSame, OneSame
<1>8. OneAlone => OneStores'
  <2>1. OneAlone => OneStoresAt(r)
    BY <1>0 DEF OneStores
  <2>2. OneAlone => OneStoresAt(r)'
    BY <1>0, <1>1, <1>2, <1>5, <2>1, OneNumbers, OneNothing, OneFields DEF OneStoresAt, OneAgree, OneSame, OneTypes, OneLocals, One!Row
  <2> QED
    BY <2>2 DEF OneStores, OneAlone
<1>9. OneAlone /\ OneEnables => OneRest'
  <2>1. OneAlone /\ OneEnables => OneRestAt(r) /\ OneStoresAt(r)
    BY <1>0 DEF OneRest, OneStores
  <2>2. OneAlone /\ OneEnables => OneRestAt(r)'
    BY <1>0, <1>1, <1>2, <1>5, <2>1, OneNumbers, OneNothing, OneFields DEF OneRestAt, OneStoresAt, OneAgree, OneOff, OneDead, OneSame, OneTypes, OneLocals, OneEnables, One!Row, One!Mine
  <2> QED
    BY <2>2 DEF OneRest, OneAlone
<1> QED
    BY <1>2, <1>6, <1>7, <1>8, <1>9 DEF OneInv

(* The rollback writes the old row back.                                    *)
LEMMA OneRestoresRow == ASSUME OneInv, NEW r \in OneRequests, One!RestoreRecord(r) PROVE OneInv'
<1>0. /\ OneTypes /\ OneTyped /\ OneLocals
      /\ OneAlone => OneStores
      /\ OneAlone /\ OneEnables => OneRest
    BY DEF OneInv
<1>1. /\ oneReq[r].pc = "restore"
      /\ oneDb' = One!Upserted(oneReq[r].old.ver, oneReq[r].old.enabled, oneReq[r].old.approved)
      /\ One!Goto(r, "reload")
      /\ UNCHANGED <<oneDisk, oneManifest, oneTokens, oneProc, oneSubscribed, oneScheduled, oneLastToken, oneFaults, oneRestarts, oneGranted>>
    BY DEF One!RestoreRecord, One!stores, One!runtime, One!counters, One!At, One!Works, One!Fails
<1>2. /\ OneTyped' /\ OneRestSame(r)
      /\ oneReq'[r].pc = "reload" /\ OneSame(r)
    BY <1>0, <1>1, OneGoes DEF OneLabels
<1>3. oneReq[r].old.ver \in OneVersions /\ oneReq[r].old.enabled \in BOOLEAN /\ oneReq[r].old.approved \in SUBSET OnePermissions
    BY <1>0, <1>1, OneNumbers, OneFields, OneNothing DEF OneLocals, OneTyped, OneTypes
<1>4. /\ One!Upserted(oneReq[r].old.ver, oneReq[r].old.enabled, oneReq[r].old.approved) \in OneRow /\ One!Upserted(oneReq[r].old.ver, oneReq[r].old.enabled, oneReq[r].old.approved) # One!NoRow /\ One!Upserted(oneReq[r].old.ver, oneReq[r].old.enabled, oneReq[r].old.approved).ver = oneReq[r].old.ver
      /\ One!Upserted(oneReq[r].old.ver, oneReq[r].old.enabled, oneReq[r].old.approved).enabled = IF oneDb = One!NoRow THEN oneReq[r].old.enabled ELSE oneDb.enabled
    BY <1>0, <1>3, OneUpserts
<1>5. oneReq[r] \in OneReqs
    BY <1>0 DEF OneTyped
<1>t. oneDb' \in {One!NoRow} \cup OneRow /\ oneDisk' \in OneVersions \cup {One!None}
    BY <1>0, <1>1, <1>2, <1>4 DEF OneTypes
<1>6. OneTypes'
    BY <1>0, <1>1, <1>2, <1>t, OneNumbers DEF OneTypes
<1>7. OneLocals'
    BY <1>0, <1>1, <1>2, <1>5, OneNumbers, OneFields DEF OneLocals, OneRestSame, OneSame
<1>8. OneAlone => OneStores'
  <2>1. OneAlone => OneStoresAt(r)
    BY <1>0 DEF OneStores
  <2>2. OneAlone => OneStoresAt(r)'
    BY <1>0, <1>1, <1>2, <1>5, <2>1, <1>4, OneNumbers, OneNothing, OneFields DEF OneStoresAt, OneAgree, OneSame, OneTypes, OneLocals, One!Row
  <2> QED
    BY <2>2 DEF OneStores, OneAlone
<1>9. OneAlone /\ OneEnables => OneRest'
  <2>1. OneAlone /\ OneEnables => OneRestAt(r) /\ OneStoresAt(r)
    BY <1>0 DEF OneRest, OneStores
  <2>2. OneAlone /\ OneEnables => OneRestAt(r)'
    BY <1>0, <1>1, <1>2, <1>5, <2>1, <1>4, OneNumbers, OneNothing, OneFields DEF OneRestAt, OneStoresAt, OneAgree, OneOff, OneDead, OneSame, OneTypes, OneLocals, OneEnables, One!Row, One!Mine
  <2> QED
    BY <2>2 DEF OneRest, OneAlone
<1> QED
    BY <1>2, <1>6, <1>7, <1>8, <1>9 DEF OneInv

(* The rollback loads the old manifest.                                     *)
LEMMA OneReloads == ASSUME OneInv, NEW r \in OneRequests, One!Reload(r) PROVE OneInv'
<1>0. /\ OneTypes /\ OneTyped /\ OneLocals
      /\ OneAlone => OneStores
      /\ OneAlone /\ OneEnables => OneRest
    BY DEF OneInv
<1>1. /\ oneReq[r].pc = "reload"
      /\ oneManifest' = IF oneDisk = One!None THEN oneManifest ELSE oneDisk
      /\ One!Done(r)
      /\ UNCHANGED <<oneDisk, oneDb, oneTokens, oneProc, oneSubscribed, oneScheduled, oneLastToken, oneFaults, oneRestarts, oneGranted>>
    BY DEF One!Reload, One!stores, One!runtime, One!counters, One!At, One!Works, One!Fails
<1>2. /\ OneTyped' /\ OneRestSame(r)
      /\ oneReq'[r].pc = "idle"
    BY <1>0, <1>1, OneEnds
<1>5. oneReq[r] \in OneReqs
    BY <1>0 DEF OneTyped
<1>6. OneTypes'
    BY <1>0, <1>1, <1>2, <1>5, OneNumbers, OneNothing, OneFields DEF OneTypes, OneLocals
<1>7. OneLocals'
    BY <1>0, <1>1, <1>2, <1>5, OneNumbers, OneFields DEF OneLocals, OneRestSame, OneSame
<1>8. OneAlone => OneStores'
  <2>1. OneAlone => OneStoresAt(r)
    BY <1>0 DEF OneStores
  <2>2. OneAlone => OneStoresAt(r)'
    BY <1>0, <1>1, <1>2, <1>5, <2>1, OneNumbers, OneNothing, OneFields DEF OneStoresAt, OneAgree, OneSame, OneTypes, OneLocals, One!Row
  <2> QED
    BY <2>2 DEF OneStores, OneAlone
<1>9. OneAlone /\ OneEnables => OneRest'
  <2>1. OneAlone /\ OneEnables => OneRestAt(r) /\ OneStoresAt(r)
    BY <1>0 DEF OneRest, OneStores
  <2>2. OneAlone /\ OneEnables => OneRestAt(r)'
    BY <1>0, <1>1, <1>2, <1>5, <2>1, OneNumbers, OneNothing, OneFields DEF OneRestAt, OneStoresAt, OneAgree, OneOff, OneDead, OneSame, OneTypes, OneLocals, OneEnables, One!Row, One!Mine
  <2> QED
    BY <2>2 DEF OneRest, OneAlone
<1> QED
    BY <1>2, <1>6, <1>7, <1>8, <1>9 DEF OneInv

(* The backup is removed.                                                   *)
LEMMA OneCleansUp == ASSUME OneInv, NEW r \in OneRequests, One!Cleanup(r) PROVE OneInv'
<1>0. /\ OneTypes /\ OneTyped /\ OneLocals
      /\ OneAlone => OneStores
      /\ OneAlone /\ OneEnables => OneRest
    BY DEF OneInv
<1>1. /\ oneReq[r].pc = "cleanup"
      /\ One!Done(r)
      /\ UNCHANGED <<oneDisk, oneDb, oneManifest, oneTokens, oneProc, oneSubscribed, oneScheduled, oneLastToken, oneFaults, oneRestarts, oneGranted>>
    BY DEF One!Cleanup, One!stores, One!runtime, One!counters, One!At, One!Works, One!Fails
<1>2. /\ OneTyped' /\ OneRestSame(r)
      /\ oneReq'[r].pc = "idle"
    BY <1>0, <1>1, OneEnds
<1>5. oneReq[r] \in OneReqs
    BY <1>0 DEF OneTyped
<1>6. OneTypes'
    BY <1>0, <1>1, <1>2, <1>5, OneNumbers, OneNothing, OneFields DEF OneTypes, OneLocals
<1>7. OneLocals'
    BY <1>0, <1>1, <1>2, <1>5, OneNumbers, OneFields DEF OneLocals, OneRestSame, OneSame
<1>8. OneAlone => OneStores'
  <2>1. OneAlone => OneStoresAt(r)
    BY <1>0 DEF OneStores
  <2>2. OneAlone => OneStoresAt(r)'
    BY <1>0, <1>1, <1>2, <1>5, <2>1, OneNumbers, OneNothing, OneFields DEF OneStoresAt, OneAgree, OneSame, OneTypes, OneLocals, One!Row
  <2> QED
    BY <2>2 DEF OneStores, OneAlone
<1>9. OneAlone /\ OneEnables => OneRest'
  <2>1. OneAlone /\ OneEnables => OneRestAt(r) /\ OneStoresAt(r)
    BY <1>0 DEF OneRest, OneStores
  <2>2. OneAlone /\ OneEnables => OneRestAt(r)'
    BY <1>0, <1>1, <1>2, <1>5, <2>1, OneNumbers, OneNothing, OneFields DEF OneRestAt, OneStoresAt, OneAgree, OneOff, OneDead, OneSame, OneTypes, OneLocals, OneEnables, One!Row, One!Mine
  <2> QED
    BY <2>2 DEF OneRest, OneAlone
<1> QED
    BY <1>2, <1>6, <1>7, <1>8, <1>9 DEF OneInv

(* ScanPlugins registers what is in the directory.                          *)
LEMMA OneScans == ASSUME OneInv, NEW r \in OneRequests, One!Scan(r) PROVE OneInv'
<1>0. /\ OneTypes /\ OneTyped /\ OneLocals
      /\ OneAlone => OneStores
      /\ OneAlone /\ OneEnables => OneRest
    BY DEF OneInv
<1>1. /\ oneReq[r].pc = "scan"
      /\ \/ oneDisk = One!None /\ One!Done(r) /\ oneDb' = oneDb /\ oneManifest' = oneManifest
         \/ /\ oneDisk # One!None /\ oneManifest' = oneDisk /\ oneDb' = One!Upserted(oneDisk, FALSE, OneDeclared[oneDisk])
            /\ One!Goto(r, "lookup") \/ One!Done(r)
      /\ UNCHANGED <<oneDisk, oneTokens, oneProc, oneSubscribed, oneScheduled, oneLastToken, oneFaults, oneRestarts, oneGranted>>
    BY DEF One!Scan, One!stores, One!runtime, One!counters, One!At, One!Works, One!Fails
<1>2. /\ OneTyped' /\ OneRestSame(r)
      /\ oneReq'[r].pc \in {"idle", "lookup"}
      /\ \/ oneDisk = One!None /\ oneDb' = oneDb /\ oneManifest' = oneManifest
         \/ oneDisk # One!None /\ oneManifest' = oneDisk /\ oneDb' = One!Upserted(oneDisk, FALSE, OneDeclared[oneDisk])
    BY <1>0, <1>1, OneGoes, OneEnds DEF OneLabels
<1>3. oneDisk # One!None => (oneDisk \in OneVersions /\ FALSE \in BOOLEAN /\ OneDeclared[oneDisk] \in SUBSET OnePermissions)
    BY <1>0, <1>1, OneNumbers, OneFields, OneNothing DEF OneLocals, OneTyped, OneTypes
<1>4. oneDisk # One!None => /\ One!Upserted(oneDisk, FALSE, OneDeclared[oneDisk]) \in OneRow /\ One!Upserted(oneDisk, FALSE, OneDeclared[oneDisk]) # One!NoRow /\ One!Upserted(oneDisk, FALSE, OneDeclared[oneDisk]).ver = oneDisk
                        /\ One!Upserted(oneDisk, FALSE, OneDeclared[oneDisk]).enabled = IF oneDb = One!NoRow THEN FALSE ELSE oneDb.enabled
    BY <1>0, <1>3, OneUpserts
<1>5. oneReq[r] \in OneReqs
    BY <1>0 DEF OneTyped
<1>t. oneDb' \in {One!NoRow} \cup OneRow /\ oneDisk' \in OneVersions \cup {One!None}
    BY <1>0, <1>1, <1>2, <1>4 DEF OneTypes
<1>6. OneTypes'
    BY <1>0, <1>1, <1>2, <1>t, OneNumbers DEF OneTypes
<1>7. OneLocals'
    BY <1>0, <1>1, <1>2, <1>5, OneNumbers, OneFields DEF OneLocals, OneRestSame, OneSame
<1>8. OneAlone => OneStores'
  <2>1. OneAlone => OneStoresAt(r)
    BY <1>0 DEF OneStores
  <2>2. OneAlone => OneStoresAt(r)'
    BY <1>0, <1>1, <1>2, <1>5, <2>1, <1>4, OneNumbers, OneNothing, OneFields, ZenonT(60) DEF OneStoresAt, OneAgree, OneSame, OneTypes, OneLocals, One!Row
  <2> QED
    BY <2>2 DEF OneStores, OneAlone
<1>9. OneAlone /\ OneEnables => OneRest'
  <2>1. OneAlone /\ OneEnables => OneRestAt(r) /\ OneStoresAt(r)
    BY <1>0 DEF OneRest, OneStores
  <2>2. OneAlone /\ OneEnables => OneRestAt(r)'
    BY <1>0, <1>1, <1>2, <1>5, <2>1, <1>4, OneNumbers, OneNothing, OneFields DEF OneRestAt, OneStoresAt, OneAgree, OneOff, OneDead, OneSame, OneTypes, OneLocals, OneEnables, One!Row, One!Mine
  <2> QED
    BY <2>2 DEF OneRest, OneAlone
<1> QED
    BY <1>2, <1>6, <1>7, <1>8, <1>9 DEF OneInv

(* A request begins.                                                        *)
LEMMA OneBegins == ASSUME OneInv, NEW r \in OneRequests, NEW op \in OneOps, NEW l \in {"lookup", "validate", "stop"}, One!Begin(r, op, l) PROVE OneInv'
<1>0. /\ OneTypes /\ OneTyped /\ OneLocals
      /\ OneAlone => OneStores
      /\ OneAlone /\ OneEnables => OneRest
    BY DEF OneInv
<1>1. /\ oneReq[r].pc = "idle"
      /\ op \in OneOps
      /\ l \in {"lookup", "validate", "stop"}
      /\ UNCHANGED <<oneDisk, oneDb, oneManifest, oneTokens, oneProc, oneSubscribed, oneScheduled, oneLastToken, oneFaults, oneRestarts, oneGranted>>
    BY DEF One!Begin, One!stores, One!runtime, One!counters, One!At, One!Works, One!Fails
<1>2. /\ OneTyped' /\ OneRestSame(r)
      /\ oneReq'[r].pc = l
  <2>0. oneReq[r] \in OneReqs
    BY <1>0 DEF OneTyped
  <2> DEFINE z == [One!Idle EXCEPT !.op = op, !.pc = l]
  <2>3. l \in OneLabels /\ op \in OneOps
    BY <1>0, <1>1, <2>0, OneNothing DEF OneTypes, OneLabels, OneOps
  <2>4. z \in OneReqs
    BY <2>0, <2>3, OneNothing DEF OneReqs
  <2>5. oneReq' = [oneReq EXCEPT ![r] = z]
    BY <1>0, <1>1, <2>0 DEF OneTyped, One!Begin
  <2>6. z.pc = l
    BY <2>0, OneNothing DEF OneReqs
  <2> HIDE DEF z
  <2>7. OneTyped' /\ OneRestSame(r) /\ oneReq'[r] = z
    BY <1>0, <2>4, <2>5, OnePuts
  <2> QED
    BY <1>1, <2>6, <2>7
<1>5. oneReq[r] \in OneReqs
    BY <1>0 DEF OneTyped
<1>6. OneTypes'
    BY <1>0, <1>1, <1>2, <1>5, OneNumbers, OneNothing, OneFields DEF OneTypes, OneLocals
<1>7. OneLocals'
    BY <1>0, <1>1, <1>2, <1>5, OneNumbers, OneFields DEF OneLocals, OneRestSame, OneSame
<1>8. OneAlone => OneStores'
  <2>1. OneAlone => OneStoresAt(r)
    BY <1>0 DEF OneStores
  <2>2. OneAlone => OneStoresAt(r)'
    BY <1>0, <1>1, <1>2, <1>5, <2>1, OneNumbers, OneNothing, OneFields DEF OneStoresAt, OneAgree, OneSame, OneTypes, OneLocals, One!Row
  <2> QED
    BY <2>2 DEF OneStores, OneAlone
<1>9. OneAlone /\ OneEnables => OneRest'
  <2>1. OneAlone /\ OneEnables => OneRestAt(r) /\ OneStoresAt(r)
    BY <1>0 DEF OneRest, OneStores
  <2>2. OneAlone /\ OneEnables => OneRestAt(r)'
    BY <1>0, <1>1, <1>2, <1>5, <2>1, OneNumbers, OneNothing, OneFields DEF OneRestAt, OneStoresAt, OneAgree, OneOff, OneDead, OneSame, OneTypes, OneLocals, OneEnables, One!Row, One!Mine
  <2> QED
    BY <2>2 DEF OneRest, OneAlone
<1> QED
    BY <1>2, <1>6, <1>7, <1>8, <1>9 DEF OneInv

(* An installation begins; Stat decides the path.                           *)
LEMMA OneInstallBegins == ASSUME OneInv, NEW r \in OneRequests, NEW v \in OneVersions, One!Install(r, v) PROVE OneInv'
<1>0. /\ OneTypes /\ OneTyped /\ OneLocals
      /\ OneAlone => OneStores
      /\ OneAlone /\ OneEnables => OneRest
    BY DEF OneInv
<1>1. /\ oneReq[r].pc = "idle"
      /\ v \in OneVersions
      /\ UNCHANGED <<oneDisk, oneDb, oneManifest, oneTokens, oneProc, oneSubscribed, oneScheduled, oneLastToken, oneFaults, oneRestarts, oneGranted>>
    BY DEF One!Install, One!stores, One!runtime, One!counters, One!At, One!Works, One!Fails
<1>2. /\ OneTyped' /\ OneRestSame(r)
      /\ oneReq'[r].new = v
      /\ \/ oneReq'[r].pc = "move" /\ oneDisk = One!None
         \/ oneReq'[r].pc = "record" /\ oneDisk # One!None
  <2>0. oneReq[r] \in OneReqs
    BY <1>0 DEF OneTyped
  <2> DEFINE z == [One!Idle EXCEPT !.op = "install", !.new = v, !.pc = IF oneDisk = One!None THEN "move" ELSE "record"]
  <2>3. {"move", "record"} \subseteq OneLabels /\ v \in OneVersions /\ "install" \in OneOps
    BY <1>0, <1>1, <2>0, OneNothing DEF OneTypes, OneLabels, OneOps
  <2>4. z \in OneReqs
    BY <2>0, <2>3, OneNothing DEF OneReqs
  <2>5. oneReq' = [oneReq EXCEPT ![r] = z]
    BY <1>0, <1>1, <2>0 DEF OneTyped, One!Install
  <2>6. z.new = v /\ z.pc = IF oneDisk = One!None THEN "move" ELSE "record"
    BY <2>0, OneNothing DEF OneReqs
  <2> HIDE DEF z
  <2>7. OneTyped' /\ OneRestSame(r) /\ oneReq'[r] = z
    BY <1>0, <2>4, <2>5, OnePuts
  <2> QED
    BY <1>1, <2>6, <2>7
<1>5. oneReq[r] \in OneReqs
    BY <1>0 DEF OneTyped
<1>6. OneTypes'
    BY <1>0, <1>1, <1>2, <1>5, OneNumbers, OneNothing, OneFields DEF OneTypes, OneLocals
<1>7. OneLocals'
    BY <1>0, <1>1, <1>2, <1>5, OneNumbers, OneFields DEF OneLocals, OneRestSame, OneSame, OneTypes
<1>8. OneAlone => OneStores'
  <2>1. OneAlone => OneStoresAt(r)
    BY <1>0 DEF OneStores
  <2>2. OneAlone => OneStoresAt(r)'
    BY <1>0, <1>1, <1>2, <1>5, <2>1, OneNumbers, OneNothing, OneFields DEF OneStoresAt, OneAgree, OneSame, OneTypes, OneLocals, One!Row
  <2> QED
    BY <2>2 DEF OneStores, OneAlone
<1>9. OneAlone /\ OneEnables => OneRest'
  <2>1. OneAlone /\ OneEnables => OneRestAt(r) /\ OneStoresAt(r)
    BY <1>0 DEF OneRest, OneStores
  <2>2. OneAlone /\ OneEnables => OneRestAt(r)'
    BY <1>0, <1>1, <1>2, <1>5, <2>1, OneNumbers, OneNothing, OneFields DEF OneRestAt, OneStoresAt, OneAgree, OneOff, OneDead, OneSame, OneTypes, OneLocals, OneEnables, One!Row, One!Mine
  <2> QED
    BY <2>2 DEF OneRest, OneAlone
<1> QED
    BY <1>2, <1>6, <1>7, <1>8, <1>9 DEF OneInv

(* The process exits, or the supervisor restarts it.                        *)
LEMMA OneProcessMoves == ASSUME OneInv, One!ProcessExits \/ One!SupervisorRestarts PROVE OneInv'
<1>0. OneTypes /\ OneTyped /\ OneLocals /\ (OneAlone => OneStores) /\ (OneAlone /\ OneEnables => OneRest)
    BY DEF OneInv
<1>1. UNCHANGED <<oneDisk, oneDb, oneManifest, oneTokens, oneSubscribed, oneScheduled, oneReq, oneLastToken, oneFaults, oneRestarts, oneGranted>>
    BY DEF One!ProcessExits, One!SupervisorRestarts, One!stores, One!runtime, One!counters
<1>2. oneProc \in OneProcess /\ One!NoProc \notin OneProcess /\ One!NoProc.alive = FALSE
    BY <1>0, OneNumbers, OneNothing DEF OneTypes, One!ProcessExits, One!SupervisorRestarts, One!NoProc, OneProcess
<1>3. /\ oneProc' \in OneProcess /\ oneProc'.tok = oneProc.tok /\ oneProc'.ready = oneProc.ready
      /\ oneProc'.alive => oneProc.alive \/ oneProc.ready
  <2>1. CASE One!ProcessExits
    BY <1>2, <2>1 DEF One!ProcessExits, OneProcess
  <2>2. CASE One!SupervisorRestarts
    <3>1. oneDisk \in OneVersions
      BY <1>0, <2>2 DEF One!SupervisorRestarts, One!Executable, OneTypes
    <3> QED
      BY <1>2, <2>2, <3>1 DEF One!SupervisorRestarts, OneProcess
  <2> QED
    BY <2>1, <2>2
<1>4. OneTypes'
    BY <1>0, <1>1, <1>3 DEF OneTypes
<1>5. OneTyped' /\ OneLocals'
    BY <1>0, <1>1 DEF OneTyped, OneLocals
<1>6. OneAlone => OneStores'
    BY <1>0, <1>1 DEF OneStores, OneStoresAt, OneAgree
<1>7. OneAlone /\ OneEnables => OneRest'
  <2> SUFFICES ASSUME OneAlone, OneEnables, NEW r \in OneRequests PROVE OneRestAt(r)'
    BY DEF OneRest
  <2>1. OneRestAt(r)
    BY <1>0 DEF OneRest
  <2> QED
    BY <1>1, <1>2, <1>3, <2>1 DEF OneRestAt, OneOff, OneDead
<1> QED
    BY <1>4, <1>5, <1>6, <1>7 DEF OneInv

(* The panel restarts between requests, and goes on to the scan.            *)
LEMMA OnePanel == ASSUME OneInv, One!PanelRestarts PROVE OneInv'
<1>0. OneTypes /\ OneTyped /\ OneLocals /\ (OneAlone => OneStores) /\ (OneAlone /\ OneEnables => OneRest)
    BY DEF OneInv
<1> DEFINE boot == CHOOSE r \in OneRequests : TRUE
           s == [One!Idle EXCEPT !.op = "boot", !.pc = "scan"]
<1>1. /\ oneRestarts < OneMaxRestarts /\ (OneRestartAnywhere \/ One!Quiet)
      /\ oneRestarts' = oneRestarts + 1 /\ oneManifest' = One!None /\ oneTokens' = {} /\ oneProc' = One!NoProc
      /\ oneSubscribed' = FALSE /\ oneScheduled' = FALSE
      /\ oneReq' = [r \in OneRequests |-> IF r = boot THEN s ELSE One!Idle]
      /\ UNCHANGED <<oneDisk, oneDb, oneLastToken, oneFaults, oneGranted>>
    BY DEF One!PanelRestarts
<1>2. s \in OneReqs /\ s.pc = "scan"
    BY OneNothing, ZenonT(60) DEF OneReqs, OneLabels, OneOps
<1> HIDE DEF boot, s
<1>3. OneTyped'
    BY <1>1, <1>2, OneNothing DEF OneTyped
<1>4. OneTypes'
  <2>1. FALSE \in BOOLEAN /\ oneRestarts + 1 \in 0..OneMaxRestarts
    BY <1>0, <1>1, OneNumbers DEF OneTypes
  <2> QED
    BY <1>0, <1>1, <2>1 DEF OneTypes
<1>5. \A r \in OneRequests : oneReq'[r].pc \in {"scan", "idle"}
    BY <1>1, <1>2, OneNothing
<1>6. OneLocals'
    BY <1>5 DEF OneLocals
<1>7. OneAlone => \A r \in OneRequests : oneReq'[r].pc = "scan"
    BY <1>1, <1>2 DEF OneAlone, boot
<1>8. OneAlone => OneStores'
  <2> SUFFICES ASSUME OneAlone, NEW r \in OneRequests PROVE OneStoresAt(r)'
    BY DEF OneStores
  <2>1. OneStoresAt(r) /\ oneReq[r].pc = "idle"
    BY <1>0, <1>1 DEF OneStores, OneAlone, One!Quiet
  <2>2. oneDb # One!NoRow => oneDisk = oneDb.ver
    BY <2>1 DEF OneStoresAt, OneAgree
  <2> QED
    BY <1>1, <1>7, <2>2 DEF OneStoresAt
<1>9. OneAlone /\ OneEnables => OneRest'
    BY <1>1, <1>7, OneNothing DEF OneRest, OneRestAt, OneDead
<1> QED
    BY <1>3, <1>4, <1>6, <1>8, <1>9 DEF OneInv

(* The invariant holds at the start.                                        *)
LEMMA OneInit == One!Init => OneInv
<1> SUFFICES ASSUME One!Init PROVE OneInv
    OBVIOUS
<1>1. OneTypes
  <2>1. FALSE \in BOOLEAN /\ 0 \in 0..OneMaxTokens /\ 0 \in 0..OneMaxFaults /\ 0 \in 0..OneMaxRestarts
    BY OneNumbers
  <2> QED
    BY <2>1 DEF One!Init, OneTypes
<1>2. OneTyped /\ \A r \in OneRequests : oneReq[r].pc = "idle"
    BY OneNothing DEF One!Init, OneTyped
<1>3. OneLocals
    BY <1>2 DEF OneLocals
<1>4. OneStores
    BY <1>2 DEF One!Init, OneStores, OneStoresAt, OneAgree
<1>5. OneRest
    BY <1>2, OneNothing DEF One!Init, OneRest, OneRestAt, OneDead
<1> QED
    BY <1>1, <1>2, <1>3, <1>4, <1>5 DEF OneInv

(* A step of a request that is under way.                                   *)
LEMMA OneWorks == ASSUME OneInv, NEW r \in OneRequests, One!Step(r) PROVE OneInv'
BY OneValidates, OneLooksUp, OneIssues, OneFindsRunning, OneLaunches, OneLaunchFails, OneBecomes, OneNotReady, OneRevokes, OneSetsEnabled, OneSetEnabledFails, OneSubscribes, OneSchedules, OneStops, OneUnsubscribes, OneUnschedules, OneClears, OneDisables, OneUnloads, OneDeletes, OneMovesIn, OneInserts, OneLoads, OneReadsRecord, OneHalts, OneBacksUp, OneReplaces, OneUpdates, OneRemovesNew, OnePutsBack, OneRestoresRow, OneReloads, OneCleansUp, OneScans
   DEF One!Step

(* Every step keeps the invariant.                                          *)
LEMMA OneStep == OneInv /\ One!Next => OneInv'
<1> SUFFICES ASSUME OneInv, One!Next PROVE OneInv'
    OBVIOUS
<1>1. CASE \E r \in OneRequests : One!Start(r) \/ One!Approve(r)
  <2>1. PICK r \in OneRequests : One!Begin(r, "start", "lookup") \/ One!Begin(r, "approve", "validate")
    BY <1>1 DEF One!Start, One!Approve
  <2> QED
    BY <2>1, OneBegins DEF OneOps
<1>2. CASE \E r \in OneRequests, op \in {"stop", "disable", "remove"} : One!StopRequest(r, op)
  <2>1. PICK r \in OneRequests, op \in {"stop", "disable", "remove"} : One!Begin(r, op, "stop")
    BY <1>2 DEF One!StopRequest
  <2> QED
    BY <2>1, OneBegins DEF OneOps
<1>3. CASE \E r \in OneRequests, v \in OneVersions : One!Install(r, v)
    BY <1>3, OneInstallBegins
<1>4. CASE \E r \in OneRequests : One!Step(r)
    BY <1>4, OneWorks
<1>5. CASE One!ProcessExits \/ One!SupervisorRestarts
    BY <1>5, OneProcessMoves
<1>6. CASE One!PanelRestarts
    BY <1>6, OnePanel
<1> QED
    BY <1>1, <1>2, <1>3, <1>4, <1>5, <1>6 DEF One!Next

(* The invariant holds on while the part does nothing.                      *)
LEMMA OneStutter == OneInv /\ UNCHANGED oneVars => OneInv'
BY DEF OneInv, OneTypes, OneTyped, OneLocals, OneStores, OneStoresAt, OneAgree, OneRest, OneRestAt,
       OneOff, OneDead, oneVars

(* What the invariant says.                                                 *)
LEMMA OneShows ==
    /\ OneInv => One!TypeOK
    /\ OneInv /\ OneAlone => One!StoresAgree
    /\ OneInv /\ OneAlone /\ OneEnables => One!DisabledIsQuiet
<1>1. OneInv => One!TypeOK
    BY OneFields DEF OneInv, OneTypes, OneTyped, OneRow, OneProcess, One!TypeOK
<1>2. OneInv /\ OneAlone => One!StoresAgree
    BY DEF OneInv, OneAlone, OneStores, OneStoresAt, OneAgree, One!StoresAgree, One!Quiet
<1>3. OneInv /\ OneAlone /\ OneEnables => One!DisabledIsQuiet
    BY DEF OneInv, OneAlone, OneRest, OneRestAt, OneOff, OneDead, One!DisabledIsQuiet, One!Quiet
<1> QED
    BY <1>1, <1>2, <1>3

-----------------------------------------------------------------------------
(* Requests that overlap. Beside the types, the invariant says that only    *)
(* the newest token is accepted, and that the directory, once it is filled, *)
(* is there or held by a request that puts it back.                         *)
TwoLabels == {"idle", "validate", "lookup", "issue", "ensure", "wait", "revoke", "enable", "subscribe",
             "schedule", "stop", "unsubscribe", "unschedule", "clear", "disable", "unload", "delete",
             "move", "insert", "load", "record", "halt", "backup", "replace", "update", "rollback",
             "putback", "restore", "reload", "cleanup", "scan"}
TwoOps == {"none", "start", "approve", "stop", "disable", "remove", "install", "boot"}
TwoRows == [ver : TwoVersions \cup {Two!None}, enabled : BOOLEAN, approved : SUBSET TwoPermissions]
TwoRow == [ver : TwoVersions, enabled : BOOLEAN, approved : SUBSET TwoPermissions]
TwoProcess == [ver : TwoVersions, tok : 1..TwoMaxTokens, alive : BOOLEAN, ready : BOOLEAN]
TwoReqs == [pc : TwoLabels, op : TwoOps, mft : TwoVersions \cup {Two!None}, approved : SUBSET TwoPermissions,
            tok : 0..TwoMaxTokens, new : TwoVersions \cup {Two!None}, old : TwoRows,
            bak : TwoVersions \cup {Two!None}]

TwoTypes ==
    /\ twoDisk \in TwoVersions \cup {Two!None} /\ twoDb \in {Two!NoRow} \cup TwoRow
    /\ twoManifest \in TwoVersions \cup {Two!None}
    /\ twoTokens \subseteq 1..TwoMaxTokens
    /\ twoProc \in {Two!NoProc} \cup TwoProcess
    /\ twoSubscribed \in BOOLEAN /\ twoScheduled \in BOOLEAN
    /\ twoLastToken \in 0..TwoMaxTokens /\ twoFaults \in 0..TwoMaxFaults /\ twoRestarts \in 0..TwoMaxRestarts
    /\ twoGranted \subseteq TwoPermissions

(* The local variables of the requests have their types.                    *)
TwoTyped == twoReq \in [TwoRequests -> TwoReqs]

(* What a request has read at its control point.                            *)
TwoLocals ==
    \A r \in TwoRequests :
        /\ twoReq[r].pc = "ensure" => twoReq[r].tok \in 1..TwoMaxTokens
        /\ twoReq[r].pc \in {"move", "insert", "load", "record", "halt", "backup", "replace", "update"} =>
              twoReq[r].new \in TwoVersions
        /\ twoReq[r].pc \in {"halt", "backup", "replace", "update", "rollback", "putback", "restore"} =>
              twoReq[r].old \in TwoRow
        /\ twoReq[r].pc \in {"replace", "update", "rollback", "putback"} => twoReq[r].bak \in TwoVersions

(* The directory is there, or a request has it as its backup and will put   *)
(* it, or the new one, in its place.                                        *)
TwoHeld ==
    \/ twoDisk # Two!None
    \/ \E r \in TwoRequests : twoReq[r].pc \in {"replace", "rollback", "putback"}
TwoKept ==
    /\ twoDb # Two!NoRow => TwoHeld
    /\ \A r \in TwoRequests : twoReq[r].pc \in {"insert", "update", "restore"} => TwoHeld

(* The scope of it: no restart of the panel in the middle of a request, and *)
(* no failure of UpsertPlugin, after which an installation removes the      *)
(* directory that an upgrade may have put back in the meantime.             *)
TwoKeeps == ~TwoRestartAnywhere /\ "upsert" \notin TwoFaults

TwoInv ==
    /\ TwoTypes /\ TwoTyped /\ TwoLocals
    /\ twoTokens \subseteq {twoLastToken}
    /\ TwoKeeps => TwoKept

(* The constants.                                                           *)
LEMMA TwoNumbers ==
    /\ Two!None \notin TwoVersions /\ TwoDeclared \in [TwoVersions -> SUBSET TwoPermissions]
    /\ TwoMaxFaults \in Nat /\ TwoMaxTokens \in Nat /\ TwoMaxRestarts \in Nat
BY TwoAssumption DEF Two!LifecycleBounds

(* No row, and a request that is not under way.                             *)
LEMMA TwoNothing ==
    /\ Two!NoRow \in TwoRows /\ Two!NoRow \notin TwoRow /\ Two!NoRow.ver = Two!None /\ Two!NoRow.enabled = FALSE
    /\ TwoRow \subseteq TwoRows
    /\ Two!NoProc.alive = FALSE /\ Two!NoProc.ready = FALSE
    /\ Two!Idle \in TwoReqs /\ Two!Idle.pc = "idle" /\ Two!Idle.old = Two!NoRow
<1>1. Two!NoRow \in TwoRows /\ Two!NoRow \notin TwoRow /\ Two!NoRow.ver = Two!None /\ Two!NoRow.enabled = FALSE
    BY TwoNumbers DEF Two!NoRow, Two!Row, TwoRows, TwoRow
<1>2. TwoRow \subseteq TwoRows
    BY DEF TwoRows, TwoRow
<1>3. Two!NoProc.alive = FALSE /\ Two!NoProc.ready = FALSE
    BY DEF Two!NoProc
<1>4. Two!Idle \in TwoReqs /\ Two!Idle.pc = "idle" /\ Two!Idle.old = Two!NoRow
    BY <1>1, TwoNumbers DEF Two!Idle, TwoReqs, TwoLabels, TwoOps
<1> QED
    BY <1>1, <1>2, <1>3, <1>4

(* The fields of a row, of a process and of a request.                      *)
LEMMA TwoFields ==
    /\ \A d \in TwoRow : d.ver \in TwoVersions /\ d.enabled \in BOOLEAN /\ d.approved \subseteq TwoPermissions
    /\ \A d \in TwoRows : d.ver \in TwoVersions \cup {Two!None} /\ d.enabled \in BOOLEAN /\ d.approved \subseteq TwoPermissions
    /\ \A p \in TwoProcess : p.ver \in TwoVersions /\ p.tok \in 1..TwoMaxTokens /\ p.alive \in BOOLEAN /\ p.ready \in BOOLEAN
    /\ \A q \in TwoReqs : /\ q.mft \in TwoVersions \cup {Two!None} /\ q.approved \subseteq TwoPermissions
                        /\ q.tok \in 0..TwoMaxTokens /\ q.new \in TwoVersions \cup {Two!None} /\ q.old \in TwoRows
                        /\ q.bak \in TwoVersions \cup {Two!None}
BY DEF TwoRow, TwoRows, TwoProcess, TwoReqs

(* A request goes on to its next control point, or returns.                 *)
TwoSame(r) ==
    /\ twoReq'[r].mft = twoReq[r].mft /\ twoReq'[r].approved = twoReq[r].approved /\ twoReq'[r].tok = twoReq[r].tok
    /\ twoReq'[r].new = twoReq[r].new /\ twoReq'[r].old = twoReq[r].old /\ twoReq'[r].bak = twoReq[r].bak
TwoRestSame(r) == \A q \in TwoRequests : q # r => twoReq'[q] = twoReq[q]

(* A request goes on to its next control point.                             *)
LEMMA TwoGoes ==
    ASSUME TwoTyped, NEW r \in TwoRequests, NEW l \in TwoLabels, Two!Goto(r, l)
    PROVE  TwoTyped' /\ TwoRestSame(r) /\ twoReq'[r].pc = l /\ TwoSame(r)
<1>1. twoReq \in [TwoRequests -> TwoReqs] /\ twoReq' = [twoReq EXCEPT ![r].pc = l] /\ twoReq[r] \in TwoReqs
    BY DEF TwoTyped, Two!Goto
<1>2. twoReq'[r] = [twoReq[r] EXCEPT !.pc = l] /\ TwoRestSame(r)
    BY <1>1 DEF TwoRestSame
<1>3. twoReq'[r] \in TwoReqs /\ twoReq'[r].pc = l /\ TwoSame(r)
    BY <1>1, <1>2 DEF TwoReqs, TwoSame
<1>4. twoReq' \in [TwoRequests -> TwoReqs]
    BY <1>1, <1>2, <1>3 DEF TwoRestSame
<1> QED
    BY <1>2, <1>3, <1>4 DEF TwoTyped

(* A request returns.                                                       *)
LEMMA TwoEnds ==
    ASSUME TwoTyped, NEW r \in TwoRequests, Two!Done(r)
    PROVE  TwoTyped' /\ TwoRestSame(r) /\ twoReq'[r] = Two!Idle /\ twoReq'[r].pc = "idle"
BY TwoNothing DEF TwoTyped, Two!Done, TwoRestSame

(* A start is over.                                                         *)
LEMMA TwoAfter ==
    ASSUME TwoTyped, NEW r \in TwoRequests, Two!AfterStart(r)
    PROVE  TwoTyped' /\ TwoRestSame(r) /\ twoReq'[r].pc \in {"idle", "cleanup"}
<1>1. CASE Two!Goto(r, "cleanup")
    BY <1>1, TwoGoes DEF TwoLabels
<1>2. CASE Two!Done(r)
    BY <1>2, TwoEnds
<1> QED
    BY <1>1, <1>2 DEF Two!AfterStart

(* A request takes a step with its variables.                               *)
LEMMA TwoPuts ==
    ASSUME TwoTyped, NEW r \in TwoRequests, NEW z \in TwoReqs, twoReq' = [twoReq EXCEPT ![r] = z]
    PROVE  TwoTyped' /\ TwoRestSame(r) /\ twoReq'[r] = z
BY DEF TwoTyped, TwoRestSame

(* What a start approves are permissions.                                   *)
LEMMA TwoApproves ==
    ASSUME TwoTypes, twoManifest # Two!None, NEW w \in SUBSET TwoPermissions
    PROVE  Two!Approved(twoManifest, w) \subseteq TwoPermissions
BY TwoNumbers DEF TwoTypes, Two!Approved

(* UpsertPlugin writes a row of that version.                               *)
LEMMA TwoUpserts ==
    ASSUME TwoTypes, NEW v \in TwoVersions, NEW e \in BOOLEAN, NEW a \in SUBSET TwoPermissions
    PROVE  /\ Two!Upserted(v, e, a) \in TwoRow /\ Two!Upserted(v, e, a) # Two!NoRow
           /\ Two!Upserted(v, e, a).ver = v
           /\ Two!Upserted(v, e, a).enabled = IF twoDb = Two!NoRow THEN e ELSE twoDb.enabled
<1>1. CASE twoDb = Two!NoRow
  <2>1. Two!Upserted(v, e, a) = Two!Row(v, e, a)
    BY <1>1 DEF Two!Upserted
  <2> QED
    BY <1>1, <2>1, TwoNothing DEF Two!Row, TwoRow
<1>2. CASE twoDb # Two!NoRow
  <2>1. Two!Upserted(v, e, a) = [twoDb EXCEPT !.ver = v] /\ twoDb \in TwoRow
    BY <1>2 DEF Two!Upserted, TwoTypes
  <2> QED
    BY <1>2, <2>1, TwoNothing DEF TwoRow
<1> QED
    BY <1>1, <1>2

(* Approve looks the manifest up, and refuses or goes on.                   *)
LEMMA TwoValidates == ASSUME TwoInv, NEW r \in TwoRequests, Two!Validate(r) PROVE TwoInv'
<1>0. /\ TwoTypes /\ TwoTyped /\ TwoLocals
      /\ twoTokens \subseteq {twoLastToken}
      /\ TwoKeeps => TwoKept
    BY DEF TwoInv
<1>1. /\ twoReq[r].pc = "validate"
      /\ UNCHANGED <<twoDisk, twoDb, twoManifest, twoTokens, twoProc, twoSubscribed, twoScheduled, twoLastToken, twoFaults, twoRestarts, twoGranted>>
    BY DEF Two!Validate, Two!stores, Two!runtime, Two!counters, Two!At, Two!Works, Two!Fails
<1>2. /\ TwoTyped' /\ TwoRestSame(r)
      /\ twoReq'[r].pc \in {"idle", "lookup"}
  <2>0. twoReq[r] \in TwoReqs
    BY <1>0 DEF TwoTyped
  <2>1. CASE Two!Done(r)
    <3>1. TwoTyped' /\ TwoRestSame(r) /\ twoReq'[r].pc = "idle"
      BY <1>0, <2>1, TwoEnds
    <3> QED
      BY <2>1, <3>1
  <2>2. CASE \E w \in SUBSET TwoDeclared[twoManifest] :
                twoManifest # Two!None /\ twoReq' = [twoReq EXCEPT ![r].pc = "lookup", ![r].approved = w]
    <3>1. PICK w \in SUBSET TwoPermissions : twoReq' = [twoReq EXCEPT ![r].pc = "lookup", ![r].approved = w]
      BY <1>0, <2>2, TwoNumbers DEF TwoTypes
    <3> DEFINE z == [twoReq[r] EXCEPT !.pc = "lookup", !.approved = w]
    <3>3. "lookup" \in TwoLabels
      BY <1>0, <1>1, <2>0, <2>2, <3>1, TwoNumbers DEF TwoTypes, TwoLabels, TwoOps
    <3>4. z \in TwoReqs
      BY <2>0, <3>3 DEF TwoReqs
    <3>5. twoReq' = [twoReq EXCEPT ![r] = z]
      BY <1>0, <1>1, <2>0, <2>2, <3>1 DEF TwoTyped, Two!Validate
    <3>6. z.pc = "lookup"
      BY <2>0 DEF TwoReqs
    <3> HIDE DEF z
    <3>7. TwoTyped' /\ TwoRestSame(r) /\ twoReq'[r] = z
      BY <1>0, <3>4, <3>5, TwoPuts
    <3> QED
      BY <2>2, <3>6, <3>7
  <2> QED
    BY <1>1, <2>1, <2>2 DEF Two!Validate
<1>5. twoReq[r] \in TwoReqs
    BY <1>0 DEF TwoTyped
<1>6. TwoTypes'
    BY <1>0, <1>1, <1>2, <1>5, TwoNumbers, TwoNothing, TwoFields DEF TwoTypes, TwoLocals
<1>7. TwoLocals'
    BY <1>0, <1>1, <1>2, <1>5, TwoNumbers, TwoFields DEF TwoLocals, TwoRestSame, TwoSame
<1>8. (twoTokens \subseteq {twoLastToken})'
    BY <1>0, <1>1
<1>9. TwoKeeps => TwoKept'
  <2>1. TwoKeeps => (TwoHeld => TwoHeld')
    BY <1>0, <1>1, <1>2, <1>5, TwoNumbers DEF TwoHeld, TwoKeeps, TwoLocals, TwoRestSame, TwoSame
  <2>2. TwoKeeps => TwoKept'
    BY <1>0, <1>1, <1>2, <1>5, <2>1, TwoNumbers DEF TwoKept, TwoHeld, TwoLocals, TwoRestSame, TwoSame
  <2> QED
    BY <2>2
<1> QED
    BY <1>2, <1>6, <1>7, <1>8, <1>9 DEF TwoInv

(* StartWithApproved looks the manifest up; without one it ends.            *)
LEMMA TwoLooksUp == ASSUME TwoInv, NEW r \in TwoRequests, Two!LookUp(r) PROVE TwoInv'
<1>0. /\ TwoTypes /\ TwoTyped /\ TwoLocals
      /\ twoTokens \subseteq {twoLastToken}
      /\ TwoKeeps => TwoKept
    BY DEF TwoInv
<1>1. /\ twoReq[r].pc = "lookup"
      /\ UNCHANGED <<twoDisk, twoDb, twoManifest, twoTokens, twoProc, twoSubscribed, twoScheduled, twoLastToken, twoFaults, twoRestarts, twoGranted>>
    BY DEF Two!LookUp, Two!stores, Two!runtime, Two!counters, Two!At, Two!Works, Two!Fails
<1>2. /\ TwoTyped' /\ TwoRestSame(r)
      /\ \/ twoReq'[r].pc \in {"idle", "cleanup"}
         \/ twoReq'[r].pc = "issue" /\ twoManifest # Two!None
  <2>0. twoReq[r] \in TwoReqs
    BY <1>0 DEF TwoTyped
  <2>1. CASE twoManifest = Two!None /\ Two!AfterStart(r)
    <3>1. TwoTyped' /\ TwoRestSame(r) /\ twoReq'[r].pc \in {"idle", "cleanup"}
      BY <1>0, <2>1, TwoAfter
    <3> QED
      BY <2>1, <3>1
  <2>2. CASE twoManifest # Two!None
    <3> DEFINE z == [twoReq[r] EXCEPT !.pc = "issue", !.mft = twoManifest,
                                   !.approved = Two!Approved(twoManifest, twoReq[r].approved)]
    <3>3. /\ "issue" \in TwoLabels /\ twoManifest \in TwoVersions \cup {Two!None}
          /\ Two!Approved(twoManifest, twoReq[r].approved) \in SUBSET TwoPermissions
      BY <1>0, <1>1, <2>0, <2>2, TwoFields, TwoApproves DEF TwoTypes, TwoLabels, TwoOps
    <3>4. z \in TwoReqs
      BY <2>0, <3>3 DEF TwoReqs
    <3>5. twoReq' = [twoReq EXCEPT ![r] = z]
      BY <1>0, <1>1, <2>0, <2>2 DEF TwoTyped, Two!LookUp
    <3>6. z.pc = "issue"
      BY <2>0 DEF TwoReqs
    <3> HIDE DEF z
    <3>7. TwoTyped' /\ TwoRestSame(r) /\ twoReq'[r] = z
      BY <1>0, <3>4, <3>5, TwoPuts
    <3> QED
      BY <2>2, <3>6, <3>7
  <2> QED
    BY <1>1, <2>1, <2>2 DEF Two!LookUp
<1>5. twoReq[r] \in TwoReqs
    BY <1>0 DEF TwoTyped
<1>6. TwoTypes'
    BY <1>0, <1>1, <1>2, <1>5, TwoNumbers, TwoNothing, TwoFields DEF TwoTypes, TwoLocals
<1>7. TwoLocals'
    BY <1>0, <1>1, <1>2, <1>5, TwoNumbers, TwoFields DEF TwoLocals, TwoRestSame, TwoSame
<1>8. (twoTokens \subseteq {twoLastToken})'
    BY <1>0, <1>1
<1>9. TwoKeeps => TwoKept'
  <2>1. TwoKeeps => (TwoHeld => TwoHeld')
    BY <1>0, <1>1, <1>2, <1>5, TwoNumbers DEF TwoHeld, TwoKeeps, TwoLocals, TwoRestSame, TwoSame
  <2>2. TwoKeeps => TwoKept'
    BY <1>0, <1>1, <1>2, <1>5, <2>1, TwoNumbers DEF TwoKept, TwoHeld, TwoLocals, TwoRestSame, TwoSame
  <2> QED
    BY <2>2
<1> QED
    BY <1>2, <1>6, <1>7, <1>8, <1>9 DEF TwoInv

(* The new token replaces all tokens.                                       *)
LEMMA TwoIssues == ASSUME TwoInv, NEW r \in TwoRequests, Two!IssueToken(r) PROVE TwoInv'
<1>0. /\ TwoTypes /\ TwoTyped /\ TwoLocals
      /\ twoTokens \subseteq {twoLastToken}
      /\ TwoKeeps => TwoKept
    BY DEF TwoInv
<1>1. /\ twoReq[r].pc = "issue"
      /\ twoLastToken < TwoMaxTokens
      /\ twoLastToken' = twoLastToken + 1
      /\ twoTokens' = {twoLastToken + 1}
      /\ UNCHANGED <<twoDisk, twoDb, twoManifest, twoProc, twoSubscribed, twoScheduled, twoFaults, twoRestarts, twoGranted>>
    BY DEF Two!IssueToken, Two!stores, Two!runtime, Two!counters, Two!At, Two!Works, Two!Fails, Two!TokensAfterIssue
<1>2. /\ TwoTyped' /\ TwoRestSame(r)
      /\ twoReq'[r].pc = "ensure" /\ twoReq'[r].tok = twoLastToken + 1
  <2>0. twoReq[r] \in TwoReqs
    BY <1>0 DEF TwoTyped
  <2> DEFINE z == [twoReq[r] EXCEPT !.pc = "ensure", !.tok = twoLastToken + 1]
  <2>3. "ensure" \in TwoLabels /\ twoLastToken + 1 \in 0..TwoMaxTokens
    BY <1>0, <1>1, <2>0, TwoNumbers DEF TwoTypes, TwoLabels, TwoOps
  <2>4. z \in TwoReqs
    BY <2>0, <2>3 DEF TwoReqs
  <2>5. twoReq' = [twoReq EXCEPT ![r] = z]
    BY <1>0, <1>1, <2>0 DEF TwoTyped, Two!IssueToken
  <2>6. z.pc = "ensure" /\ z.tok = twoLastToken + 1
    BY <2>0 DEF TwoReqs
  <2> HIDE DEF z
  <2>7. TwoTyped' /\ TwoRestSame(r) /\ twoReq'[r] = z
    BY <1>0, <2>4, <2>5, TwoPuts
  <2> QED
    BY <1>1, <2>6, <2>7
<1>5. twoReq[r] \in TwoReqs
    BY <1>0 DEF TwoTyped
<1>6. TwoTypes'
    BY <1>0, <1>1, <1>2, <1>5, TwoNumbers, TwoNothing, TwoFields DEF TwoTypes, TwoLocals
<1>7. TwoLocals'
    BY <1>0, <1>1, <1>2, <1>5, TwoNumbers, TwoFields DEF TwoLocals, TwoRestSame, TwoSame, TwoTypes
<1>8. (twoTokens \subseteq {twoLastToken})'
    BY <1>0, <1>1
<1>9. TwoKeeps => TwoKept'
  <2>1. TwoKeeps => (TwoHeld => TwoHeld')
    BY <1>0, <1>1, <1>2, <1>5, TwoNumbers DEF TwoHeld, TwoKeeps, TwoLocals, TwoRestSame, TwoSame
  <2>2. TwoKeeps => TwoKept'
    BY <1>0, <1>1, <1>2, <1>5, <2>1, TwoNumbers DEF TwoKept, TwoHeld, TwoLocals, TwoRestSame, TwoSame
  <2> QED
    BY <2>2
<1> QED
    BY <1>2, <1>6, <1>7, <1>8, <1>9 DEF TwoInv

(* EnsureRunning finds the plugin running.                                  *)
LEMMA TwoFindsRunning == ASSUME TwoInv, NEW r \in TwoRequests, Two!AlreadyRunning(r) PROVE TwoInv'
<1>0. /\ TwoTypes /\ TwoTyped /\ TwoLocals
      /\ twoTokens \subseteq {twoLastToken}
      /\ TwoKeeps => TwoKept
    BY DEF TwoInv
<1>1. /\ twoReq[r].pc = "ensure"
      /\ twoProc.alive
      /\ Two!Goto(r, "enable")
      /\ UNCHANGED <<twoDisk, twoDb, twoManifest, twoTokens, twoProc, twoSubscribed, twoScheduled, twoLastToken, twoFaults, twoRestarts, twoGranted>>
    BY DEF Two!AlreadyRunning, Two!stores, Two!runtime, Two!counters, Two!At, Two!Works, Two!Fails
<1>2. /\ TwoTyped' /\ TwoRestSame(r)
      /\ twoReq'[r].pc = "enable" /\ TwoSame(r)
    BY <1>0, <1>1, TwoGoes DEF TwoLabels
<1>5. twoReq[r] \in TwoReqs
    BY <1>0 DEF TwoTyped
<1>6. TwoTypes'
    BY <1>0, <1>1, <1>2, <1>5, TwoNumbers, TwoNothing, TwoFields DEF TwoTypes, TwoLocals
<1>7. TwoLocals'
    BY <1>0, <1>1, <1>2, <1>5, TwoNumbers, TwoFields DEF TwoLocals, TwoRestSame, TwoSame
<1>8. (twoTokens \subseteq {twoLastToken})'
    BY <1>0, <1>1
<1>9. TwoKeeps => TwoKept'
  <2>1. TwoKeeps => (TwoHeld => TwoHeld')
    BY <1>0, <1>1, <1>2, <1>5, TwoNumbers DEF TwoHeld, TwoKeeps, TwoLocals, TwoRestSame, TwoSame
  <2>2. TwoKeeps => TwoKept'
    BY <1>0, <1>1, <1>2, <1>5, <2>1, TwoNumbers DEF TwoKept, TwoHeld, TwoLocals, TwoRestSame, TwoSame
  <2> QED
    BY <2>2
<1> QED
    BY <1>2, <1>6, <1>7, <1>8, <1>9 DEF TwoInv

(* EnsureRunning launches the process with the token.                       *)
LEMMA TwoLaunches == ASSUME TwoInv, NEW r \in TwoRequests, Two!Launch(r) PROVE TwoInv'
<1>0. /\ TwoTypes /\ TwoTyped /\ TwoLocals
      /\ twoTokens \subseteq {twoLastToken}
      /\ TwoKeeps => TwoKept
    BY DEF TwoInv
<1>1. /\ twoReq[r].pc = "ensure"
      /\ ~twoProc.alive /\ twoDisk # Two!None
      /\ twoProc' = [ver |-> twoDisk, tok |-> twoReq[r].tok, alive |-> TRUE, ready |-> FALSE]
      /\ Two!Goto(r, "wait")
      /\ UNCHANGED <<twoDisk, twoDb, twoManifest, twoTokens, twoSubscribed, twoScheduled, twoLastToken, twoFaults, twoRestarts, twoGranted>>
    BY DEF Two!Launch, Two!stores, Two!runtime, Two!counters, Two!At, Two!Works, Two!Fails, Two!Executable
<1>2. /\ TwoTyped' /\ TwoRestSame(r)
      /\ twoReq'[r].pc = "wait" /\ TwoSame(r)
    BY <1>0, <1>1, TwoGoes DEF TwoLabels
<1>5. twoReq[r] \in TwoReqs
    BY <1>0 DEF TwoTyped
<1>6. TwoTypes'
    BY <1>0, <1>1, <1>2, <1>5, TwoNumbers, TwoNothing, TwoFields DEF TwoTypes, TwoLocals, TwoProcess
<1>7. TwoLocals'
    BY <1>0, <1>1, <1>2, <1>5, TwoNumbers, TwoFields DEF TwoLocals, TwoRestSame, TwoSame
<1>8. (twoTokens \subseteq {twoLastToken})'
    BY <1>0, <1>1
<1>9. TwoKeeps => TwoKept'
  <2>1. TwoKeeps => (TwoHeld => TwoHeld')
    BY <1>0, <1>1, <1>2, <1>5, TwoNumbers DEF TwoHeld, TwoKeeps, TwoLocals, TwoRestSame, TwoSame
  <2>2. TwoKeeps => TwoKept'
    BY <1>0, <1>1, <1>2, <1>5, <2>1, TwoNumbers DEF TwoKept, TwoHeld, TwoLocals, TwoRestSame, TwoSame
  <2> QED
    BY <2>2
<1> QED
    BY <1>2, <1>6, <1>7, <1>8, <1>9 DEF TwoInv

(* There is no executable, or the exec fails.                               *)
LEMMA TwoLaunchFails == ASSUME TwoInv, NEW r \in TwoRequests, Two!LaunchFails(r) PROVE TwoInv'
<1>0. /\ TwoTypes /\ TwoTyped /\ TwoLocals
      /\ twoTokens \subseteq {twoLastToken}
      /\ TwoKeeps => TwoKept
    BY DEF TwoInv
<1>1. /\ twoReq[r].pc = "ensure"
      /\ ~twoProc.alive
      /\ twoFaults' = twoFaults \/ (twoFaults < TwoMaxFaults /\ twoFaults' = twoFaults + 1)
      /\ Two!Goto(r, "revoke")
      /\ UNCHANGED <<twoDisk, twoDb, twoManifest, twoTokens, twoProc, twoSubscribed, twoScheduled, twoLastToken, twoRestarts, twoGranted>>
    BY DEF Two!LaunchFails, Two!stores, Two!runtime, Two!counters, Two!At, Two!Works, Two!Fails, Two!Executable
<1>2. /\ TwoTyped' /\ TwoRestSame(r)
      /\ twoReq'[r].pc = "revoke" /\ TwoSame(r)
    BY <1>0, <1>1, TwoGoes DEF TwoLabels
<1>5. twoReq[r] \in TwoReqs
    BY <1>0 DEF TwoTyped
<1>6. TwoTypes'
    BY <1>0, <1>1, <1>2, <1>5, TwoNumbers, TwoNothing, TwoFields DEF TwoTypes, TwoLocals
<1>7. TwoLocals'
    BY <1>0, <1>1, <1>2, <1>5, TwoNumbers, TwoFields DEF TwoLocals, TwoRestSame, TwoSame
<1>8. (twoTokens \subseteq {twoLastToken})'
    BY <1>0, <1>1
<1>9. TwoKeeps => TwoKept'
  <2>1. TwoKeeps => (TwoHeld => TwoHeld')
    BY <1>0, <1>1, <1>2, <1>5, TwoNumbers DEF TwoHeld, TwoKeeps, TwoLocals, TwoRestSame, TwoSame
  <2>2. TwoKeeps => TwoKept'
    BY <1>0, <1>1, <1>2, <1>5, <2>1, TwoNumbers DEF TwoKept, TwoHeld, TwoLocals, TwoRestSame, TwoSame
  <2> QED
    BY <2>2
<1> QED
    BY <1>2, <1>6, <1>7, <1>8, <1>9 DEF TwoInv

(* The process becomes healthy.                                             *)
LEMMA TwoBecomes == ASSUME TwoInv, NEW r \in TwoRequests, Two!Ready(r) PROVE TwoInv'
<1>0. /\ TwoTypes /\ TwoTyped /\ TwoLocals
      /\ twoTokens \subseteq {twoLastToken}
      /\ TwoKeeps => TwoKept
    BY DEF TwoInv
<1>1. /\ twoReq[r].pc = "wait"
      /\ Two!Mine(r) /\ twoProc' = [twoProc EXCEPT !.ready = TRUE]
      /\ Two!Goto(r, "enable")
      /\ UNCHANGED <<twoDisk, twoDb, twoManifest, twoTokens, twoSubscribed, twoScheduled, twoLastToken, twoFaults, twoRestarts, twoGranted>>
    BY DEF Two!Ready, Two!stores, Two!runtime, Two!counters, Two!At, Two!Works, Two!Fails
<1>2. /\ TwoTyped' /\ TwoRestSame(r)
      /\ twoReq'[r].pc = "enable" /\ TwoSame(r)
    BY <1>0, <1>1, TwoGoes DEF TwoLabels
<1>5. twoReq[r] \in TwoReqs
    BY <1>0 DEF TwoTyped
<1>6. TwoTypes'
    BY <1>0, <1>1, <1>2, <1>5, TwoNumbers, TwoNothing, TwoFields DEF TwoTypes, TwoLocals, TwoProcess, Two!Mine
<1>7. TwoLocals'
    BY <1>0, <1>1, <1>2, <1>5, TwoNumbers, TwoFields DEF TwoLocals, TwoRestSame, TwoSame
<1>8. (twoTokens \subseteq {twoLastToken})'
    BY <1>0, <1>1
<1>9. TwoKeeps => TwoKept'
  <2>1. TwoKeeps => (TwoHeld => TwoHeld')
    BY <1>0, <1>1, <1>2, <1>5, TwoNumbers DEF TwoHeld, TwoKeeps, TwoLocals, TwoRestSame, TwoSame
  <2>2. TwoKeeps => TwoKept'
    BY <1>0, <1>1, <1>2, <1>5, <2>1, TwoNumbers DEF TwoKept, TwoHeld, TwoLocals, TwoRestSame, TwoSame
  <2> QED
    BY <2>2
<1> QED
    BY <1>2, <1>6, <1>7, <1>8, <1>9 DEF TwoInv

(* The process is killed, or has exited or was stopped.                     *)
LEMMA TwoNotReady == ASSUME TwoInv, NEW r \in TwoRequests, Two!NotReady(r) PROVE TwoInv'
<1>0. /\ TwoTypes /\ TwoTyped /\ TwoLocals
      /\ twoTokens \subseteq {twoLastToken}
      /\ TwoKeeps => TwoKept
    BY DEF TwoInv
<1>1. /\ twoReq[r].pc = "wait"
      /\ \/ Two!Mine(r) /\ twoProc' = [twoProc EXCEPT !.alive = FALSE]
         \/ (~Two!Mine(r) \/ ~twoProc.alive) /\ twoProc' = twoProc
      /\ twoFaults' = twoFaults \/ (twoFaults < TwoMaxFaults /\ twoFaults' = twoFaults + 1)
      /\ Two!Goto(r, "revoke")
      /\ UNCHANGED <<twoDisk, twoDb, twoManifest, twoTokens, twoSubscribed, twoScheduled, twoLastToken, twoRestarts, twoGranted>>
    BY DEF Two!NotReady, Two!stores, Two!runtime, Two!counters, Two!At, Two!Works, Two!Fails
<1>2. /\ TwoTyped' /\ TwoRestSame(r)
      /\ twoReq'[r].pc = "revoke" /\ TwoSame(r)
    BY <1>0, <1>1, TwoGoes DEF TwoLabels
<1>4. /\ twoProc' \in {Two!NoProc} \cup TwoProcess /\ twoProc'.ready = twoProc.ready /\ twoProc'.tok = twoProc.tok
      /\ twoProc # Two!NoProc => twoProc' # Two!NoProc
      /\ Two!Mine(r) => ~twoProc'.alive
  <2>1. CASE Two!Mine(r) /\ twoProc' = [twoProc EXCEPT !.alive = FALSE]
    <3>1. twoProc \in TwoProcess /\ Two!NoProc \notin TwoProcess
      BY <1>0, <2>1, TwoNumbers DEF TwoTypes, Two!Mine, Two!NoProc, TwoProcess
    <3> QED
      BY <2>1, <3>1 DEF TwoProcess
  <2>2. CASE (~Two!Mine(r) \/ ~twoProc.alive) /\ twoProc' = twoProc
    BY <1>0, <2>2 DEF TwoTypes
  <2> QED
    BY <1>1, <2>1, <2>2
<1>5. twoReq[r] \in TwoReqs
    BY <1>0 DEF TwoTyped
<1>6. TwoTypes'
    BY <1>0, <1>1, <1>2, <1>5, <1>4, TwoNumbers, TwoNothing, TwoFields DEF TwoTypes, TwoLocals
<1>7. TwoLocals'
    BY <1>0, <1>1, <1>2, <1>5, TwoNumbers, TwoFields DEF TwoLocals, TwoRestSame, TwoSame
<1>8. (twoTokens \subseteq {twoLastToken})'
    BY <1>0, <1>1
<1>9. TwoKeeps => TwoKept'
  <2>1. TwoKeeps => (TwoHeld => TwoHeld')
    BY <1>0, <1>1, <1>2, <1>5, <1>4, TwoNumbers DEF TwoHeld, TwoKeeps, TwoLocals, TwoRestSame, TwoSame
  <2>2. TwoKeeps => TwoKept'
    BY <1>0, <1>1, <1>2, <1>5, <2>1, <1>4, TwoNumbers DEF TwoKept, TwoHeld, TwoLocals, TwoRestSame, TwoSame
  <2> QED
    BY <2>2
<1> QED
    BY <1>2, <1>6, <1>7, <1>8, <1>9 DEF TwoInv

(* The rollback of a start takes back its token.                            *)
LEMMA TwoRevokes == ASSUME TwoInv, NEW r \in TwoRequests, Two!RevokeToken(r) PROVE TwoInv'
<1>0. /\ TwoTypes /\ TwoTyped /\ TwoLocals
      /\ twoTokens \subseteq {twoLastToken}
      /\ TwoKeeps => TwoKept
    BY DEF TwoInv
<1>1. /\ twoReq[r].pc = "revoke"
      /\ twoTokens' = twoTokens \ {twoReq[r].tok}
      /\ Two!AfterStart(r)
      /\ UNCHANGED <<twoDisk, twoDb, twoManifest, twoProc, twoSubscribed, twoScheduled, twoLastToken, twoFaults, twoRestarts, twoGranted>>
    BY DEF Two!RevokeToken, Two!stores, Two!runtime, Two!counters, Two!At, Two!Works, Two!Fails, Two!Revoked
<1>2. /\ TwoTyped' /\ TwoRestSame(r)
      /\ twoReq'[r].pc \in {"idle", "cleanup"}
    BY <1>0, <1>1, TwoAfter
<1>5. twoReq[r] \in TwoReqs
    BY <1>0 DEF TwoTyped
<1>6. TwoTypes'
    BY <1>0, <1>1, <1>2, <1>5, TwoNumbers, TwoNothing, TwoFields DEF TwoTypes, TwoLocals
<1>7. TwoLocals'
    BY <1>0, <1>1, <1>2, <1>5, TwoNumbers, TwoFields DEF TwoLocals, TwoRestSame, TwoSame
<1>8. (twoTokens \subseteq {twoLastToken})'
    BY <1>0, <1>1
<1>9. TwoKeeps => TwoKept'
  <2>1. TwoKeeps => (TwoHeld => TwoHeld')
    BY <1>0, <1>1, <1>2, <1>5, TwoNumbers DEF TwoHeld, TwoKeeps, TwoLocals, TwoRestSame, TwoSame
  <2>2. TwoKeeps => TwoKept'
    BY <1>0, <1>1, <1>2, <1>5, <2>1, TwoNumbers DEF TwoKept, TwoHeld, TwoLocals, TwoRestSame, TwoSame
  <2> QED
    BY <2>2
<1> QED
    BY <1>2, <1>6, <1>7, <1>8, <1>9 DEF TwoInv

(* SetPluginEnabled.                                                        *)
LEMMA TwoSetsEnabled == ASSUME TwoInv, NEW r \in TwoRequests, Two!Enable(r) PROVE TwoInv'
<1>0. /\ TwoTypes /\ TwoTyped /\ TwoLocals
      /\ twoTokens \subseteq {twoLastToken}
      /\ TwoKeeps => TwoKept
    BY DEF TwoInv
<1>1. /\ twoReq[r].pc = "enable"
      /\ twoDb' = IF twoDb = Two!NoRow THEN Two!NoRow ELSE Two!Row(twoDb.ver, TRUE, twoReq[r].approved)
      /\ twoGranted' \in {twoGranted, twoReq[r].approved}
      /\ Two!Goto(r, "subscribe")
      /\ UNCHANGED <<twoDisk, twoManifest, twoTokens, twoProc, twoSubscribed, twoScheduled, twoLastToken, twoFaults, twoRestarts>>
    BY DEF Two!Enable, Two!stores, Two!runtime, Two!counters, Two!At, Two!Works, Two!Fails
<1>2. /\ TwoTyped' /\ TwoRestSame(r)
      /\ twoReq'[r].pc = "subscribe" /\ TwoSame(r)
    BY <1>0, <1>1, TwoGoes DEF TwoLabels
<1>5. twoReq[r] \in TwoReqs
    BY <1>0 DEF TwoTyped
<1>6. TwoTypes'
    BY <1>0, <1>1, <1>2, <1>5, TwoNumbers, TwoNothing, TwoFields DEF TwoTypes, TwoLocals, Two!Row, TwoRow
<1>7. TwoLocals'
    BY <1>0, <1>1, <1>2, <1>5, TwoNumbers, TwoFields DEF TwoLocals, TwoRestSame, TwoSame
<1>8. (twoTokens \subseteq {twoLastToken})'
    BY <1>0, <1>1
<1>9. TwoKeeps => TwoKept'
  <2>1. TwoKeeps => (TwoHeld => TwoHeld')
    BY <1>0, <1>1, <1>2, <1>5, TwoNumbers DEF TwoHeld, TwoKeeps, TwoLocals, TwoRestSame, TwoSame
  <2>2. TwoKeeps => TwoKept'
    BY <1>0, <1>1, <1>2, <1>5, <2>1, TwoNumbers DEF TwoKept, TwoHeld, TwoLocals, TwoRestSame, TwoSame
  <2> QED
    BY <2>2
<1> QED
    BY <1>2, <1>6, <1>7, <1>8, <1>9 DEF TwoInv

(* SetPluginEnabled fails; the process and its token stay.                  *)
LEMMA TwoSetEnabledFails == ASSUME TwoInv, NEW r \in TwoRequests, Two!EnableFails(r) PROVE TwoInv'
<1>0. /\ TwoTypes /\ TwoTyped /\ TwoLocals
      /\ twoTokens \subseteq {twoLastToken}
      /\ TwoKeeps => TwoKept
    BY DEF TwoInv
<1>1. /\ twoReq[r].pc = "enable"
      /\ twoFaults' = twoFaults \/ (twoFaults < TwoMaxFaults /\ twoFaults' = twoFaults + 1)
      /\ "enable" \in TwoFaults
      /\ Two!AfterStart(r)
      /\ UNCHANGED <<twoDisk, twoDb, twoManifest, twoTokens, twoProc, twoSubscribed, twoScheduled, twoLastToken, twoRestarts, twoGranted>>
    BY DEF Two!EnableFails, Two!stores, Two!runtime, Two!counters, Two!At, Two!Works, Two!Fails
<1>2. /\ TwoTyped' /\ TwoRestSame(r)
      /\ twoReq'[r].pc \in {"idle", "cleanup"}
    BY <1>0, <1>1, TwoAfter
<1>5. twoReq[r] \in TwoReqs
    BY <1>0 DEF TwoTyped
<1>6. TwoTypes'
    BY <1>0, <1>1, <1>2, <1>5, TwoNumbers, TwoNothing, TwoFields DEF TwoTypes, TwoLocals
<1>7. TwoLocals'
    BY <1>0, <1>1, <1>2, <1>5, TwoNumbers, TwoFields DEF TwoLocals, TwoRestSame, TwoSame
<1>8. (twoTokens \subseteq {twoLastToken})'
    BY <1>0, <1>1
<1>9. TwoKeeps => TwoKept'
  <2>1. TwoKeeps => (TwoHeld => TwoHeld')
    BY <1>0, <1>1, <1>2, <1>5, TwoNumbers DEF TwoHeld, TwoKeeps, TwoLocals, TwoRestSame, TwoSame
  <2>2. TwoKeeps => TwoKept'
    BY <1>0, <1>1, <1>2, <1>5, <2>1, TwoNumbers DEF TwoKept, TwoHeld, TwoLocals, TwoRestSame, TwoSame
  <2> QED
    BY <2>2
<1> QED
    BY <1>2, <1>6, <1>7, <1>8, <1>9 DEF TwoInv

(* The events of the plugin are delivered.                                  *)
LEMMA TwoSubscribes == ASSUME TwoInv, NEW r \in TwoRequests, Two!StartEventDelivery(r) PROVE TwoInv'
<1>0. /\ TwoTypes /\ TwoTyped /\ TwoLocals
      /\ twoTokens \subseteq {twoLastToken}
      /\ TwoKeeps => TwoKept
    BY DEF TwoInv
<1>1. /\ twoReq[r].pc = "subscribe"
      /\ twoSubscribed' = TRUE
      /\ Two!Goto(r, "schedule")
      /\ UNCHANGED <<twoDisk, twoDb, twoManifest, twoTokens, twoProc, twoScheduled, twoLastToken, twoFaults, twoRestarts, twoGranted>>
    BY DEF Two!StartEventDelivery, Two!stores, Two!runtime, Two!counters, Two!At, Two!Works, Two!Fails
<1>2. /\ TwoTyped' /\ TwoRestSame(r)
      /\ twoReq'[r].pc = "schedule" /\ TwoSame(r)
    BY <1>0, <1>1, TwoGoes DEF TwoLabels
<1>5. twoReq[r] \in TwoReqs
    BY <1>0 DEF TwoTyped
<1>6. TwoTypes'
    BY <1>0, <1>1, <1>2, <1>5, TwoNumbers, TwoNothing, TwoFields DEF TwoTypes, TwoLocals
<1>7. TwoLocals'
    BY <1>0, <1>1, <1>2, <1>5, TwoNumbers, TwoFields DEF TwoLocals, TwoRestSame, TwoSame
<1>8. (twoTokens \subseteq {twoLastToken})'
    BY <1>0, <1>1
<1>9. TwoKeeps => TwoKept'
  <2>1. TwoKeeps => (TwoHeld => TwoHeld')
    BY <1>0, <1>1, <1>2, <1>5, TwoNumbers DEF TwoHeld, TwoKeeps, TwoLocals, TwoRestSame, TwoSame
  <2>2. TwoKeeps => TwoKept'
    BY <1>0, <1>1, <1>2, <1>5, <2>1, TwoNumbers DEF TwoKept, TwoHeld, TwoLocals, TwoRestSame, TwoSame
  <2> QED
    BY <2>2
<1> QED
    BY <1>2, <1>6, <1>7, <1>8, <1>9 DEF TwoInv

(* The services of the plugin are scheduled.                                *)
LEMMA TwoSchedules == ASSUME TwoInv, NEW r \in TwoRequests, Two!Schedule(r) PROVE TwoInv'
<1>0. /\ TwoTypes /\ TwoTyped /\ TwoLocals
      /\ twoTokens \subseteq {twoLastToken}
      /\ TwoKeeps => TwoKept
    BY DEF TwoInv
<1>1. /\ twoReq[r].pc = "schedule"
      /\ twoScheduled' = TRUE
      /\ Two!AfterStart(r)
      /\ UNCHANGED <<twoDisk, twoDb, twoManifest, twoTokens, twoProc, twoSubscribed, twoLastToken, twoFaults, twoRestarts, twoGranted>>
    BY DEF Two!Schedule, Two!stores, Two!runtime, Two!counters, Two!At, Two!Works, Two!Fails
<1>2. /\ TwoTyped' /\ TwoRestSame(r)
      /\ twoReq'[r].pc \in {"idle", "cleanup"}
    BY <1>0, <1>1, TwoAfter
<1>5. twoReq[r] \in TwoReqs
    BY <1>0 DEF TwoTyped
<1>6. TwoTypes'
    BY <1>0, <1>1, <1>2, <1>5, TwoNumbers, TwoNothing, TwoFields DEF TwoTypes, TwoLocals
<1>7. TwoLocals'
    BY <1>0, <1>1, <1>2, <1>5, TwoNumbers, TwoFields DEF TwoLocals, TwoRestSame, TwoSame
<1>8. (twoTokens \subseteq {twoLastToken})'
    BY <1>0, <1>1
<1>9. TwoKeeps => TwoKept'
  <2>1. TwoKeeps => (TwoHeld => TwoHeld')
    BY <1>0, <1>1, <1>2, <1>5, TwoNumbers DEF TwoHeld, TwoKeeps, TwoLocals, TwoRestSame, TwoSame
  <2>2. TwoKeeps => TwoKept'
    BY <1>0, <1>1, <1>2, <1>5, <2>1, TwoNumbers DEF TwoKept, TwoHeld, TwoLocals, TwoRestSame, TwoSame
  <2> QED
    BY <2>2
<1> QED
    BY <1>2, <1>6, <1>7, <1>8, <1>9 DEF TwoInv

(* The process is stopped.                                                  *)
LEMMA TwoStops == ASSUME TwoInv, NEW r \in TwoRequests, Two!StopPlugin(r) PROVE TwoInv'
<1>0. /\ TwoTypes /\ TwoTyped /\ TwoLocals
      /\ twoTokens \subseteq {twoLastToken}
      /\ TwoKeeps => TwoKept
    BY DEF TwoInv
<1>1. /\ twoReq[r].pc = "stop"
      /\ twoProc' = Two!NoProc
      /\ Two!Goto(r, "unsubscribe")
      /\ UNCHANGED <<twoDisk, twoDb, twoManifest, twoTokens, twoSubscribed, twoScheduled, twoLastToken, twoFaults, twoRestarts, twoGranted>>
    BY DEF Two!StopPlugin, Two!stores, Two!runtime, Two!counters, Two!At, Two!Works, Two!Fails
<1>2. /\ TwoTyped' /\ TwoRestSame(r)
      /\ twoReq'[r].pc = "unsubscribe" /\ TwoSame(r)
    BY <1>0, <1>1, TwoGoes DEF TwoLabels
<1>5. twoReq[r] \in TwoReqs
    BY <1>0 DEF TwoTyped
<1>6. TwoTypes'
    BY <1>0, <1>1, <1>2, <1>5, TwoNumbers, TwoNothing, TwoFields DEF TwoTypes, TwoLocals
<1>7. TwoLocals'
    BY <1>0, <1>1, <1>2, <1>5, TwoNumbers, TwoFields DEF TwoLocals, TwoRestSame, TwoSame
<1>8. (twoTokens \subseteq {twoLastToken})'
    BY <1>0, <1>1
<1>9. TwoKeeps => TwoKept'
  <2>1. TwoKeeps => (TwoHeld => TwoHeld')
    BY <1>0, <1>1, <1>2, <1>5, TwoNumbers DEF TwoHeld, TwoKeeps, TwoLocals, TwoRestSame, TwoSame
  <2>2. TwoKeeps => TwoKept'
    BY <1>0, <1>1, <1>2, <1>5, <2>1, TwoNumbers DEF TwoKept, TwoHeld, TwoLocals, TwoRestSame, TwoSame
  <2> QED
    BY <2>2
<1> QED
    BY <1>2, <1>6, <1>7, <1>8, <1>9 DEF TwoInv

(* The delivery of events ends.                                             *)
LEMMA TwoUnsubscribes == ASSUME TwoInv, NEW r \in TwoRequests, Two!StopEventDelivery(r) PROVE TwoInv'
<1>0. /\ TwoTypes /\ TwoTyped /\ TwoLocals
      /\ twoTokens \subseteq {twoLastToken}
      /\ TwoKeeps => TwoKept
    BY DEF TwoInv
<1>1. /\ twoReq[r].pc = "unsubscribe"
      /\ twoSubscribed' = FALSE
      /\ Two!Goto(r, "unschedule")
      /\ UNCHANGED <<twoDisk, twoDb, twoManifest, twoTokens, twoProc, twoScheduled, twoLastToken, twoFaults, twoRestarts, twoGranted>>
    BY DEF Two!StopEventDelivery, Two!stores, Two!runtime, Two!counters, Two!At, Two!Works, Two!Fails
<1>2. /\ TwoTyped' /\ TwoRestSame(r)
      /\ twoReq'[r].pc = "unschedule" /\ TwoSame(r)
    BY <1>0, <1>1, TwoGoes DEF TwoLabels
<1>5. twoReq[r] \in TwoReqs
    BY <1>0 DEF TwoTyped
<1>6. TwoTypes'
    BY <1>0, <1>1, <1>2, <1>5, TwoNumbers, TwoNothing, TwoFields DEF TwoTypes, TwoLocals
<1>7. TwoLocals'
    BY <1>0, <1>1, <1>2, <1>5, TwoNumbers, TwoFields DEF TwoLocals, TwoRestSame, TwoSame
<1>8. (twoTokens \subseteq {twoLastToken})'
    BY <1>0, <1>1
<1>9. TwoKeeps => TwoKept'
  <2>1. TwoKeeps => (TwoHeld => TwoHeld')
    BY <1>0, <1>1, <1>2, <1>5, TwoNumbers DEF TwoHeld, TwoKeeps, TwoLocals, TwoRestSame, TwoSame
  <2>2. TwoKeeps => TwoKept'
    BY <1>0, <1>1, <1>2, <1>5, <2>1, TwoNumbers DEF TwoKept, TwoHeld, TwoLocals, TwoRestSame, TwoSame
  <2> QED
    BY <2>2
<1> QED
    BY <1>2, <1>6, <1>7, <1>8, <1>9 DEF TwoInv

(* The services are taken out of the cron.                                  *)
LEMMA TwoUnschedules == ASSUME TwoInv, NEW r \in TwoRequests, Two!Unschedule(r) PROVE TwoInv'
<1>0. /\ TwoTypes /\ TwoTyped /\ TwoLocals
      /\ twoTokens \subseteq {twoLastToken}
      /\ TwoKeeps => TwoKept
    BY DEF TwoInv
<1>1. /\ twoReq[r].pc = "unschedule"
      /\ twoScheduled' = FALSE
      /\ Two!Done(r) \/ Two!Goto(r, "clear")
      /\ UNCHANGED <<twoDisk, twoDb, twoManifest, twoTokens, twoProc, twoSubscribed, twoLastToken, twoFaults, twoRestarts, twoGranted>>
    BY DEF Two!Unschedule, Two!stores, Two!runtime, Two!counters, Two!At, Two!Works, Two!Fails
<1>2. /\ TwoTyped' /\ TwoRestSame(r)
      /\ twoReq'[r].pc \in {"idle", "clear"}
    BY <1>0, <1>1, TwoGoes, TwoEnds DEF TwoLabels
<1>5. twoReq[r] \in TwoReqs
    BY <1>0 DEF TwoTyped
<1>6. TwoTypes'
    BY <1>0, <1>1, <1>2, <1>5, TwoNumbers, TwoNothing, TwoFields DEF TwoTypes, TwoLocals
<1>7. TwoLocals'
    BY <1>0, <1>1, <1>2, <1>5, TwoNumbers, TwoFields DEF TwoLocals, TwoRestSame, TwoSame
<1>8. (twoTokens \subseteq {twoLastToken})'
    BY <1>0, <1>1
<1>9. TwoKeeps => TwoKept'
  <2>1. TwoKeeps => (TwoHeld => TwoHeld')
    BY <1>0, <1>1, <1>2, <1>5, TwoNumbers DEF TwoHeld, TwoKeeps, TwoLocals, TwoRestSame, TwoSame
  <2>2. TwoKeeps => TwoKept'
    BY <1>0, <1>1, <1>2, <1>5, <2>1, TwoNumbers DEF TwoKept, TwoHeld, TwoLocals, TwoRestSame, TwoSame
  <2> QED
    BY <2>2
<1> QED
    BY <1>2, <1>6, <1>7, <1>8, <1>9 DEF TwoInv

(* Disable revokes the tokens.                                              *)
LEMMA TwoClears == ASSUME TwoInv, NEW r \in TwoRequests, Two!ClearTokens(r) PROVE TwoInv'
<1>0. /\ TwoTypes /\ TwoTyped /\ TwoLocals
      /\ twoTokens \subseteq {twoLastToken}
      /\ TwoKeeps => TwoKept
    BY DEF TwoInv
<1>1. /\ twoReq[r].pc = "clear"
      /\ twoTokens' = {}
      /\ Two!Goto(r, "disable")
      /\ UNCHANGED <<twoDisk, twoDb, twoManifest, twoProc, twoSubscribed, twoScheduled, twoLastToken, twoFaults, twoRestarts, twoGranted>>
    BY DEF Two!ClearTokens, Two!stores, Two!runtime, Two!counters, Two!At, Two!Works, Two!Fails, Two!Cleared
<1>2. /\ TwoTyped' /\ TwoRestSame(r)
      /\ twoReq'[r].pc = "disable" /\ TwoSame(r)
    BY <1>0, <1>1, TwoGoes DEF TwoLabels
<1>5. twoReq[r] \in TwoReqs
    BY <1>0 DEF TwoTyped
<1>6. TwoTypes'
    BY <1>0, <1>1, <1>2, <1>5, TwoNumbers, TwoNothing, TwoFields DEF TwoTypes, TwoLocals
<1>7. TwoLocals'
    BY <1>0, <1>1, <1>2, <1>5, TwoNumbers, TwoFields DEF TwoLocals, TwoRestSame, TwoSame
<1>8. (twoTokens \subseteq {twoLastToken})'
    BY <1>0, <1>1
<1>9. TwoKeeps => TwoKept'
  <2>1. TwoKeeps => (TwoHeld => TwoHeld')
    BY <1>0, <1>1, <1>2, <1>5, TwoNumbers DEF TwoHeld, TwoKeeps, TwoLocals, TwoRestSame, TwoSame
  <2>2. TwoKeeps => TwoKept'
    BY <1>0, <1>1, <1>2, <1>5, <2>1, TwoNumbers DEF TwoKept, TwoHeld, TwoLocals, TwoRestSame, TwoSame
  <2> QED
    BY <2>2
<1> QED
    BY <1>2, <1>6, <1>7, <1>8, <1>9 DEF TwoInv

(* Disable writes the row.                                                  *)
LEMMA TwoDisables == ASSUME TwoInv, NEW r \in TwoRequests, Two!SetDisabled(r) PROVE TwoInv'
<1>0. /\ TwoTypes /\ TwoTyped /\ TwoLocals
      /\ twoTokens \subseteq {twoLastToken}
      /\ TwoKeeps => TwoKept
    BY DEF TwoInv
<1>1. /\ twoReq[r].pc = "disable"
      /\ twoDb' = IF twoDb = Two!NoRow THEN Two!NoRow ELSE Two!Row(twoDb.ver, FALSE, {})
      /\ Two!Done(r) \/ Two!Goto(r, "unload")
      /\ UNCHANGED <<twoDisk, twoManifest, twoTokens, twoProc, twoSubscribed, twoScheduled, twoLastToken, twoFaults, twoRestarts, twoGranted>>
    BY DEF Two!SetDisabled, Two!stores, Two!runtime, Two!counters, Two!At, Two!Works, Two!Fails
<1>2. /\ TwoTyped' /\ TwoRestSame(r)
      /\ twoReq'[r].pc \in {"idle", "unload"}
    BY <1>0, <1>1, TwoGoes, TwoEnds DEF TwoLabels
<1>5. twoReq[r] \in TwoReqs
    BY <1>0 DEF TwoTyped
<1>6. TwoTypes'
    BY <1>0, <1>1, <1>2, <1>5, TwoNumbers, TwoNothing, TwoFields DEF TwoTypes, TwoLocals, Two!Row, TwoRow
<1>7. TwoLocals'
    BY <1>0, <1>1, <1>2, <1>5, TwoNumbers, TwoFields DEF TwoLocals, TwoRestSame, TwoSame
<1>8. (twoTokens \subseteq {twoLastToken})'
    BY <1>0, <1>1
<1>9. TwoKeeps => TwoKept'
  <2>1. TwoKeeps => (TwoHeld => TwoHeld')
    BY <1>0, <1>1, <1>2, <1>5, TwoNumbers DEF TwoHeld, TwoKeeps, TwoLocals, TwoRestSame, TwoSame
  <2>2. TwoKeeps => TwoKept'
    BY <1>0, <1>1, <1>2, <1>5, <2>1, TwoNumbers DEF TwoKept, TwoHeld, TwoLocals, TwoRestSame, TwoSame
  <2> QED
    BY <2>2
<1> QED
    BY <1>2, <1>6, <1>7, <1>8, <1>9 DEF TwoInv

(* Remove takes the manifest and the tokens out of the maps.                *)
LEMMA TwoUnloads == ASSUME TwoInv, NEW r \in TwoRequests, Two!Unload(r) PROVE TwoInv'
<1>0. /\ TwoTypes /\ TwoTyped /\ TwoLocals
      /\ twoTokens \subseteq {twoLastToken}
      /\ TwoKeeps => TwoKept
    BY DEF TwoInv
<1>1. /\ twoReq[r].pc = "unload"
      /\ twoManifest' = Two!None /\ twoTokens' = {}
      /\ Two!Goto(r, "delete")
      /\ UNCHANGED <<twoDisk, twoDb, twoProc, twoSubscribed, twoScheduled, twoLastToken, twoFaults, twoRestarts, twoGranted>>
    BY DEF Two!Unload, Two!stores, Two!runtime, Two!counters, Two!At, Two!Works, Two!Fails
<1>2. /\ TwoTyped' /\ TwoRestSame(r)
      /\ twoReq'[r].pc = "delete" /\ TwoSame(r)
    BY <1>0, <1>1, TwoGoes DEF TwoLabels
<1>5. twoReq[r] \in TwoReqs
    BY <1>0 DEF TwoTyped
<1>6. TwoTypes'
    BY <1>0, <1>1, <1>2, <1>5, TwoNumbers, TwoNothing, TwoFields DEF TwoTypes, TwoLocals
<1>7. TwoLocals'
    BY <1>0, <1>1, <1>2, <1>5, TwoNumbers, TwoFields DEF TwoLocals, TwoRestSame, TwoSame
<1>8. (twoTokens \subseteq {twoLastToken})'
    BY <1>0, <1>1
<1>9. TwoKeeps => TwoKept'
  <2>1. TwoKeeps => (TwoHeld => TwoHeld')
    BY <1>0, <1>1, <1>2, <1>5, TwoNumbers DEF TwoHeld, TwoKeeps, TwoLocals, TwoRestSame, TwoSame
  <2>2. TwoKeeps => TwoKept'
    BY <1>0, <1>1, <1>2, <1>5, <2>1, TwoNumbers DEF TwoKept, TwoHeld, TwoLocals, TwoRestSame, TwoSame
  <2> QED
    BY <2>2
<1> QED
    BY <1>2, <1>6, <1>7, <1>8, <1>9 DEF TwoInv

(* Remove deletes the row; the directory stays.                             *)
LEMMA TwoDeletes == ASSUME TwoInv, NEW r \in TwoRequests, Two!Delete(r) PROVE TwoInv'
<1>0. /\ TwoTypes /\ TwoTyped /\ TwoLocals
      /\ twoTokens \subseteq {twoLastToken}
      /\ TwoKeeps => TwoKept
    BY DEF TwoInv
<1>1. /\ twoReq[r].pc = "delete"
      /\ twoDb' = Two!NoRow
      /\ Two!Done(r)
      /\ UNCHANGED <<twoDisk, twoManifest, twoTokens, twoProc, twoSubscribed, twoScheduled, twoLastToken, twoFaults, twoRestarts, twoGranted>>
    BY DEF Two!Delete, Two!stores, Two!runtime, Two!counters, Two!At, Two!Works, Two!Fails
<1>2. /\ TwoTyped' /\ TwoRestSame(r)
      /\ twoReq'[r].pc = "idle"
    BY <1>0, <1>1, TwoEnds
<1>5. twoReq[r] \in TwoReqs
    BY <1>0 DEF TwoTyped
<1>6. TwoTypes'
    BY <1>0, <1>1, <1>2, <1>5, TwoNumbers, TwoNothing, TwoFields DEF TwoTypes, TwoLocals
<1>7. TwoLocals'
    BY <1>0, <1>1, <1>2, <1>5, TwoNumbers, TwoFields DEF TwoLocals, TwoRestSame, TwoSame
<1>8. (twoTokens \subseteq {twoLastToken})'
    BY <1>0, <1>1
<1>9. TwoKeeps => TwoKept'
  <2>1. TwoKeeps => (TwoHeld => TwoHeld')
    BY <1>0, <1>1, <1>2, <1>5, TwoNumbers DEF TwoHeld, TwoKeeps, TwoLocals, TwoRestSame, TwoSame
  <2>2. TwoKeeps => TwoKept'
    BY <1>0, <1>1, <1>2, <1>5, <2>1, TwoNumbers DEF TwoKept, TwoHeld, TwoLocals, TwoRestSame, TwoSame
  <2> QED
    BY <2>2
<1> QED
    BY <1>2, <1>6, <1>7, <1>8, <1>9 DEF TwoInv

(* The directory of a new plugin is moved in, unless there is one.          *)
LEMMA TwoMovesIn == ASSUME TwoInv, NEW r \in TwoRequests, Two!Move(r) PROVE TwoInv'
<1>0. /\ TwoTypes /\ TwoTyped /\ TwoLocals
      /\ twoTokens \subseteq {twoLastToken}
      /\ TwoKeeps => TwoKept
    BY DEF TwoInv
<1>1. /\ twoReq[r].pc = "move"
      /\ twoFaults' = twoFaults \/ (twoFaults < TwoMaxFaults /\ twoFaults' = twoFaults + 1)
      /\ \/ twoDisk = Two!None /\ twoDisk' = twoReq[r].new /\ Two!Goto(r, "insert")
         \/ twoDisk' = twoDisk /\ Two!Done(r)
      /\ UNCHANGED <<twoDb, twoManifest, twoTokens, twoProc, twoSubscribed, twoScheduled, twoLastToken, twoRestarts, twoGranted>>
    BY DEF Two!Move, Two!stores, Two!runtime, Two!counters, Two!At, Two!Works, Two!Fails
<1>2. /\ TwoTyped' /\ TwoRestSame(r)
      /\ \/ twoReq'[r].pc = "insert" /\ TwoSame(r) /\ twoDisk = Two!None /\ twoDisk' = twoReq[r].new
         \/ twoReq'[r].pc = "idle" /\ twoDisk' = twoDisk
  <2>1. CASE twoDisk = Two!None /\ twoDisk' = twoReq[r].new /\ Two!Goto(r, "insert")
    <3>1. TwoTyped' /\ TwoRestSame(r) /\ twoReq'[r].pc = "insert" /\ TwoSame(r)
      BY <1>0, <2>1, TwoGoes DEF TwoLabels
    <3> QED
      BY <2>1, <3>1
  <2>2. CASE twoDisk' = twoDisk /\ Two!Done(r)
    <3>1. TwoTyped' /\ TwoRestSame(r) /\ twoReq'[r].pc = "idle"
      BY <1>0, <2>2, TwoEnds
    <3> QED
      BY <2>2, <3>1
  <2> QED
    BY <1>1, <2>1, <2>2
<1>5. twoReq[r] \in TwoReqs
    BY <1>0 DEF TwoTyped
<1>6. TwoTypes'
    BY <1>0, <1>1, <1>2, <1>5, TwoNumbers, TwoNothing, TwoFields DEF TwoTypes, TwoLocals
<1>7. TwoLocals'
    BY <1>0, <1>1, <1>2, <1>5, TwoNumbers, TwoFields DEF TwoLocals, TwoRestSame, TwoSame
<1>8. (twoTokens \subseteq {twoLastToken})'
    BY <1>0, <1>1
<1>9. TwoKeeps => TwoKept'
  <2>1. TwoKeeps => (TwoHeld => TwoHeld')
    BY <1>0, <1>1, <1>2, <1>5, TwoNumbers DEF TwoHeld, TwoKeeps, TwoLocals, TwoRestSame, TwoSame
  <2>2. TwoKeeps => TwoKept'
    BY <1>0, <1>1, <1>2, <1>5, <2>1, TwoNumbers DEF TwoKept, TwoHeld, TwoLocals, TwoRestSame, TwoSame
  <2> QED
    BY <2>2
<1> QED
    BY <1>2, <1>6, <1>7, <1>8, <1>9 DEF TwoInv

(* The row of a new plugin is inserted, or its directory removed.           *)
LEMMA TwoInserts == ASSUME TwoInv, NEW r \in TwoRequests, Two!Insert(r) PROVE TwoInv'
<1>0. /\ TwoTypes /\ TwoTyped /\ TwoLocals
      /\ twoTokens \subseteq {twoLastToken}
      /\ TwoKeeps => TwoKept
    BY DEF TwoInv
<1>1. /\ twoReq[r].pc = "insert"
      /\ twoFaults' = twoFaults \/ (twoFaults < TwoMaxFaults /\ twoFaults' = twoFaults + 1)
      /\ \/ twoDb' = Two!Upserted(twoReq[r].new, FALSE, TwoDeclared[twoReq[r].new]) /\ Two!Goto(r, "load") /\ twoDisk' = twoDisk
         \/ "upsert" \in TwoFaults /\ twoDisk' = Two!None /\ Two!Done(r) /\ twoDb' = twoDb
      /\ UNCHANGED <<twoManifest, twoTokens, twoProc, twoSubscribed, twoScheduled, twoLastToken, twoRestarts, twoGranted>>
    BY DEF Two!Insert, Two!stores, Two!runtime, Two!counters, Two!At, Two!Works, Two!Fails
<1>2. /\ TwoTyped' /\ TwoRestSame(r)
      /\ \/ /\ twoReq'[r].pc = "load" /\ TwoSame(r) /\ twoDisk' = twoDisk
            /\ twoDb' = Two!Upserted(twoReq[r].new, FALSE, TwoDeclared[twoReq[r].new])
         \/ twoReq'[r].pc = "idle" /\ twoDisk' = Two!None /\ twoDb' = twoDb /\ "upsert" \in TwoFaults
  <2>1. CASE /\ twoDb' = Two!Upserted(twoReq[r].new, FALSE, TwoDeclared[twoReq[r].new])
             /\ Two!Goto(r, "load") /\ twoDisk' = twoDisk
    <3>1. TwoTyped' /\ TwoRestSame(r) /\ twoReq'[r].pc = "load" /\ TwoSame(r)
      BY <1>0, <2>1, TwoGoes DEF TwoLabels
    <3> QED
      BY <2>1, <3>1
  <2>2. CASE "upsert" \in TwoFaults /\ twoDisk' = Two!None /\ Two!Done(r) /\ twoDb' = twoDb
    <3>1. TwoTyped' /\ TwoRestSame(r) /\ twoReq'[r].pc = "idle"
      BY <1>0, <2>2, TwoEnds
    <3> QED
      BY <2>2, <3>1
  <2> QED
    BY <1>1, <2>1, <2>2
<1>3. twoReq[r].new \in TwoVersions /\ FALSE \in BOOLEAN /\ TwoDeclared[twoReq[r].new] \in SUBSET TwoPermissions
    BY <1>0, <1>1, TwoNumbers, TwoFields, TwoNothing DEF TwoLocals, TwoTyped, TwoTypes
<1>4. /\ Two!Upserted(twoReq[r].new, FALSE, TwoDeclared[twoReq[r].new]) \in TwoRow /\ Two!Upserted(twoReq[r].new, FALSE, TwoDeclared[twoReq[r].new]) # Two!NoRow /\ Two!Upserted(twoReq[r].new, FALSE, TwoDeclared[twoReq[r].new]).ver = twoReq[r].new
      /\ Two!Upserted(twoReq[r].new, FALSE, TwoDeclared[twoReq[r].new]).enabled = IF twoDb = Two!NoRow THEN FALSE ELSE twoDb.enabled
    BY <1>0, <1>3, TwoUpserts
<1>5. twoReq[r] \in TwoReqs
    BY <1>0 DEF TwoTyped
<1>t. twoDb' \in {Two!NoRow} \cup TwoRow /\ twoDisk' \in TwoVersions \cup {Two!None}
    BY <1>0, <1>1, <1>2, <1>4 DEF TwoTypes
<1>6. TwoTypes'
    BY <1>0, <1>1, <1>2, <1>t, TwoNumbers DEF TwoTypes
<1>7. TwoLocals'
    BY <1>0, <1>1, <1>2, <1>5, TwoNumbers, TwoFields DEF TwoLocals, TwoRestSame, TwoSame
<1>8. (twoTokens \subseteq {twoLastToken})'
    BY <1>0, <1>1
<1>9. TwoKeeps => TwoKept'
  <2>1. TwoKeeps => (TwoHeld => TwoHeld')
    BY <1>0, <1>1, <1>2, <1>5, <1>4, TwoNumbers DEF TwoHeld, TwoKeeps, TwoLocals, TwoRestSame, TwoSame
  <2>2. TwoKeeps => TwoKept'
    BY <1>0, <1>1, <1>2, <1>5, <2>1, <1>4, TwoNumbers DEF TwoKept, TwoHeld, TwoLocals, TwoRestSame, TwoSame
  <2> QED
    BY <2>2
<1> QED
    BY <1>2, <1>6, <1>7, <1>8, <1>9 DEF TwoInv

(* The new manifest is loaded; an upgrade starts a plugin that was enabled. *)
LEMMA TwoLoads == ASSUME TwoInv, NEW r \in TwoRequests, Two!LoadNew(r) PROVE TwoInv'
<1>0. /\ TwoTypes /\ TwoTyped /\ TwoLocals
      /\ twoTokens \subseteq {twoLastToken}
      /\ TwoKeeps => TwoKept
    BY DEF TwoInv
<1>1. /\ twoReq[r].pc = "load"
      /\ twoManifest' = twoReq[r].new
      /\ UNCHANGED <<twoDisk, twoDb, twoTokens, twoProc, twoSubscribed, twoScheduled, twoLastToken, twoFaults, twoRestarts, twoGranted>>
    BY DEF Two!LoadNew, Two!stores, Two!runtime, Two!counters, Two!At, Two!Works, Two!Fails
<1>2. /\ TwoTyped' /\ TwoRestSame(r)
      /\ twoReq'[r].pc \in {"idle", "lookup", "cleanup"}
  <2>0. twoReq[r] \in TwoReqs
    BY <1>0 DEF TwoTyped
  <2>1. CASE Two!Done(r)
    <3>1. TwoTyped' /\ TwoRestSame(r) /\ twoReq'[r].pc = "idle"
      BY <1>0, <2>1, TwoEnds
    <3> QED
      BY <2>1, <3>1
  <2>2. CASE twoReq[r].old # Two!NoRow
    <3> DEFINE z == [twoReq[r] EXCEPT !.pc = IF twoReq[r].old.enabled THEN "lookup" ELSE "cleanup",
                                   !.approved = twoReq[r].old.approved]
    <3>3. {"lookup", "cleanup"} \subseteq TwoLabels /\ twoReq[r].old.approved \in SUBSET TwoPermissions
      BY <1>0, <1>1, <2>0, <2>2, TwoFields DEF TwoTypes, TwoLabels, TwoOps
    <3>4. z \in TwoReqs
      BY <2>0, <3>3 DEF TwoReqs
    <3>5. twoReq' = [twoReq EXCEPT ![r] = z]
      BY <1>0, <1>1, <2>0, <2>2 DEF TwoTyped, Two!LoadNew
    <3>6. z.pc \in {"lookup", "cleanup"}
      BY <2>0 DEF TwoReqs
    <3> HIDE DEF z
    <3>7. TwoTyped' /\ TwoRestSame(r) /\ twoReq'[r] = z
      BY <1>0, <3>4, <3>5, TwoPuts
    <3> QED
      BY <2>2, <3>6, <3>7
  <2> QED
    BY <1>1, <2>1, <2>2 DEF Two!LoadNew
<1>5. twoReq[r] \in TwoReqs
    BY <1>0 DEF TwoTyped
<1>6. TwoTypes'
    BY <1>0, <1>1, <1>2, <1>5, TwoNumbers, TwoNothing, TwoFields DEF TwoTypes, TwoLocals
<1>7. TwoLocals'
    BY <1>0, <1>1, <1>2, <1>5, TwoNumbers, TwoFields DEF TwoLocals, TwoRestSame, TwoSame
<1>8. (twoTokens \subseteq {twoLastToken})'
    BY <1>0, <1>1
<1>9. TwoKeeps => TwoKept'
  <2>1. TwoKeeps => (TwoHeld => TwoHeld')
    BY <1>0, <1>1, <1>2, <1>5, TwoNumbers DEF TwoHeld, TwoKeeps, TwoLocals, TwoRestSame, TwoSame
  <2>2. TwoKeeps => TwoKept'
    BY <1>0, <1>1, <1>2, <1>5, <2>1, TwoNumbers DEF TwoKept, TwoHeld, TwoLocals, TwoRestSame, TwoSame
  <2> QED
    BY <2>2
<1> QED
    BY <1>2, <1>6, <1>7, <1>8, <1>9 DEF TwoInv

(* An upgrade reads the row.                                                *)
LEMMA TwoReadsRecord == ASSUME TwoInv, NEW r \in TwoRequests, Two!ReadRecord(r) PROVE TwoInv'
<1>0. /\ TwoTypes /\ TwoTyped /\ TwoLocals
      /\ twoTokens \subseteq {twoLastToken}
      /\ TwoKeeps => TwoKept
    BY DEF TwoInv
<1>1. /\ twoReq[r].pc = "record"
      /\ UNCHANGED <<twoDisk, twoDb, twoManifest, twoTokens, twoProc, twoSubscribed, twoScheduled, twoLastToken, twoFaults, twoRestarts, twoGranted>>
    BY DEF Two!ReadRecord, Two!stores, Two!runtime, Two!counters, Two!At, Two!Works, Two!Fails
<1>2. /\ TwoTyped' /\ TwoRestSame(r)
      /\ \/ twoReq'[r].pc = "idle"
         \/ /\ twoReq'[r].pc = "halt" /\ twoDb # Two!NoRow /\ twoReq'[r].old = twoDb
            /\ twoReq'[r].new = twoReq[r].new
  <2>0. twoReq[r] \in TwoReqs
    BY <1>0 DEF TwoTyped
  <2>1. CASE Two!Done(r)
    <3>1. TwoTyped' /\ TwoRestSame(r) /\ twoReq'[r].pc = "idle"
      BY <1>0, <2>1, TwoEnds
    <3> QED
      BY <2>1, <3>1
  <2>2. CASE twoDb # Two!NoRow
    <3> DEFINE z == [twoReq[r] EXCEPT !.pc = "halt", !.old = twoDb]
    <3>3. "halt" \in TwoLabels /\ twoDb \in TwoRows
      BY <1>0, <1>1, <2>0, <2>2, TwoNothing DEF TwoTypes, TwoLabels, TwoOps
    <3>4. z \in TwoReqs
      BY <2>0, <3>3 DEF TwoReqs
    <3>5. twoReq' = [twoReq EXCEPT ![r] = z]
      BY <1>0, <1>1, <2>0, <2>2 DEF TwoTyped, Two!ReadRecord
    <3>6. z.pc = "halt" /\ z.old = twoDb /\ z.new = twoReq[r].new
      BY <2>0 DEF TwoReqs
    <3> HIDE DEF z
    <3>7. TwoTyped' /\ TwoRestSame(r) /\ twoReq'[r] = z
      BY <1>0, <3>4, <3>5, TwoPuts
    <3> QED
      BY <2>2, <3>6, <3>7
  <2> QED
    BY <1>1, <2>1, <2>2 DEF Two!ReadRecord
<1>5. twoReq[r] \in TwoReqs
    BY <1>0 DEF TwoTyped
<1>6. TwoTypes'
    BY <1>0, <1>1, <1>2, <1>5, TwoNumbers, TwoNothing, TwoFields DEF TwoTypes, TwoLocals
<1>7. TwoLocals'
    BY <1>0, <1>1, <1>2, <1>5, TwoNumbers, TwoFields DEF TwoLocals, TwoRestSame, TwoSame, TwoTypes
<1>8. (twoTokens \subseteq {twoLastToken})'
    BY <1>0, <1>1
<1>9. TwoKeeps => TwoKept'
  <2>1. TwoKeeps => (TwoHeld => TwoHeld')
    BY <1>0, <1>1, <1>2, <1>5, TwoNumbers DEF TwoHeld, TwoKeeps, TwoLocals, TwoRestSame, TwoSame
  <2>2. TwoKeeps => TwoKept'
    BY <1>0, <1>1, <1>2, <1>5, <2>1, TwoNumbers DEF TwoKept, TwoHeld, TwoLocals, TwoRestSame, TwoSame
  <2> QED
    BY <2>2
<1> QED
    BY <1>2, <1>6, <1>7, <1>8, <1>9 DEF TwoInv

(* An upgrade stops the process.                                            *)
LEMMA TwoHalts == ASSUME TwoInv, NEW r \in TwoRequests, Two!Halt(r) PROVE TwoInv'
<1>0. /\ TwoTypes /\ TwoTyped /\ TwoLocals
      /\ twoTokens \subseteq {twoLastToken}
      /\ TwoKeeps => TwoKept
    BY DEF TwoInv
<1>1. /\ twoReq[r].pc = "halt"
      /\ twoProc' = Two!NoProc
      /\ Two!Goto(r, "backup")
      /\ UNCHANGED <<twoDisk, twoDb, twoManifest, twoTokens, twoSubscribed, twoScheduled, twoLastToken, twoFaults, twoRestarts, twoGranted>>
    BY DEF Two!Halt, Two!stores, Two!runtime, Two!counters, Two!At, Two!Works, Two!Fails
<1>2. /\ TwoTyped' /\ TwoRestSame(r)
      /\ twoReq'[r].pc = "backup" /\ TwoSame(r)
    BY <1>0, <1>1, TwoGoes DEF TwoLabels
<1>5. twoReq[r] \in TwoReqs
    BY <1>0 DEF TwoTyped
<1>6. TwoTypes'
    BY <1>0, <1>1, <1>2, <1>5, TwoNumbers, TwoNothing, TwoFields DEF TwoTypes, TwoLocals
<1>7. TwoLocals'
    BY <1>0, <1>1, <1>2, <1>5, TwoNumbers, TwoFields DEF TwoLocals, TwoRestSame, TwoSame
<1>8. (twoTokens \subseteq {twoLastToken})'
    BY <1>0, <1>1
<1>9. TwoKeeps => TwoKept'
  <2>1. TwoKeeps => (TwoHeld => TwoHeld')
    BY <1>0, <1>1, <1>2, <1>5, TwoNumbers DEF TwoHeld, TwoKeeps, TwoLocals, TwoRestSame, TwoSame
  <2>2. TwoKeeps => TwoKept'
    BY <1>0, <1>1, <1>2, <1>5, <2>1, TwoNumbers DEF TwoKept, TwoHeld, TwoLocals, TwoRestSame, TwoSame
  <2> QED
    BY <2>2
<1> QED
    BY <1>2, <1>6, <1>7, <1>8, <1>9 DEF TwoInv

(* The directory is renamed to the backup.                                  *)
LEMMA TwoBacksUp == ASSUME TwoInv, NEW r \in TwoRequests, Two!Backup(r) PROVE TwoInv'
<1>0. /\ TwoTypes /\ TwoTyped /\ TwoLocals
      /\ twoTokens \subseteq {twoLastToken}
      /\ TwoKeeps => TwoKept
    BY DEF TwoInv
<1>1. /\ twoReq[r].pc = "backup"
      /\ twoFaults' = twoFaults \/ (twoFaults < TwoMaxFaults /\ twoFaults' = twoFaults + 1)
      /\ UNCHANGED <<twoDb, twoManifest, twoTokens, twoProc, twoSubscribed, twoScheduled, twoLastToken, twoRestarts, twoGranted>>
    BY DEF Two!Backup, Two!stores, Two!runtime, Two!counters, Two!At, Two!Works, Two!Fails
<1>2. /\ TwoTyped' /\ TwoRestSame(r)
      /\ \/ /\ twoDisk # Two!None /\ twoDisk' = Two!None /\ twoReq'[r].pc = "replace" /\ twoReq'[r].bak = twoDisk
            /\ twoReq'[r].new = twoReq[r].new /\ twoReq'[r].old = twoReq[r].old
         \/ twoDisk' = twoDisk /\ twoReq'[r].pc = "idle"
  <2>0. twoReq[r] \in TwoReqs
    BY <1>0 DEF TwoTyped
  <2>1. CASE twoDisk' = twoDisk /\ Two!Done(r)
    <3>1. TwoTyped' /\ TwoRestSame(r) /\ twoReq'[r].pc = "idle"
      BY <1>0, <2>1, TwoEnds
    <3> QED
      BY <2>1, <3>1
  <2>2. CASE /\ twoDisk # Two!None /\ twoDisk' = Two!None
             /\ twoReq' = [twoReq EXCEPT ![r].pc = "replace", ![r].bak = twoDisk]
    <3> DEFINE z == [twoReq[r] EXCEPT !.pc = "replace", !.bak = twoDisk]
    <3>3. "replace" \in TwoLabels /\ twoDisk \in TwoVersions \cup {Two!None}
      BY <1>0, <1>1, <2>0, <2>2, TwoNumbers DEF TwoTypes, TwoLabels, TwoOps
    <3>4. z \in TwoReqs
      BY <2>0, <3>3 DEF TwoReqs
    <3>5. twoReq' = [twoReq EXCEPT ![r] = z]
      BY <1>0, <1>1, <2>0, <2>2 DEF TwoTyped, Two!Backup
    <3>6. z.pc = "replace" /\ z.bak = twoDisk /\ z.new = twoReq[r].new /\ z.old = twoReq[r].old
      BY <2>0 DEF TwoReqs
    <3> HIDE DEF z
    <3>7. TwoTyped' /\ TwoRestSame(r) /\ twoReq'[r] = z
      BY <1>0, <3>4, <3>5, TwoPuts
    <3> QED
      BY <2>2, <3>6, <3>7
  <2> QED
    BY <1>1, <2>1, <2>2 DEF Two!Backup
<1>5. twoReq[r] \in TwoReqs
    BY <1>0 DEF TwoTyped
<1>6. TwoTypes'
    BY <1>0, <1>1, <1>2, <1>5, TwoNumbers, TwoNothing, TwoFields DEF TwoTypes, TwoLocals
<1>7. TwoLocals'
    BY <1>0, <1>1, <1>2, <1>5, TwoNumbers, TwoFields DEF TwoLocals, TwoRestSame, TwoSame, TwoTypes
<1>8. (twoTokens \subseteq {twoLastToken})'
    BY <1>0, <1>1
<1>9. TwoKeeps => TwoKept'
  <2>1. TwoKeeps => (TwoHeld => TwoHeld')
    BY <1>0, <1>1, <1>2, <1>5, TwoNumbers DEF TwoHeld, TwoKeeps, TwoLocals, TwoRestSame, TwoSame
  <2>2. TwoKeeps => TwoKept'
    BY <1>0, <1>1, <1>2, <1>5, <2>1, TwoNumbers DEF TwoKept, TwoHeld, TwoLocals, TwoRestSame, TwoSame
  <2> QED
    BY <2>2
<1> QED
    BY <1>2, <1>6, <1>7, <1>8, <1>9 DEF TwoInv

(* The new directory is moved in, or the upgrade rolls back.                *)
LEMMA TwoReplaces == ASSUME TwoInv, NEW r \in TwoRequests, Two!Replace(r) PROVE TwoInv'
<1>0. /\ TwoTypes /\ TwoTyped /\ TwoLocals
      /\ twoTokens \subseteq {twoLastToken}
      /\ TwoKeeps => TwoKept
    BY DEF TwoInv
<1>1. /\ twoReq[r].pc = "replace"
      /\ twoFaults' = twoFaults \/ (twoFaults < TwoMaxFaults /\ twoFaults' = twoFaults + 1)
      /\ \/ twoDisk = Two!None /\ twoDisk' = twoReq[r].new /\ Two!Goto(r, "update")
         \/ twoDisk' = twoDisk /\ Two!Goto(r, "rollback")
      /\ UNCHANGED <<twoDb, twoManifest, twoTokens, twoProc, twoSubscribed, twoScheduled, twoLastToken, twoRestarts, twoGranted>>
    BY DEF Two!Replace, Two!stores, Two!runtime, Two!counters, Two!At, Two!Works, Two!Fails
<1>2. /\ TwoTyped' /\ TwoRestSame(r)
      /\ TwoSame(r)
      /\ \/ twoDisk = Two!None /\ twoDisk' = twoReq[r].new /\ twoReq'[r].pc = "update"
         \/ twoDisk' = twoDisk /\ twoReq'[r].pc = "rollback"
    BY <1>0, <1>1, TwoGoes DEF TwoLabels
<1>5. twoReq[r] \in TwoReqs
    BY <1>0 DEF TwoTyped
<1>6. TwoTypes'
    BY <1>0, <1>1, <1>2, <1>5, TwoNumbers, TwoNothing, TwoFields DEF TwoTypes, TwoLocals
<1>7. TwoLocals'
    BY <1>0, <1>1, <1>2, <1>5, TwoNumbers, TwoFields DEF TwoLocals, TwoRestSame, TwoSame
<1>8. (twoTokens \subseteq {twoLastToken})'
    BY <1>0, <1>1
<1>9. TwoKeeps => TwoKept'
  <2>1. TwoKeeps => (TwoHeld => TwoHeld')
    BY <1>0, <1>1, <1>2, <1>5, TwoNumbers DEF TwoHeld, TwoKeeps, TwoLocals, TwoRestSame, TwoSame
  <2>2. TwoKeeps => TwoKept'
    BY <1>0, <1>1, <1>2, <1>5, <2>1, TwoNumbers DEF TwoKept, TwoHeld, TwoLocals, TwoRestSame, TwoSame
  <2> QED
    BY <2>2
<1> QED
    BY <1>2, <1>6, <1>7, <1>8, <1>9 DEF TwoInv

(* The row gets the new version, or the upgrade rolls back.                 *)
LEMMA TwoUpdates == ASSUME TwoInv, NEW r \in TwoRequests, Two!Update(r) PROVE TwoInv'
<1>0. /\ TwoTypes /\ TwoTyped /\ TwoLocals
      /\ twoTokens \subseteq {twoLastToken}
      /\ TwoKeeps => TwoKept
    BY DEF TwoInv
<1>1. /\ twoReq[r].pc = "update"
      /\ twoFaults' = twoFaults \/ (twoFaults < TwoMaxFaults /\ twoFaults' = twoFaults + 1)
      /\ \/ twoDb' = Two!Upserted(twoReq[r].new, twoReq[r].old.enabled, twoReq[r].old.approved) /\ Two!Goto(r, "load")
         \/ twoDb' = twoDb /\ Two!Goto(r, "rollback")
      /\ UNCHANGED <<twoDisk, twoManifest, twoTokens, twoProc, twoSubscribed, twoScheduled, twoLastToken, twoRestarts, twoGranted>>
    BY DEF Two!Update, Two!stores, Two!runtime, Two!counters, Two!At, Two!Works, Two!Fails
<1>2. /\ TwoTyped' /\ TwoRestSame(r)
      /\ TwoSame(r)
      /\ \/ /\ twoDb' = Two!Upserted(twoReq[r].new, twoReq[r].old.enabled, twoReq[r].old.approved)
            /\ twoReq'[r].pc = "load"
         \/ twoDb' = twoDb /\ twoReq'[r].pc = "rollback"
    BY <1>0, <1>1, TwoGoes DEF TwoLabels
<1>3. twoReq[r].new \in TwoVersions /\ twoReq[r].old.enabled \in BOOLEAN /\ twoReq[r].old.approved \in SUBSET TwoPermissions
    BY <1>0, <1>1, TwoNumbers, TwoFields, TwoNothing DEF TwoLocals, TwoTyped, TwoTypes
<1>4. /\ Two!Upserted(twoReq[r].new, twoReq[r].old.enabled, twoReq[r].old.approved) \in TwoRow /\ Two!Upserted(twoReq[r].new, twoReq[r].old.enabled, twoReq[r].old.approved) # Two!NoRow /\ Two!Upserted(twoReq[r].new, twoReq[r].old.enabled, twoReq[r].old.approved).ver = twoReq[r].new
      /\ Two!Upserted(twoReq[r].new, twoReq[r].old.enabled, twoReq[r].old.approved).enabled = IF twoDb = Two!NoRow THEN twoReq[r].old.enabled ELSE twoDb.enabled
    BY <1>0, <1>3, TwoUpserts
<1>5. twoReq[r] \in TwoReqs
    BY <1>0 DEF TwoTyped
<1>t. twoDb' \in {Two!NoRow} \cup TwoRow /\ twoDisk' \in TwoVersions \cup {Two!None}
    BY <1>0, <1>1, <1>2, <1>4 DEF TwoTypes
<1>6. TwoTypes'
    BY <1>0, <1>1, <1>2, <1>t, TwoNumbers DEF TwoTypes
<1>7. TwoLocals'
    BY <1>0, <1>1, <1>2, <1>5, TwoNumbers, TwoFields DEF TwoLocals, TwoRestSame, TwoSame
<1>8. (twoTokens \subseteq {twoLastToken})'
    BY <1>0, <1>1
<1>9. TwoKeeps => TwoKept'
  <2>1. TwoKeeps => (TwoHeld => TwoHeld')
    BY <1>0, <1>1, <1>2, <1>5, <1>4, TwoNumbers DEF TwoHeld, TwoKeeps, TwoLocals, TwoRestSame, TwoSame
  <2>2. TwoKeeps => TwoKept'
    BY <1>0, <1>1, <1>2, <1>5, <2>1, <1>4, TwoNumbers DEF TwoKept, TwoHeld, TwoLocals, TwoRestSame, TwoSame
  <2> QED
    BY <2>2
<1> QED
    BY <1>2, <1>6, <1>7, <1>8, <1>9 DEF TwoInv

(* The rollback removes what is in the directory.                           *)
LEMMA TwoRemovesNew == ASSUME TwoInv, NEW r \in TwoRequests, Two!RemoveNew(r) PROVE TwoInv'
<1>0. /\ TwoTypes /\ TwoTyped /\ TwoLocals
      /\ twoTokens \subseteq {twoLastToken}
      /\ TwoKeeps => TwoKept
    BY DEF TwoInv
<1>1. /\ twoReq[r].pc = "rollback"
      /\ twoDisk' = Two!None
      /\ Two!Goto(r, "putback")
      /\ UNCHANGED <<twoDb, twoManifest, twoTokens, twoProc, twoSubscribed, twoScheduled, twoLastToken, twoFaults, twoRestarts, twoGranted>>
    BY DEF Two!RemoveNew, Two!stores, Two!runtime, Two!counters, Two!At, Two!Works, Two!Fails
<1>2. /\ TwoTyped' /\ TwoRestSame(r)
      /\ twoReq'[r].pc = "putback" /\ TwoSame(r)
    BY <1>0, <1>1, TwoGoes DEF TwoLabels
<1>5. twoReq[r] \in TwoReqs
    BY <1>0 DEF TwoTyped
<1>6. TwoTypes'
    BY <1>0, <1>1, <1>2, <1>5, TwoNumbers, TwoNothing, TwoFields DEF TwoTypes, TwoLocals
<1>7. TwoLocals'
    BY <1>0, <1>1, <1>2, <1>5, TwoNumbers, TwoFields DEF TwoLocals, TwoRestSame, TwoSame
<1>8. (twoTokens \subseteq {twoLastToken})'
    BY <1>0, <1>1
<1>9. TwoKeeps => TwoKept'
  <2>1. TwoKeeps => (TwoHeld => TwoHeld')
    BY <1>0, <1>1, <1>2, <1>5, TwoNumbers DEF TwoHeld, TwoKeeps, TwoLocals, TwoRestSame, TwoSame
  <2>2. TwoKeeps => TwoKept'
    BY <1>0, <1>1, <1>2, <1>5, <2>1, TwoNumbers DEF TwoKept, TwoHeld, TwoLocals, TwoRestSame, TwoSame
  <2> QED
    BY <2>2
<1> QED
    BY <1>2, <1>6, <1>7, <1>8, <1>9 DEF TwoInv

(* The rollback moves the backup in, unless there is a directory again.     *)
LEMMA TwoPutsBack == ASSUME TwoInv, NEW r \in TwoRequests, Two!RestoreDirectory(r) PROVE TwoInv'
<1>0. /\ TwoTypes /\ TwoTyped /\ TwoLocals
      /\ twoTokens \subseteq {twoLastToken}
      /\ TwoKeeps => TwoKept
    BY DEF TwoInv
<1>1. /\ twoReq[r].pc = "putback"
      /\ twoDisk' = IF twoDisk = Two!None THEN twoReq[r].bak ELSE twoDisk
      /\ Two!Goto(r, "restore")
      /\ UNCHANGED <<twoDb, twoManifest, twoTokens, twoProc, twoSubscribed, twoScheduled, twoLastToken, twoFaults, twoRestarts, twoGranted>>
    BY DEF Two!RestoreDirectory, Two!stores, Two!runtime, Two!counters, Two!At, Two!Works, Two!Fails, Two!Restored
<1>2. /\ TwoTyped' /\ TwoRestSame(r)
      /\ twoReq'[r].pc = "restore" /\ TwoSame(r)
    BY <1>0, <1>1, TwoGoes DEF TwoLabels
<1>5. twoReq[r] \in TwoReqs
    BY <1>0 DEF TwoTyped
<1>6. TwoTypes'
    BY <1>0, <1>1, <1>2, <1>5, TwoNumbers, TwoNothing, TwoFields DEF TwoTypes, TwoLocals
<1>7. TwoLocals'
    BY <1>0, <1>1, <1>2, <1>5, TwoNumbers, TwoFields DEF TwoLocals, TwoRestSame, TwoSame
<1>8. (twoTokens \subseteq {twoLastToken})'
    BY <1>0, <1>1
<1>9. TwoKeeps => TwoKept'
  <2>1. TwoKeeps => (TwoHeld => TwoHeld')
    BY <1>0, <1>1, <1>2, <1>5, TwoNumbers DEF TwoHeld, TwoKeeps, TwoLocals, TwoRestSame, TwoSame
  <2>2. TwoKeeps => TwoKept'
    BY <1>0, <1>1, <1>2, <1>5, <2>1, TwoNumbers DEF TwoKept, TwoHeld, TwoLocals, TwoRestSame, TwoSame
  <2> QED
    BY <2>2
<1> QED
    BY <1>2, <1>6, <1>7, <1>8, <1>9 DEF TwoInv

(* The rollback writes the old row back.                                    *)
LEMMA TwoRestoresRow == ASSUME TwoInv, NEW r \in TwoRequests, Two!RestoreRecord(r) PROVE TwoInv'
<1>0. /\ TwoTypes /\ TwoTyped /\ TwoLocals
      /\ twoTokens \subseteq {twoLastToken}
      /\ TwoKeeps => TwoKept
    BY DEF TwoInv
<1>1. /\ twoReq[r].pc = "restore"
      /\ twoDb' = Two!Upserted(twoReq[r].old.ver, twoReq[r].old.enabled, twoReq[r].old.approved)
      /\ Two!Goto(r, "reload")
      /\ UNCHANGED <<twoDisk, twoManifest, twoTokens, twoProc, twoSubscribed, twoScheduled, twoLastToken, twoFaults, twoRestarts, twoGranted>>
    BY DEF Two!RestoreRecord, Two!stores, Two!runtime, Two!counters, Two!At, Two!Works, Two!Fails
<1>2. /\ TwoTyped' /\ TwoRestSame(r)
      /\ twoReq'[r].pc = "reload" /\ TwoSame(r)
    BY <1>0, <1>1, TwoGoes DEF TwoLabels
<1>3. twoReq[r].old.ver \in TwoVersions /\ twoReq[r].old.enabled \in BOOLEAN /\ twoReq[r].old.approved \in SUBSET TwoPermissions
    BY <1>0, <1>1, TwoNumbers, TwoFields, TwoNothing DEF TwoLocals, TwoTyped, TwoTypes
<1>4. /\ Two!Upserted(twoReq[r].old.ver, twoReq[r].old.enabled, twoReq[r].old.approved) \in TwoRow /\ Two!Upserted(twoReq[r].old.ver, twoReq[r].old.enabled, twoReq[r].old.approved) # Two!NoRow /\ Two!Upserted(twoReq[r].old.ver, twoReq[r].old.enabled, twoReq[r].old.approved).ver = twoReq[r].old.ver
      /\ Two!Upserted(twoReq[r].old.ver, twoReq[r].old.enabled, twoReq[r].old.approved).enabled = IF twoDb = Two!NoRow THEN twoReq[r].old.enabled ELSE twoDb.enabled
    BY <1>0, <1>3, TwoUpserts
<1>5. twoReq[r] \in TwoReqs
    BY <1>0 DEF TwoTyped
<1>t. twoDb' \in {Two!NoRow} \cup TwoRow /\ twoDisk' \in TwoVersions \cup {Two!None}
    BY <1>0, <1>1, <1>2, <1>4 DEF TwoTypes
<1>6. TwoTypes'
    BY <1>0, <1>1, <1>2, <1>t, TwoNumbers DEF TwoTypes
<1>7. TwoLocals'
    BY <1>0, <1>1, <1>2, <1>5, TwoNumbers, TwoFields DEF TwoLocals, TwoRestSame, TwoSame
<1>8. (twoTokens \subseteq {twoLastToken})'
    BY <1>0, <1>1
<1>9. TwoKeeps => TwoKept'
  <2>1. TwoKeeps => (TwoHeld => TwoHeld')
    BY <1>0, <1>1, <1>2, <1>5, <1>4, TwoNumbers DEF TwoHeld, TwoKeeps, TwoLocals, TwoRestSame, TwoSame
  <2>2. TwoKeeps => TwoKept'
    BY <1>0, <1>1, <1>2, <1>5, <2>1, <1>4, TwoNumbers DEF TwoKept, TwoHeld, TwoLocals, TwoRestSame, TwoSame
  <2> QED
    BY <2>2
<1> QED
    BY <1>2, <1>6, <1>7, <1>8, <1>9 DEF TwoInv

(* The rollback loads the old manifest.                                     *)
LEMMA TwoReloads == ASSUME TwoInv, NEW r \in TwoRequests, Two!Reload(r) PROVE TwoInv'
<1>0. /\ TwoTypes /\ TwoTyped /\ TwoLocals
      /\ twoTokens \subseteq {twoLastToken}
      /\ TwoKeeps => TwoKept
    BY DEF TwoInv
<1>1. /\ twoReq[r].pc = "reload"
      /\ twoManifest' = IF twoDisk = Two!None THEN twoManifest ELSE twoDisk
      /\ Two!Done(r)
      /\ UNCHANGED <<twoDisk, twoDb, twoTokens, twoProc, twoSubscribed, twoScheduled, twoLastToken, twoFaults, twoRestarts, twoGranted>>
    BY DEF Two!Reload, Two!stores, Two!runtime, Two!counters, Two!At, Two!Works, Two!Fails
<1>2. /\ TwoTyped' /\ TwoRestSame(r)
      /\ twoReq'[r].pc = "idle"
    BY <1>0, <1>1, TwoEnds
<1>5. twoReq[r] \in TwoReqs
    BY <1>0 DEF TwoTyped
<1>6. TwoTypes'
    BY <1>0, <1>1, <1>2, <1>5, TwoNumbers, TwoNothing, TwoFields DEF TwoTypes, TwoLocals
<1>7. TwoLocals'
    BY <1>0, <1>1, <1>2, <1>5, TwoNumbers, TwoFields DEF TwoLocals, TwoRestSame, TwoSame
<1>8. (twoTokens \subseteq {twoLastToken})'
    BY <1>0, <1>1
<1>9. TwoKeeps => TwoKept'
  <2>1. TwoKeeps => (TwoHeld => TwoHeld')
    BY <1>0, <1>1, <1>2, <1>5, TwoNumbers DEF TwoHeld, TwoKeeps, TwoLocals, TwoRestSame, TwoSame
  <2>2. TwoKeeps => TwoKept'
    BY <1>0, <1>1, <1>2, <1>5, <2>1, TwoNumbers DEF TwoKept, TwoHeld, TwoLocals, TwoRestSame, TwoSame
  <2> QED
    BY <2>2
<1> QED
    BY <1>2, <1>6, <1>7, <1>8, <1>9 DEF TwoInv

(* The backup is removed.                                                   *)
LEMMA TwoCleansUp == ASSUME TwoInv, NEW r \in TwoRequests, Two!Cleanup(r) PROVE TwoInv'
<1>0. /\ TwoTypes /\ TwoTyped /\ TwoLocals
      /\ twoTokens \subseteq {twoLastToken}
      /\ TwoKeeps => TwoKept
    BY DEF TwoInv
<1>1. /\ twoReq[r].pc = "cleanup"
      /\ Two!Done(r)
      /\ UNCHANGED <<twoDisk, twoDb, twoManifest, twoTokens, twoProc, twoSubscribed, twoScheduled, twoLastToken, twoFaults, twoRestarts, twoGranted>>
    BY DEF Two!Cleanup, Two!stores, Two!runtime, Two!counters, Two!At, Two!Works, Two!Fails
<1>2. /\ TwoTyped' /\ TwoRestSame(r)
      /\ twoReq'[r].pc = "idle"
    BY <1>0, <1>1, TwoEnds
<1>5. twoReq[r] \in TwoReqs
    BY <1>0 DEF TwoTyped
<1>6. TwoTypes'
    BY <1>0, <1>1, <1>2, <1>5, TwoNumbers, TwoNothing, TwoFields DEF TwoTypes, TwoLocals
<1>7. TwoLocals'
    BY <1>0, <1>1, <1>2, <1>5, TwoNumbers, TwoFields DEF TwoLocals, TwoRestSame, TwoSame
<1>8. (twoTokens \subseteq {twoLastToken})'
    BY <1>0, <1>1
<1>9. TwoKeeps => TwoKept'
  <2>1. TwoKeeps => (TwoHeld => TwoHeld')
    BY <1>0, <1>1, <1>2, <1>5, TwoNumbers DEF TwoHeld, TwoKeeps, TwoLocals, TwoRestSame, TwoSame
  <2>2. TwoKeeps => TwoKept'
    BY <1>0, <1>1, <1>2, <1>5, <2>1, TwoNumbers DEF TwoKept, TwoHeld, TwoLocals, TwoRestSame, TwoSame
  <2> QED
    BY <2>2
<1> QED
    BY <1>2, <1>6, <1>7, <1>8, <1>9 DEF TwoInv

(* ScanPlugins registers what is in the directory.                          *)
LEMMA TwoScans == ASSUME TwoInv, NEW r \in TwoRequests, Two!Scan(r) PROVE TwoInv'
<1>0. /\ TwoTypes /\ TwoTyped /\ TwoLocals
      /\ twoTokens \subseteq {twoLastToken}
      /\ TwoKeeps => TwoKept
    BY DEF TwoInv
<1>1. /\ twoReq[r].pc = "scan"
      /\ \/ twoDisk = Two!None /\ Two!Done(r) /\ twoDb' = twoDb /\ twoManifest' = twoManifest
         \/ /\ twoDisk # Two!None /\ twoManifest' = twoDisk /\ twoDb' = Two!Upserted(twoDisk, FALSE, TwoDeclared[twoDisk])
            /\ Two!Goto(r, "lookup") \/ Two!Done(r)
      /\ UNCHANGED <<twoDisk, twoTokens, twoProc, twoSubscribed, twoScheduled, twoLastToken, twoFaults, twoRestarts, twoGranted>>
    BY DEF Two!Scan, Two!stores, Two!runtime, Two!counters, Two!At, Two!Works, Two!Fails
<1>2. /\ TwoTyped' /\ TwoRestSame(r)
      /\ twoReq'[r].pc \in {"idle", "lookup"}
      /\ \/ twoDisk = Two!None /\ twoDb' = twoDb /\ twoManifest' = twoManifest
         \/ twoDisk # Two!None /\ twoManifest' = twoDisk /\ twoDb' = Two!Upserted(twoDisk, FALSE, TwoDeclared[twoDisk])
    BY <1>0, <1>1, TwoGoes, TwoEnds DEF TwoLabels
<1>3. twoDisk # Two!None => (twoDisk \in TwoVersions /\ FALSE \in BOOLEAN /\ TwoDeclared[twoDisk] \in SUBSET TwoPermissions)
    BY <1>0, <1>1, TwoNumbers, TwoFields, TwoNothing DEF TwoLocals, TwoTyped, TwoTypes
<1>4. twoDisk # Two!None => /\ Two!Upserted(twoDisk, FALSE, TwoDeclared[twoDisk]) \in TwoRow /\ Two!Upserted(twoDisk, FALSE, TwoDeclared[twoDisk]) # Two!NoRow /\ Two!Upserted(twoDisk, FALSE, TwoDeclared[twoDisk]).ver = twoDisk
                        /\ Two!Upserted(twoDisk, FALSE, TwoDeclared[twoDisk]).enabled = IF twoDb = Two!NoRow THEN FALSE ELSE twoDb.enabled
    BY <1>0, <1>3, TwoUpserts
<1>5. twoReq[r] \in TwoReqs
    BY <1>0 DEF TwoTyped
<1>t. twoDb' \in {Two!NoRow} \cup TwoRow /\ twoDisk' \in TwoVersions \cup {Two!None}
    BY <1>0, <1>1, <1>2, <1>4 DEF TwoTypes
<1>6. TwoTypes'
    BY <1>0, <1>1, <1>2, <1>t, TwoNumbers DEF TwoTypes
<1>7. TwoLocals'
    BY <1>0, <1>1, <1>2, <1>5, TwoNumbers, TwoFields DEF TwoLocals, TwoRestSame, TwoSame
<1>8. (twoTokens \subseteq {twoLastToken})'
    BY <1>0, <1>1
<1>9. TwoKeeps => TwoKept'
  <2>1. TwoKeeps => (TwoHeld => TwoHeld')
    BY <1>0, <1>1, <1>2, <1>5, <1>4, TwoNumbers DEF TwoHeld, TwoKeeps, TwoLocals, TwoRestSame, TwoSame
  <2>2. TwoKeeps => TwoKept'
    BY <1>0, <1>1, <1>2, <1>5, <2>1, <1>4, TwoNumbers DEF TwoKept, TwoHeld, TwoLocals, TwoRestSame, TwoSame
  <2> QED
    BY <2>2
<1> QED
    BY <1>2, <1>6, <1>7, <1>8, <1>9 DEF TwoInv

(* A request begins.                                                        *)
LEMMA TwoBegins == ASSUME TwoInv, NEW r \in TwoRequests, NEW op \in TwoOps, NEW l \in {"lookup", "validate", "stop"}, Two!Begin(r, op, l) PROVE TwoInv'
<1>0. /\ TwoTypes /\ TwoTyped /\ TwoLocals
      /\ twoTokens \subseteq {twoLastToken}
      /\ TwoKeeps => TwoKept
    BY DEF TwoInv
<1>1. /\ twoReq[r].pc = "idle"
      /\ op \in TwoOps
      /\ l \in {"lookup", "validate", "stop"}
      /\ UNCHANGED <<twoDisk, twoDb, twoManifest, twoTokens, twoProc, twoSubscribed, twoScheduled, twoLastToken, twoFaults, twoRestarts, twoGranted>>
    BY DEF Two!Begin, Two!stores, Two!runtime, Two!counters, Two!At, Two!Works, Two!Fails
<1>2. /\ TwoTyped' /\ TwoRestSame(r)
      /\ twoReq'[r].pc = l
  <2>0. twoReq[r] \in TwoReqs
    BY <1>0 DEF TwoTyped
  <2> DEFINE z == [Two!Idle EXCEPT !.op = op, !.pc = l]
  <2>3. l \in TwoLabels /\ op \in TwoOps
    BY <1>0, <1>1, <2>0, TwoNothing DEF TwoTypes, TwoLabels, TwoOps
  <2>4. z \in TwoReqs
    BY <2>0, <2>3, TwoNothing DEF TwoReqs
  <2>5. twoReq' = [twoReq EXCEPT ![r] = z]
    BY <1>0, <1>1, <2>0 DEF TwoTyped, Two!Begin
  <2>6. z.pc = l
    BY <2>0, TwoNothing DEF TwoReqs
  <2> HIDE DEF z
  <2>7. TwoTyped' /\ TwoRestSame(r) /\ twoReq'[r] = z
    BY <1>0, <2>4, <2>5, TwoPuts
  <2> QED
    BY <1>1, <2>6, <2>7
<1>5. twoReq[r] \in TwoReqs
    BY <1>0 DEF TwoTyped
<1>6. TwoTypes'
    BY <1>0, <1>1, <1>2, <1>5, TwoNumbers, TwoNothing, TwoFields DEF TwoTypes, TwoLocals
<1>7. TwoLocals'
    BY <1>0, <1>1, <1>2, <1>5, TwoNumbers, TwoFields DEF TwoLocals, TwoRestSame, TwoSame
<1>8. (twoTokens \subseteq {twoLastToken})'
    BY <1>0, <1>1
<1>9. TwoKeeps => TwoKept'
  <2>1. TwoKeeps => (TwoHeld => TwoHeld')
    BY <1>0, <1>1, <1>2, <1>5, TwoNumbers DEF TwoHeld, TwoKeeps, TwoLocals, TwoRestSame, TwoSame
  <2>2. TwoKeeps => TwoKept'
    BY <1>0, <1>1, <1>2, <1>5, <2>1, TwoNumbers DEF TwoKept, TwoHeld, TwoLocals, TwoRestSame, TwoSame
  <2> QED
    BY <2>2
<1> QED
    BY <1>2, <1>6, <1>7, <1>8, <1>9 DEF TwoInv

(* An installation begins; Stat decides the path.                           *)
LEMMA TwoInstallBegins == ASSUME TwoInv, NEW r \in TwoRequests, NEW v \in TwoVersions, Two!Install(r, v) PROVE TwoInv'
<1>0. /\ TwoTypes /\ TwoTyped /\ TwoLocals
      /\ twoTokens \subseteq {twoLastToken}
      /\ TwoKeeps => TwoKept
    BY DEF TwoInv
<1>1. /\ twoReq[r].pc = "idle"
      /\ v \in TwoVersions
      /\ UNCHANGED <<twoDisk, twoDb, twoManifest, twoTokens, twoProc, twoSubscribed, twoScheduled, twoLastToken, twoFaults, twoRestarts, twoGranted>>
    BY DEF Two!Install, Two!stores, Two!runtime, Two!counters, Two!At, Two!Works, Two!Fails
<1>2. /\ TwoTyped' /\ TwoRestSame(r)
      /\ twoReq'[r].new = v
      /\ \/ twoReq'[r].pc = "move" /\ twoDisk = Two!None
         \/ twoReq'[r].pc = "record" /\ twoDisk # Two!None
  <2>0. twoReq[r] \in TwoReqs
    BY <1>0 DEF TwoTyped
  <2> DEFINE z == [Two!Idle EXCEPT !.op = "install", !.new = v, !.pc = IF twoDisk = Two!None THEN "move" ELSE "record"]
  <2>3. {"move", "record"} \subseteq TwoLabels /\ v \in TwoVersions /\ "install" \in TwoOps
    BY <1>0, <1>1, <2>0, TwoNothing DEF TwoTypes, TwoLabels, TwoOps
  <2>4. z \in TwoReqs
    BY <2>0, <2>3, TwoNothing DEF TwoReqs
  <2>5. twoReq' = [twoReq EXCEPT ![r] = z]
    BY <1>0, <1>1, <2>0 DEF TwoTyped, Two!Install
  <2>6. z.new = v /\ z.pc = IF twoDisk = Two!None THEN "move" ELSE "record"
    BY <2>0, TwoNothing DEF TwoReqs
  <2> HIDE DEF z
  <2>7. TwoTyped' /\ TwoRestSame(r) /\ twoReq'[r] = z
    BY <1>0, <2>4, <2>5, TwoPuts
  <2> QED
    BY <1>1, <2>6, <2>7
<1>5. twoReq[r] \in TwoReqs
    BY <1>0 DEF TwoTyped
<1>6. TwoTypes'
    BY <1>0, <1>1, <1>2, <1>5, TwoNumbers, TwoNothing, TwoFields DEF TwoTypes, TwoLocals
<1>7. TwoLocals'
    BY <1>0, <1>1, <1>2, <1>5, TwoNumbers, TwoFields DEF TwoLocals, TwoRestSame, TwoSame, TwoTypes
<1>8. (twoTokens \subseteq {twoLastToken})'
    BY <1>0, <1>1
<1>9. TwoKeeps => TwoKept'
  <2>1. TwoKeeps => (TwoHeld => TwoHeld')
    BY <1>0, <1>1, <1>2, <1>5, TwoNumbers DEF TwoHeld, TwoKeeps, TwoLocals, TwoRestSame, TwoSame
  <2>2. TwoKeeps => TwoKept'
    BY <1>0, <1>1, <1>2, <1>5, <2>1, TwoNumbers DEF TwoKept, TwoHeld, TwoLocals, TwoRestSame, TwoSame
  <2> QED
    BY <2>2
<1> QED
    BY <1>2, <1>6, <1>7, <1>8, <1>9 DEF TwoInv

(* The process exits, or the supervisor restarts it.                        *)
LEMMA TwoProcessMoves == ASSUME TwoInv, Two!ProcessExits \/ Two!SupervisorRestarts PROVE TwoInv'
<1>0. TwoTypes /\ TwoTyped /\ TwoLocals /\ twoTokens \subseteq {twoLastToken} /\ (TwoKeeps => TwoKept)
    BY DEF TwoInv
<1>1. UNCHANGED <<twoDisk, twoDb, twoManifest, twoTokens, twoSubscribed, twoScheduled, twoReq, twoLastToken, twoFaults, twoRestarts, twoGranted>>
    BY DEF Two!ProcessExits, Two!SupervisorRestarts, Two!stores, Two!runtime, Two!counters
<1>2. twoProc \in TwoProcess /\ Two!NoProc \notin TwoProcess /\ Two!NoProc.alive = FALSE
    BY <1>0, TwoNumbers, TwoNothing DEF TwoTypes, Two!ProcessExits, Two!SupervisorRestarts, Two!NoProc, TwoProcess
<1>3. /\ twoProc' \in TwoProcess /\ twoProc'.tok = twoProc.tok /\ twoProc'.ready = twoProc.ready
      /\ twoProc'.alive => twoProc.alive \/ twoProc.ready
  <2>1. CASE Two!ProcessExits
    BY <1>2, <2>1 DEF Two!ProcessExits, TwoProcess
  <2>2. CASE Two!SupervisorRestarts
    <3>1. twoDisk \in TwoVersions
      BY <1>0, <2>2 DEF Two!SupervisorRestarts, Two!Executable, TwoTypes
    <3> QED
      BY <1>2, <2>2, <3>1 DEF Two!SupervisorRestarts, TwoProcess
  <2> QED
    BY <2>1, <2>2
<1>4. TwoTypes'
    BY <1>0, <1>1, <1>3 DEF TwoTypes
<1>5. TwoTyped' /\ TwoLocals'
    BY <1>0, <1>1 DEF TwoTyped, TwoLocals
<1>6. TwoKeeps => TwoKept'
    BY <1>0, <1>1 DEF TwoKept, TwoHeld
<1> QED
    BY <1>0, <1>1, <1>4, <1>5, <1>6 DEF TwoInv

(* The panel restarts, and goes on to the scan. Between requests nobody     *)
(* holds the directory.                                                     *)
LEMMA TwoPanel == ASSUME TwoInv, Two!PanelRestarts PROVE TwoInv'
<1>0. TwoTypes /\ TwoTyped /\ TwoLocals /\ twoTokens \subseteq {twoLastToken} /\ (TwoKeeps => TwoKept)
    BY DEF TwoInv
<1> DEFINE boot == CHOOSE r \in TwoRequests : TRUE
           s == [Two!Idle EXCEPT !.op = "boot", !.pc = "scan"]
<1>1. /\ twoRestarts < TwoMaxRestarts /\ (TwoRestartAnywhere \/ Two!Quiet)
      /\ twoRestarts' = twoRestarts + 1 /\ twoManifest' = Two!None /\ twoTokens' = {} /\ twoProc' = Two!NoProc
      /\ twoSubscribed' = FALSE /\ twoScheduled' = FALSE
      /\ twoReq' = [r \in TwoRequests |-> IF r = boot THEN s ELSE Two!Idle]
      /\ UNCHANGED <<twoDisk, twoDb, twoLastToken, twoFaults, twoGranted>>
    BY DEF Two!PanelRestarts
<1>2. s \in TwoReqs /\ s.pc = "scan"
    BY TwoNothing DEF TwoReqs, TwoLabels, TwoOps
<1> HIDE DEF boot, s
<1>3. TwoTyped'
    BY <1>1, <1>2, TwoNothing DEF TwoTyped
<1>4. TwoTypes'
  <2>1. FALSE \in BOOLEAN /\ twoRestarts + 1 \in 0..TwoMaxRestarts
    BY <1>0, <1>1, TwoNumbers DEF TwoTypes
  <2> QED
    BY <1>0, <1>1, <2>1 DEF TwoTypes
<1>5. \A r \in TwoRequests : twoReq'[r].pc \in {"scan", "idle"}
    BY <1>1, <1>2, TwoNothing
<1>6. TwoLocals'
    BY <1>5 DEF TwoLocals
<1>7. TwoKeeps => TwoKept'
  <2> SUFFICES ASSUME TwoKeeps PROVE TwoKept'
    OBVIOUS
  <2>1. Two!Quiet /\ TwoKept
    BY <1>0, <1>1 DEF TwoKeeps
  <2>2. twoDb # Two!NoRow => twoDisk # Two!None
    BY <2>1 DEF Two!Quiet, TwoKept, TwoHeld
  <2> QED
    BY <1>1, <1>5, <2>2 DEF TwoKept, TwoHeld
<1> QED
    BY <1>1, <1>3, <1>4, <1>6, <1>7 DEF TwoInv

(* The invariant holds at the start.                                        *)
LEMMA TwoInit == Two!Init => TwoInv
<1> SUFFICES ASSUME Two!Init PROVE TwoInv
    OBVIOUS
<1>1. TwoTypes
  <2>1. FALSE \in BOOLEAN /\ 0 \in 0..TwoMaxTokens /\ 0 \in 0..TwoMaxFaults /\ 0 \in 0..TwoMaxRestarts
    BY TwoNumbers
  <2> QED
    BY <2>1 DEF Two!Init, TwoTypes
<1>2. TwoTyped /\ \A r \in TwoRequests : twoReq[r].pc = "idle"
    BY TwoNothing DEF Two!Init, TwoTyped
<1>3. TwoLocals
    BY <1>2 DEF TwoLocals
<1>4. TwoKept
    BY <1>2 DEF Two!Init, TwoKept
<1> QED
    BY <1>1, <1>2, <1>3, <1>4 DEF Two!Init, TwoInv

(* A step of a request that is under way.                                   *)
LEMMA TwoWorks == ASSUME TwoInv, NEW r \in TwoRequests, Two!Step(r) PROVE TwoInv'
BY TwoValidates, TwoLooksUp, TwoIssues, TwoFindsRunning, TwoLaunches, TwoLaunchFails, TwoBecomes, TwoNotReady, TwoRevokes, TwoSetsEnabled, TwoSetEnabledFails, TwoSubscribes, TwoSchedules, TwoStops, TwoUnsubscribes, TwoUnschedules, TwoClears, TwoDisables, TwoUnloads, TwoDeletes, TwoMovesIn, TwoInserts, TwoLoads, TwoReadsRecord, TwoHalts, TwoBacksUp, TwoReplaces, TwoUpdates, TwoRemovesNew, TwoPutsBack, TwoRestoresRow, TwoReloads, TwoCleansUp, TwoScans
   DEF Two!Step

(* Every step keeps the invariant.                                          *)
LEMMA TwoStep == TwoInv /\ Two!Next => TwoInv'
<1> SUFFICES ASSUME TwoInv, Two!Next PROVE TwoInv'
    OBVIOUS
<1>1. CASE \E r \in TwoRequests : Two!Start(r) \/ Two!Approve(r)
  <2>1. PICK r \in TwoRequests : Two!Begin(r, "start", "lookup") \/ Two!Begin(r, "approve", "validate")
    BY <1>1 DEF Two!Start, Two!Approve
  <2> QED
    BY <2>1, TwoBegins DEF TwoOps
<1>2. CASE \E r \in TwoRequests, op \in {"stop", "disable", "remove"} : Two!StopRequest(r, op)
  <2>1. PICK r \in TwoRequests, op \in {"stop", "disable", "remove"} : Two!Begin(r, op, "stop")
    BY <1>2 DEF Two!StopRequest
  <2> QED
    BY <2>1, TwoBegins DEF TwoOps
<1>3. CASE \E r \in TwoRequests, v \in TwoVersions : Two!Install(r, v)
    BY <1>3, TwoInstallBegins
<1>4. CASE \E r \in TwoRequests : Two!Step(r)
    BY <1>4, TwoWorks
<1>5. CASE Two!ProcessExits \/ Two!SupervisorRestarts
    BY <1>5, TwoProcessMoves
<1>6. CASE Two!PanelRestarts
    BY <1>6, TwoPanel
<1> QED
    BY <1>1, <1>2, <1>3, <1>4, <1>5, <1>6 DEF Two!Next

(* The invariant holds on while the part does nothing.                      *)
LEMMA TwoStutter == TwoInv /\ UNCHANGED twoVars => TwoInv'
BY DEF TwoInv, TwoTypes, TwoTyped, TwoLocals, TwoKept, TwoHeld, twoVars

(* What the invariant says.                                                 *)
LEMMA TwoShows ==
    /\ TwoInv => Two!TypeOK /\ Two!NewestTokenOnly
    /\ TwoInv /\ TwoKeeps => Two!DirectoryKept
<1>1. TwoInv => Two!TypeOK /\ Two!NewestTokenOnly
    BY TwoFields DEF TwoInv, TwoTypes, TwoTyped, TwoRow, TwoProcess, Two!TypeOK, Two!NewestTokenOnly
<1>2. TwoInv /\ TwoKeeps => Two!DirectoryKept
    BY DEF TwoInv, TwoKept, TwoHeld, Two!DirectoryKept, Two!Quiet
<1> QED
    BY <1>1, <1>2

-----------------------------------------------------------------------------
(* The supervisor. A start has its handle for itself until its health loop  *)
(* runs; the watcher of a process passes its wait only after the process    *)
(* has died; and the restart timer of a handle is armed only by that        *)
(* watcher, so a handle that is free is referred to by nothing.             *)
SupThreads == Users \cup Shutdowns \cup Procs
SupStatus == {"registered", "starting", "running", "degraded", "stopped", "disabled", "error", Nobody}

SupStarting == {"launch", "register", "wait", "ready", "return"}
SupUsing == SupStarting \cup {"signal", "await", "finish"}

(* A handle that is free is referred to by nothing, and its flags are fresh. *)
SupFree ==
    \A p \in Procs : life[p] = "free" =>
        /\ slot # p /\ pc[p] = "idle" /\ watch[p] = "none" /\ health[p] = "none"
        /\ ~killed[p] /\ ~exited[p] /\ ~stopped[p] /\ ~started[p]
        /\ \A t \in SupThreads : cur[t] # p

(* The watcher is beyond its wait only after the death of the process.      *)
SupWatched ==
    \A p \in Procs :
        /\ watch[p] = "none" => ~started[p] /\ ~exited[p]
        /\ watch[p] \in {"exited", "restart", "end"} => life[p] = "dead"
        /\ exited[p] => life[p] = "dead"
        /\ watch[p] = "exited" => exited[p]
        /\ watch[p] = "restart" => started[p] /\ exited[p]
        /\ life[p] = "created" => watch[p] = "none"
        /\ pc[p] # "idle" => watch[p] = "end" /\ started[p] /\ exited[p]

(* A start has its handle for itself.                                       *)
SupStarts ==
    \A t \in SupThreads :
        /\ pc[t] \in SupUsing => cur[t] \in Procs
        /\ pc[t] = "launch" => life[cur[t]] = "created" /\ watch[cur[t]] = "none"
        /\ pc[t] = "register" => life[cur[t]] \in {"alive", "dead"} /\ watch[cur[t]] = "none"
        /\ pc[t] \in {"wait", "ready", "return"} => watch[cur[t]] # "none"
        /\ pc[t] \in {"ready", "return"} => started[cur[t]]
        /\ pc[t] \in SupStarting =>
              \A u \in SupThreads : pc[u] \in SupStarting /\ cur[u] = cur[t] => u = t

SupChecked ==
    \A p \in Procs :
        life[p] = "alive" /\ started[p] /\ ~killed[p] /\ ~stopping =>
           \/ health[p] \in {"loop", "probing", "good"}
           \/ \E t \in SupThreads : cur[t] = p /\ pc[t] \in {"ready", "return"}

SupTypes ==
    /\ slot \in Procs \cup {Nobody} /\ stopping \in BOOLEAN /\ supRestarts \in Nat
    /\ life \in [Procs -> {"free", "created", "alive", "dead"}]
    /\ killed \in [Procs -> BOOLEAN] /\ exited \in [Procs -> BOOLEAN]
    /\ stopped \in [Procs -> BOOLEAN] /\ started \in [Procs -> BOOLEAN]
    /\ watch \in [Procs -> {"none", "waiting", "exited", "restart", "end"}]
    /\ health \in [Procs -> {"none", "loop", "probing", "good", "end"}]
    /\ fails \in [Procs -> 0..(FailThreshold - 1)]
    /\ pc \in [SupThreads -> {"idle", "armed", "check", "spawn", "launch", "register", "wait", "ready",
                              "return", "stopall", "signal", "await", "finish"}]
    /\ cur \in [SupThreads -> Procs \cup {Nobody}]

SupStates == state \in [Procs -> SupStatus] /\ pend \in [Sup!Actors -> SupStatus]

SupInv == SupTypes /\ SupStates /\ SupFree /\ SupWatched /\ SupStarts /\ SupChecked

(* The constants; a restart timer is a thread and no request.               *)
LEMMA SupNumbers ==
    /\ BreakerLimit \in Nat /\ FailThreshold \in Nat \ {0} /\ Nobody \notin Procs
    /\ (Users \cup Shutdowns) \cap Procs = {} /\ Procs \subseteq SupThreads
    /\ Users \subseteq SupThreads /\ Shutdowns \subseteq SupThreads
    /\ Sup!Threads = SupThreads /\ Sup!Callers = Users \cup Shutdowns
BY SupAssumption DEF Sup!SupervisorAssumption, SupThreads, Sup!Threads, Sup!Callers

(* Constants of the types.                                                  *)
LEMMA SupZero == 0 \in 0..(FailThreshold - 1) /\ TRUE \in BOOLEAN /\ FALSE \in BOOLEAN
BY SupNumbers

(* The invariant holds at the start.                                        *)
LEMMA SupInit == Sup!Init => SupInv
<1> SUFFICES ASSUME Sup!Init PROVE SupInv
    OBVIOUS
<1>1. SupStates
    BY DEF Sup!Init, SupStates, SupStatus
<1>2. FALSE \in BOOLEAN /\ 0 \in 0..(FailThreshold - 1)
    BY SupNumbers
<1>3. SupTypes
    BY <1>2, SupNumbers DEF Sup!Init, SupTypes
<1>4. SupFree
    BY SupNumbers DEF Sup!Init, SupFree
<1>5. SupWatched
    BY SupNumbers DEF Sup!Init, SupWatched
<1>6. SupStarts
    BY SupNumbers DEF Sup!Init, SupStarts, SupUsing, SupStarting
<1>7. SupChecked
    BY SupNumbers DEF Sup!Init, SupChecked
<1> QED
    BY <1>1, <1>3, <1>4, <1>5, <1>6, <1>7 DEF SupInv

(* setState, and the write of the status.                                   *)
LEMMA SupSets ==
    ASSUME SupStates, NEW a, NEW p, NEW s \in SupStatus, Sup!SetState(a, p, s)
    PROVE  SupStates'
<1>1. CASE UNCHANGED <<state, pend>>
    BY <1>1 DEF SupStates
<1>2. CASE /\ state' = [state EXCEPT ![p] = s]
           /\ pend' = [pend EXCEPT ![a] = s]
    BY <1>2 DEF SupStates
<1> QED
    BY <1>1, <1>2 DEF Sup!SetState

(* No status changes.                                                       *)
LEMMA SupSame == SupStates /\ UNCHANGED <<state, pend>> => SupStates'
BY DEF SupStates

(* The invariant holds on while only statuses are written.                  *)
LEMMA SupFrame ==
    ASSUME SupInv, SupStates',
           UNCHANGED <<slot, stopping, supRestarts, life, killed, exited, stopped, started, watch,
                       health, fails, pc, cur>>
    PROVE  SupInv'
BY DEF SupInv, SupTypes, SupFree, SupWatched, SupStarts, SupChecked

(* A start takes a free handle.                                             *)
LEMMA SupCreates == ASSUME SupInv, NEW t \in SupThreads, NEW p \in Procs, Sup!Create(t, p) PROVE SupInv'
<1>0. SupTypes /\ SupStates /\ SupFree /\ SupWatched /\ SupStarts /\ SupChecked
    BY DEF SupInv
<1>1. /\ pc[t] = "spawn"
      /\ life[p] = "free"
      /\ life' = [life EXCEPT ![p] = "created"]
      /\ cur' = [cur EXCEPT ![t] = p]
      /\ pc' = [pc EXCEPT ![t] = "launch"]
      /\ UNCHANGED <<slot, stopping, supRestarts, killed, exited, stopped, started, watch, health, fails>>
    BY DEF Sup!Create, Sup!At, Sup!Goto, Sup!procVars, Sup!healthVars, Sup!threadVars
<1>2. SupStates'
    BY <1>0, SupSets DEF Sup!Create, Sup!At, Sup!Goto, Sup!procVars, Sup!healthVars, Sup!threadVars, SupStatus
<1>3. SupTypes'
    BY <1>0, <1>1, SupNumbers DEF SupTypes
<1>4. SupFree'
    BY <1>0, <1>1, SupNumbers DEF SupTypes, SupFree, SupStarts, SupUsing, SupStarting
<1>5. SupWatched'
    BY <1>0, <1>1, SupNumbers DEF SupTypes, SupFree, SupWatched, SupStarts, SupUsing, SupStarting
<1>6. SupStarts'
    BY <1>0, <1>1, SupNumbers DEF SupTypes, SupFree, SupWatched, SupStarts, SupUsing, SupStarting
<1>7. SupChecked'
    BY <1>0, <1>1, SupNumbers DEF SupTypes, SupFree, SupWatched, SupStarts, SupChecked, SupUsing, SupStarting
<1> QED
    BY <1>2, <1>3, <1>4, <1>5, <1>6, <1>7 DEF SupInv

(* The process starts.                                                      *)
LEMMA SupLaunches == ASSUME SupInv, NEW t \in SupThreads, Sup!Launch(t) PROVE SupInv'
<1>0. SupTypes /\ SupStates /\ SupFree /\ SupWatched /\ SupStarts /\ SupChecked
    BY DEF SupInv
<1>1. /\ pc[t] = "launch"
      /\ life' = [life EXCEPT ![cur[t]] = "alive"]
      /\ pc' = [pc EXCEPT ![t] = "register"]
      /\ UNCHANGED <<slot, stopping, supRestarts, killed, exited, stopped, started, watch, health, fails, cur>>
    BY DEF Sup!Launch, Sup!At, Sup!Goto, Sup!procVars, Sup!healthVars, Sup!threadVars
<1>2. SupStates'
    BY <1>0, SupSame DEF Sup!Launch, Sup!At, Sup!Goto, Sup!procVars, Sup!healthVars, Sup!threadVars
<1>3. SupTypes'
    BY <1>0, <1>1, SupNumbers DEF SupTypes
<1>4. SupFree'
    BY <1>0, <1>1, SupNumbers DEF SupTypes, SupFree, SupStarts, SupUsing, SupStarting
<1>5. SupWatched'
    BY <1>0, <1>1, SupNumbers DEF SupTypes, SupFree, SupWatched, SupStarts, SupUsing, SupStarting
<1>6. SupStarts'
    BY <1>0, <1>1, SupNumbers DEF SupTypes, SupFree, SupWatched, SupStarts, SupUsing, SupStarting
<1>7. SupChecked'
    BY <1>0, <1>1, SupNumbers DEF SupTypes, SupFree, SupWatched, SupStarts, SupChecked, SupUsing, SupStarting
<1> QED
    BY <1>2, <1>3, <1>4, <1>5, <1>6, <1>7 DEF SupInv

(* The process does not start.                                              *)
LEMMA SupLaunchFails == ASSUME SupInv, NEW t \in SupThreads, Sup!LaunchFails(t) PROVE SupInv'
<1>0. SupTypes /\ SupStates /\ SupFree /\ SupWatched /\ SupStarts /\ SupChecked
    BY DEF SupInv
<1>1. /\ pc[t] = "launch"
      /\ life' = [life EXCEPT ![cur[t]] = "dead"]
      /\ watch' = [watch EXCEPT ![cur[t]] = "end"]
      /\ health' = [health EXCEPT ![cur[t]] = "end"]
      /\ pc' = [pc EXCEPT ![t] = "finish"]
      /\ UNCHANGED <<slot, stopping, supRestarts, killed, exited, stopped, started, fails, cur>>
    BY DEF Sup!LaunchFails, Sup!At, Sup!Goto, Sup!procVars, Sup!healthVars, Sup!threadVars
<1>2. SupStates'
    BY <1>0, SupSets DEF Sup!LaunchFails, Sup!At, Sup!Goto, Sup!procVars, Sup!healthVars, Sup!threadVars, SupStatus
<1>3. SupTypes'
    BY <1>0, <1>1, SupNumbers DEF SupTypes
<1>4. SupFree'
    BY <1>0, <1>1, SupNumbers DEF SupTypes, SupFree, SupStarts, SupUsing, SupStarting
<1>5. SupWatched'
    BY <1>0, <1>1, SupNumbers DEF SupTypes, SupFree, SupWatched, SupStarts, SupUsing, SupStarting
<1>6. SupStarts'
    BY <1>0, <1>1, SupNumbers DEF SupTypes, SupFree, SupWatched, SupStarts, SupUsing, SupStarting
<1>7. SupChecked'
    BY <1>0, <1>1, SupNumbers DEF SupTypes, SupFree, SupWatched, SupStarts, SupChecked, SupUsing, SupStarting
<1> QED
    BY <1>2, <1>3, <1>4, <1>5, <1>6, <1>7 DEF SupInv

(* The process is registered and watched.                                   *)
LEMMA SupRegisters == ASSUME SupInv, NEW t \in SupThreads, Sup!Register(t) PROVE SupInv'
<1>0. SupTypes /\ SupStates /\ SupFree /\ SupWatched /\ SupStarts /\ SupChecked
    BY DEF SupInv
<1>1. /\ pc[t] = "register"
      /\ slot' = cur[t]
      /\ watch' = [watch EXCEPT ![cur[t]] = "waiting"]
      /\ pc' = [pc EXCEPT ![t] = "wait"]
      /\ UNCHANGED <<stopping, supRestarts, life, killed, exited, stopped, started, health, fails, cur>>
    BY DEF Sup!Register, Sup!At, Sup!Goto, Sup!procVars, Sup!healthVars, Sup!threadVars
<1>2. SupStates'
    BY <1>0, SupSame DEF Sup!Register, Sup!At, Sup!Goto, Sup!procVars, Sup!healthVars, Sup!threadVars
<1>3. SupTypes'
    BY <1>0, <1>1, SupNumbers DEF SupTypes
<1>4. SupFree'
    BY <1>0, <1>1, SupNumbers DEF SupTypes, SupFree, SupStarts, SupUsing, SupStarting
<1>5. SupWatched'
    BY <1>0, <1>1, SupNumbers DEF SupTypes, SupFree, SupWatched, SupStarts, SupUsing, SupStarting
<1>6. SupStarts'
    BY <1>0, <1>1, SupNumbers DEF SupTypes, SupFree, SupWatched, SupStarts, SupUsing, SupStarting
<1>7. SupChecked'
    BY <1>0, <1>1, SupNumbers DEF SupTypes, SupFree, SupWatched, SupStarts, SupChecked, SupUsing, SupStarting
<1> QED
    BY <1>2, <1>3, <1>4, <1>5, <1>6, <1>7 DEF SupInv

(* The first health answer comes.                                           *)
LEMMA SupAnswers == ASSUME SupInv, NEW t \in SupThreads, Sup!Healthy(t) PROVE SupInv'
<1>0. SupTypes /\ SupStates /\ SupFree /\ SupWatched /\ SupStarts /\ SupChecked
    BY DEF SupInv
<1>1. /\ pc[t] = "wait"
      /\ started' = [started EXCEPT ![cur[t]] = TRUE]
      /\ supRestarts' = 0
      /\ pc' = [pc EXCEPT ![t] = "ready"]
      /\ UNCHANGED <<slot, stopping, life, killed, exited, stopped, watch, health, fails, cur>>
    BY DEF Sup!Healthy, Sup!At, Sup!Goto, Sup!procVars, Sup!healthVars, Sup!threadVars
<1>2. SupStates'
    BY <1>0, SupSame DEF Sup!Healthy, Sup!At, Sup!Goto, Sup!procVars, Sup!healthVars, Sup!threadVars
<1>3. SupTypes'
    BY <1>0, <1>1, SupNumbers DEF SupTypes
<1>4. SupFree'
    BY <1>0, <1>1, SupNumbers DEF SupTypes, SupFree, SupStarts, SupUsing, SupStarting
<1>5. SupWatched'
    BY <1>0, <1>1, SupNumbers DEF SupTypes, SupFree, SupWatched, SupStarts, SupUsing, SupStarting
<1>6. SupStarts'
    BY <1>0, <1>1, SupNumbers DEF SupTypes, SupFree, SupWatched, SupStarts, SupUsing, SupStarting
<1>7. SupChecked'
    BY <1>0, <1>1, SupNumbers DEF SupTypes, SupFree, SupWatched, SupStarts, SupChecked, SupUsing, SupStarting
<1> QED
    BY <1>2, <1>3, <1>4, <1>5, <1>6, <1>7 DEF SupInv

(* The start fails and kills the process.                                   *)
LEMMA SupStartFails == ASSUME SupInv, NEW t \in SupThreads, Sup!StartupFails(t) PROVE SupInv'
<1>0. SupTypes /\ SupStates /\ SupFree /\ SupWatched /\ SupStarts /\ SupChecked
    BY DEF SupInv
<1>1. /\ pc[t] = "wait"
      /\ killed' = [killed EXCEPT ![cur[t]] = TRUE]
      /\ health' = [health EXCEPT ![cur[t]] = "end"]
      /\ pc' = [pc EXCEPT ![t] = "finish"]
      /\ UNCHANGED <<slot, stopping, supRestarts, life, exited, stopped, started, watch, fails, cur>>
    BY DEF Sup!StartupFails, Sup!CancelProcess, Sup!At, Sup!Goto, Sup!procVars, Sup!healthVars, Sup!threadVars
<1>2. SupStates'
    BY <1>0, SupSets, SupSame DEF Sup!StartupFails, Sup!CancelProcess, Sup!At, Sup!Goto, Sup!procVars, Sup!healthVars, Sup!threadVars, SupStatus
<1>3. SupTypes'
    BY <1>0, <1>1, SupNumbers DEF SupTypes
<1>4. SupFree'
    BY <1>0, <1>1, SupNumbers DEF SupTypes, SupFree, SupStarts, SupUsing, SupStarting
<1>5. SupWatched'
    BY <1>0, <1>1, SupNumbers DEF SupTypes, SupFree, SupWatched, SupStarts, SupUsing, SupStarting
<1>6. SupStarts'
    BY <1>0, <1>1, SupNumbers DEF SupTypes, SupFree, SupWatched, SupStarts, SupUsing, SupStarting
<1>7. SupChecked'
    BY <1>0, <1>1, SupNumbers DEF SupTypes, SupFree, SupWatched, SupStarts, SupChecked, SupUsing, SupStarting
<1> QED
    BY <1>2, <1>3, <1>4, <1>5, <1>6, <1>7 DEF SupInv

(* The panel stops during the start: the process is killed.                 *)
LEMMA SupStartEnds == ASSUME SupInv, NEW t \in SupThreads, Sup!ContextDone(t) PROVE SupInv'
<1>0. SupTypes /\ SupStates /\ SupFree /\ SupWatched /\ SupStarts /\ SupChecked
    BY DEF SupInv
<1>1. /\ pc[t] = "wait"
      /\ killed' = [killed EXCEPT ![cur[t]] = TRUE]
      /\ health' = [health EXCEPT ![cur[t]] = "end"]
      /\ pc' = [pc EXCEPT ![t] = "idle"]
      /\ cur' = [cur EXCEPT ![t] = Nobody]
      /\ UNCHANGED <<slot, stopping, supRestarts, life, exited, stopped, started, watch, fails>>
    BY DEF Sup!ContextDone, Sup!CancelProcess, Sup!At, Sup!Return, Sup!procVars, Sup!healthVars, Sup!threadVars
<1>2. SupStates'
    BY <1>0, SupSame DEF Sup!ContextDone, Sup!CancelProcess, Sup!At, Sup!Return, Sup!procVars, Sup!healthVars, Sup!threadVars
<1>3. SupTypes'
    BY <1>0, <1>1, SupNumbers DEF SupTypes
<1>4. SupFree'
    BY <1>0, <1>1, SupNumbers DEF SupTypes, SupFree, SupStarts, SupUsing, SupStarting
<1>5. SupWatched'
    BY <1>0, <1>1, SupNumbers DEF SupTypes, SupFree, SupWatched, SupStarts, SupUsing, SupStarting
<1>6. SupStarts'
    BY <1>0, <1>1, SupNumbers DEF SupTypes, SupFree, SupWatched, SupStarts, SupUsing, SupStarting
<1>7. SupChecked'
    BY <1>0, <1>1, SupNumbers DEF SupTypes, SupFree, SupWatched, SupStarts, SupChecked, SupUsing, SupStarting
<1> QED
    BY <1>2, <1>3, <1>4, <1>5, <1>6, <1>7 DEF SupInv

(* The plugin is marked as running.                                         *)
LEMMA SupRuns == ASSUME SupInv, NEW t \in SupThreads, Sup!MarkRunning(t) PROVE SupInv'
<1>0. SupTypes /\ SupStates /\ SupFree /\ SupWatched /\ SupStarts /\ SupChecked
    BY DEF SupInv
<1>1. /\ pc[t] = "ready"
      /\ pc' = [pc EXCEPT ![t] = "return"]
      /\ UNCHANGED <<slot, stopping, supRestarts, life, killed, exited, stopped, started, watch, health, fails, cur>>
    BY DEF Sup!MarkRunning, Sup!At, Sup!Goto, Sup!procVars, Sup!healthVars, Sup!threadVars
<1>2. SupStates'
    BY <1>0, SupSets, SupSame DEF Sup!MarkRunning, Sup!At, Sup!Goto, Sup!procVars, Sup!healthVars, Sup!threadVars, SupStatus
<1>3. SupTypes'
    BY <1>0, <1>1, SupNumbers DEF SupTypes
<1>4. SupFree'
    BY <1>0, <1>1, SupNumbers DEF SupTypes, SupFree, SupStarts, SupUsing, SupStarting
<1>5. SupWatched'
    BY <1>0, <1>1, SupNumbers DEF SupTypes, SupFree, SupWatched, SupStarts, SupUsing, SupStarting
<1>6. SupStarts'
    BY <1>0, <1>1, SupNumbers DEF SupTypes, SupFree, SupWatched, SupStarts, SupUsing, SupStarting
<1>7. SupChecked'
    BY <1>0, <1>1, SupNumbers DEF SupTypes, SupFree, SupWatched, SupStarts, SupChecked, SupUsing, SupStarting
<1> QED
    BY <1>2, <1>3, <1>4, <1>5, <1>6, <1>7 DEF SupInv

(* The health loop takes over from the start.                               *)
LEMMA SupChecks == ASSUME SupInv, NEW t \in SupThreads, Sup!StartHealthLoop(t) PROVE SupInv'
<1>0. SupTypes /\ SupStates /\ SupFree /\ SupWatched /\ SupStarts /\ SupChecked
    BY DEF SupInv
<1>1. /\ pc[t] = "return"
      /\ health' = [health EXCEPT ![cur[t]] = "loop"]
      /\ pc' = [pc EXCEPT ![t] = "idle"]
      /\ cur' = [cur EXCEPT ![t] = Nobody]
      /\ UNCHANGED <<slot, stopping, supRestarts, life, killed, exited, stopped, started, watch, fails>>
    BY DEF Sup!StartHealthLoop, Sup!At, Sup!Return, Sup!procVars, Sup!healthVars, Sup!threadVars
<1>2. SupStates'
    BY <1>0, SupSame DEF Sup!StartHealthLoop, Sup!At, Sup!Return, Sup!procVars, Sup!healthVars, Sup!threadVars
<1>3. SupTypes'
    BY <1>0, <1>1, SupNumbers DEF SupTypes
<1>4. SupFree'
    BY <1>0, <1>1, SupNumbers DEF SupTypes, SupFree, SupStarts, SupUsing, SupStarting
<1>5. SupWatched'
    BY <1>0, <1>1, SupNumbers DEF SupTypes, SupFree, SupWatched, SupStarts, SupUsing, SupStarting
<1>6. SupStarts'
    BY <1>0, <1>1, SupNumbers DEF SupTypes, SupFree, SupWatched, SupStarts, SupUsing, SupStarting
<1>7. SupChecked'
    BY <1>0, <1>1, SupNumbers DEF SupTypes, SupFree, SupWatched, SupStarts, SupChecked, SupUsing, SupStarting
<1> QED
    BY <1>2, <1>3, <1>4, <1>5, <1>6, <1>7 DEF SupInv

(* The process ends.                                                        *)
LEMMA SupDies == ASSUME SupInv, NEW p \in Procs, Sup!Die(p) PROVE SupInv'
<1>0. SupTypes /\ SupStates /\ SupFree /\ SupWatched /\ SupStarts /\ SupChecked
    BY DEF SupInv
<1>1. /\ life[p] = "alive"
      /\ life' = [life EXCEPT ![p] = "dead"]
      /\ UNCHANGED <<slot, stopping, supRestarts, killed, exited, stopped, started, watch, health, fails, pc, cur>>
    BY DEF Sup!Die, Sup!procVars, Sup!healthVars, Sup!threadVars
<1>2. SupStates'
    BY <1>0, SupSame DEF Sup!Die, Sup!procVars, Sup!healthVars, Sup!threadVars
<1>3. SupTypes'
    BY <1>0, <1>1, SupNumbers DEF SupTypes
<1>4. SupFree'
    BY <1>0, <1>1, SupNumbers DEF SupTypes, SupFree, SupStarts, SupUsing, SupStarting
<1>5. SupWatched'
    BY <1>0, <1>1, SupNumbers DEF SupTypes, SupFree, SupWatched, SupStarts, SupUsing, SupStarting
<1>6. SupStarts'
    BY <1>0, <1>1, SupNumbers DEF SupTypes, SupFree, SupWatched, SupStarts, SupUsing, SupStarting
<1>7. SupChecked'
    BY <1>0, <1>1, SupNumbers DEF SupTypes, SupFree, SupWatched, SupStarts, SupChecked, SupUsing, SupStarting
<1> QED
    BY <1>2, <1>3, <1>4, <1>5, <1>6, <1>7 DEF SupInv

(* The watcher sees the exit.                                               *)
LEMMA SupReaps == ASSUME SupInv, NEW p \in Procs, Sup!Reap(p) PROVE SupInv'
<1>0. SupTypes /\ SupStates /\ SupFree /\ SupWatched /\ SupStarts /\ SupChecked
    BY DEF SupInv
<1>1. /\ life[p] = "dead" /\ watch[p] = "waiting"
      /\ exited' = [exited EXCEPT ![p] = TRUE]
      /\ watch' = [watch EXCEPT ![p] = "exited"]
      /\ UNCHANGED <<slot, stopping, supRestarts, life, killed, stopped, started, health, fails, pc, cur>>
    BY DEF Sup!Reap, Sup!procVars, Sup!healthVars, Sup!threadVars
<1>2. SupStates'
    BY <1>0, SupSame DEF Sup!Reap, Sup!procVars, Sup!healthVars, Sup!threadVars
<1>3. SupTypes'
    BY <1>0, <1>1, SupNumbers DEF SupTypes
<1>4. SupFree'
    BY <1>0, <1>1, SupNumbers DEF SupTypes, SupFree, SupStarts, SupUsing, SupStarting
<1>5. SupWatched'
    BY <1>0, <1>1, SupNumbers DEF SupTypes, SupFree, SupWatched, SupStarts, SupUsing, SupStarting
<1>6. SupStarts'
    BY <1>0, <1>1, SupNumbers DEF SupTypes, SupFree, SupWatched, SupStarts, SupUsing, SupStarting
<1>7. SupChecked'
    BY <1>0, <1>1, SupNumbers DEF SupTypes, SupFree, SupWatched, SupStarts, SupChecked, SupUsing, SupStarting
<1> QED
    BY <1>2, <1>3, <1>4, <1>5, <1>6, <1>7 DEF SupInv

(* The watcher decides what the exit means.                                 *)
LEMMA SupSeesExit == ASSUME SupInv, NEW p \in Procs, Sup!WatchExit(p) PROVE SupInv'
<1>0. SupTypes /\ SupStates /\ SupFree /\ SupWatched /\ SupStarts /\ SupChecked
    BY DEF SupInv
<1>1. /\ watch[p] = "exited"
      /\ \/ watch' = [watch EXCEPT ![p] = "end"]
         \/ started[p] /\ watch' = [watch EXCEPT ![p] = "restart"]
      /\ UNCHANGED <<slot, stopping, supRestarts, life, killed, exited, stopped, started, health, fails, pc, cur>>
    BY DEF Sup!WatchExit, Sup!DeservesRestart, Sup!procVars, Sup!healthVars, Sup!threadVars
<1>2. SupStates'
    BY <1>0, SupSets, SupSame DEF Sup!WatchExit, Sup!DeservesRestart, Sup!procVars, Sup!healthVars, Sup!threadVars, SupStatus
<1>3. SupTypes'
    BY <1>0, <1>1, SupNumbers DEF SupTypes
<1>4. SupFree'
    BY <1>0, <1>1, SupNumbers DEF SupTypes, SupFree, SupStarts, SupUsing, SupStarting
<1>5. SupWatched'
    BY <1>0, <1>1, SupNumbers DEF SupTypes, SupFree, SupWatched, SupStarts, SupUsing, SupStarting
<1>6. SupStarts'
    BY <1>0, <1>1, SupNumbers DEF SupTypes, SupFree, SupWatched, SupStarts, SupUsing, SupStarting
<1>7. SupChecked'
    BY <1>0, <1>1, SupNumbers DEF SupTypes, SupFree, SupWatched, SupStarts, SupChecked, SupUsing, SupStarting
<1> QED
    BY <1>2, <1>3, <1>4, <1>5, <1>6, <1>7 DEF SupInv

(* The watcher gives up, or arms the timer of the restart.                  *)
LEMMA SupCounts == ASSUME SupInv, NEW p \in Procs, NEW x \in BOOLEAN, Sup!Restart(p, x) PROVE SupInv'
<1>0. SupTypes /\ SupStates /\ SupFree /\ SupWatched /\ SupStarts /\ SupChecked
    BY DEF SupInv
<1>1. /\ watch[p] = "restart"
      /\ supRestarts' = 1 \/ supRestarts' = supRestarts + 1
      /\ \/ pc' = [pc EXCEPT ![p] = "idle"]
         \/ pc' = [pc EXCEPT ![p] = "armed"]
      /\ watch' = [watch EXCEPT ![p] = "end"]
      /\ UNCHANGED <<slot, stopping, life, killed, exited, stopped, started, health, fails, cur>>
    BY DEF Sup!Restart, Sup!AfterCount, Sup!procVars, Sup!healthVars, Sup!threadVars
<1>2. SupStates'
    BY <1>0, SupSets, SupSame DEF Sup!Restart, Sup!AfterCount, Sup!procVars, Sup!healthVars, Sup!threadVars, SupStatus
<1>3. SupTypes'
    BY <1>0, <1>1, SupNumbers DEF SupTypes
<1>4. SupFree'
    BY <1>0, <1>1, SupNumbers DEF SupTypes, SupFree, SupStarts, SupUsing, SupStarting
<1>5. SupWatched'
    BY <1>0, <1>1, SupNumbers DEF SupTypes, SupFree, SupWatched, SupStarts, SupUsing, SupStarting
<1>6. SupStarts'
    BY <1>0, <1>1, SupNumbers DEF SupTypes, SupFree, SupWatched, SupStarts, SupUsing, SupStarting
<1>7. SupChecked'
    BY <1>0, <1>1, SupNumbers DEF SupTypes, SupFree, SupWatched, SupStarts, SupChecked, SupUsing, SupStarting
<1> QED
    BY <1>2, <1>3, <1>4, <1>5, <1>6, <1>7 DEF SupInv

(* The health loop ends with the process, or probes.                        *)
LEMMA SupTicks == ASSUME SupInv, NEW p \in Procs, Sup!HealthTick(p) PROVE SupInv'
<1>0. SupTypes /\ SupStates /\ SupFree /\ SupWatched /\ SupStarts /\ SupChecked
    BY DEF SupInv
<1>1. /\ health[p] = "loop"
      /\ \/ (exited[p] \/ stopping) /\ health' = [health EXCEPT ![p] = "end"]
         \/ health' = [health EXCEPT ![p] = "probing"]
      /\ UNCHANGED <<slot, stopping, supRestarts, life, killed, exited, stopped, started, watch, fails, pc, cur>>
    BY DEF Sup!HealthTick, Sup!procVars, Sup!healthVars, Sup!threadVars
<1>2. SupStates'
    BY <1>0, SupSame DEF Sup!HealthTick, Sup!procVars, Sup!healthVars, Sup!threadVars
<1>3. SupTypes'
    BY <1>0, <1>1, SupNumbers DEF SupTypes
<1>4. SupFree'
    BY <1>0, <1>1, SupNumbers DEF SupTypes, SupFree, SupStarts, SupUsing, SupStarting
<1>5. SupWatched'
    BY <1>0, <1>1, SupNumbers DEF SupTypes, SupFree, SupWatched, SupStarts, SupUsing, SupStarting
<1>6. SupStarts'
    BY <1>0, <1>1, SupNumbers DEF SupTypes, SupFree, SupWatched, SupStarts, SupUsing, SupStarting
<1>7. SupChecked'
    BY <1>0, <1>1, SupNumbers DEF SupTypes, SupFree, SupWatched, SupStarts, SupChecked, SupUsing, SupStarting
<1> QED
    BY <1>2, <1>3, <1>4, <1>5, <1>6, <1>7 DEF SupInv

(* The probe is answered.                                                   *)
LEMMA SupProbes == ASSUME SupInv, NEW p \in Procs, Sup!HealthAnswer(p) PROVE SupInv'
<1>0. SupTypes /\ SupStates /\ SupFree /\ SupWatched /\ SupStarts /\ SupChecked
    BY DEF SupInv
<1>1. /\ health[p] = "probing"
      /\ health' = [health EXCEPT ![p] = "good"]
      /\ UNCHANGED <<slot, stopping, supRestarts, life, killed, exited, stopped, started, watch, fails, pc, cur>>
    BY DEF Sup!HealthAnswer, Sup!procVars, Sup!healthVars, Sup!threadVars
<1>2. SupStates'
    BY <1>0, SupSame DEF Sup!HealthAnswer, Sup!procVars, Sup!healthVars, Sup!threadVars
<1>3. SupTypes'
    BY <1>0, <1>1, SupNumbers DEF SupTypes
<1>4. SupFree'
    BY <1>0, <1>1, SupNumbers DEF SupTypes, SupFree, SupStarts, SupUsing, SupStarting
<1>5. SupWatched'
    BY <1>0, <1>1, SupNumbers DEF SupTypes, SupFree, SupWatched, SupStarts, SupUsing, SupStarting
<1>6. SupStarts'
    BY <1>0, <1>1, SupNumbers DEF SupTypes, SupFree, SupWatched, SupStarts, SupUsing, SupStarting
<1>7. SupChecked'
    BY <1>0, <1>1, SupNumbers DEF SupTypes, SupFree, SupWatched, SupStarts, SupChecked, SupUsing, SupStarting
<1> QED
    BY <1>2, <1>3, <1>4, <1>5, <1>6, <1>7 DEF SupInv

(* The plugin is healthy.                                                   *)
LEMMA SupGood == ASSUME SupInv, NEW p \in Procs, Sup!HealthGood(p) PROVE SupInv'
<1>0. SupTypes /\ SupStates /\ SupFree /\ SupWatched /\ SupStarts /\ SupChecked
    BY DEF SupInv
<1>1. /\ health[p] = "good"
      /\ health' = [health EXCEPT ![p] = "loop"]
      /\ fails' = [fails EXCEPT ![p] = 0]
      /\ UNCHANGED <<slot, stopping, supRestarts, life, killed, exited, stopped, started, watch, pc, cur>>
    BY DEF Sup!HealthGood, Sup!procVars, Sup!healthVars, Sup!threadVars
<1>2. SupStates'
    BY <1>0, SupSets, SupSame DEF Sup!HealthGood, Sup!procVars, Sup!healthVars, Sup!threadVars, SupStatus
<1>3. SupTypes'
    BY <1>0, <1>1, SupNumbers, SupZero DEF SupTypes
<1>4. SupFree'
    BY <1>0, <1>1, SupNumbers DEF SupTypes, SupFree, SupStarts, SupUsing, SupStarting
<1>5. SupWatched'
    BY <1>0, <1>1, SupNumbers DEF SupTypes, SupFree, SupWatched, SupStarts, SupUsing, SupStarting
<1>6. SupStarts'
    BY <1>0, <1>1, SupNumbers DEF SupTypes, SupFree, SupWatched, SupStarts, SupUsing, SupStarting
<1>7. SupChecked'
    BY <1>0, <1>1, SupNumbers DEF SupTypes, SupFree, SupWatched, SupStarts, SupChecked, SupUsing, SupStarting
<1> QED
    BY <1>2, <1>3, <1>4, <1>5, <1>6, <1>7 DEF SupInv

(* The probe fails, perhaps once too often.                                 *)
LEMMA SupBad == ASSUME SupInv, NEW p \in Procs, Sup!HealthBad(p) PROVE SupInv'
<1>0. SupTypes /\ SupStates /\ SupFree /\ SupWatched /\ SupStarts /\ SupChecked
    BY DEF SupInv
<1>1. /\ health[p] = "probing"
      /\ \/ /\ killed' = [killed EXCEPT ![p] = TRUE] /\ fails' = [fails EXCEPT ![p] = 0]
            /\ health' = [health EXCEPT ![p] = "end"]
         \/ /\ fails' = [fails EXCEPT ![p] = fails[p] + 1] /\ ~(fails[p] + 1 >= FailThreshold)
            /\ health' = [health EXCEPT ![p] = "loop"] /\ UNCHANGED killed
      /\ UNCHANGED <<slot, stopping, supRestarts, life, exited, stopped, started, watch, pc, cur>>
    BY <1>0 DEF Sup!HealthBad, Sup!CancelProcess, Sup!TooManyFails, Sup!procVars, Sup!healthVars, Sup!threadVars
<1>2. SupStates'
    BY <1>0, SupSame DEF Sup!HealthBad, Sup!CancelProcess, Sup!TooManyFails, Sup!procVars, Sup!healthVars, Sup!threadVars
<1>3. SupTypes'
  <2>1. fails \in [Procs -> 0..(FailThreshold - 1)] /\ killed \in [Procs -> BOOLEAN]
        /\ health \in [Procs -> {"none", "loop", "probing", "good", "end"}]
    BY <1>0 DEF SupTypes
  <2>2. fails' \in [Procs -> 0..(FailThreshold - 1)]
    <3>1. ~(fails[p] + 1 >= FailThreshold) => fails[p] + 1 \in 0..(FailThreshold - 1)
      BY <2>1, SupNumbers
    <3> QED
      BY <1>1, <2>1, <3>1, SupZero
  <2>3. killed' \in [Procs -> BOOLEAN] /\ health' \in [Procs -> {"none", "loop", "probing", "good", "end"}]
    BY <1>1, <2>1
  <2> QED
    BY <1>0, <1>1, <2>2, <2>3 DEF SupTypes
<1>4. SupFree'
    BY <1>0, <1>1, SupNumbers DEF SupTypes, SupFree, SupStarts, SupUsing, SupStarting
<1>5. SupWatched'
    BY <1>0, <1>1, SupNumbers DEF SupTypes, SupFree, SupWatched, SupStarts, SupUsing, SupStarting
<1>6. SupStarts'
    BY <1>0, <1>1, SupNumbers DEF SupTypes, SupFree, SupWatched, SupStarts, SupUsing, SupStarting
<1>7. SupChecked'
    BY <1>0, <1>1, SupNumbers DEF SupTypes, SupFree, SupWatched, SupStarts, SupChecked, SupUsing, SupStarting
<1> QED
    BY <1>2, <1>3, <1>4, <1>5, <1>6, <1>7 DEF SupInv

(* StopPlugin takes the process out of the registry.                        *)
LEMMA SupDetaches == ASSUME SupInv, NEW u \in Users \cup Shutdowns, Sup!CallStop(u) \/ Sup!StopAllPlugin(u) PROVE SupInv'
<1>0. SupTypes /\ SupStates /\ SupFree /\ SupWatched /\ SupStarts /\ SupChecked
    BY DEF SupInv
<1>1. /\ pc[u] \in {"idle", "stopall"}
      /\ \/ /\ slot = Nobody /\ pc' = [pc EXCEPT ![u] = "idle"] /\ cur' = [cur EXCEPT ![u] = Nobody]
         \/ /\ slot # Nobody /\ pc' = [pc EXCEPT ![u] = "signal"] /\ cur' = [cur EXCEPT ![u] = slot]
      /\ slot' = Nobody
      /\ UNCHANGED <<stopping, supRestarts, life, killed, exited, stopped, started, watch, health, fails>>
    BY DEF Sup!CallStop, Sup!StopAllPlugin, Sup!Detach, Sup!Return, Sup!At, Sup!Goto, Sup!procVars, Sup!healthVars, Sup!threadVars
<1>2. SupStates'
    BY <1>0, SupSame DEF Sup!CallStop, Sup!StopAllPlugin, Sup!Detach, Sup!Return, Sup!At, Sup!Goto, Sup!procVars, Sup!healthVars, Sup!threadVars
<1>3. SupTypes'
    BY <1>0, <1>1, SupNumbers DEF SupTypes
<1>4. SupFree'
    BY <1>0, <1>1, SupNumbers DEF SupTypes, SupFree, SupStarts, SupUsing, SupStarting
<1>5. SupWatched'
    BY <1>0, <1>1, SupNumbers DEF SupTypes, SupFree, SupWatched, SupStarts, SupUsing, SupStarting
<1>6. SupStarts'
    BY <1>0, <1>1, SupNumbers DEF SupTypes, SupFree, SupWatched, SupStarts, SupUsing, SupStarting
<1>7. SupChecked'
    BY <1>0, <1>1, SupNumbers DEF SupTypes, SupFree, SupWatched, SupStarts, SupChecked, SupUsing, SupStarting
<1> QED
    BY <1>2, <1>3, <1>4, <1>5, <1>6, <1>7 DEF SupInv

(* StopPlugin marks the process as stopped and interrupts it.               *)
LEMMA SupSignals == ASSUME SupInv, NEW u \in Users \cup Shutdowns, Sup!Signal(u) PROVE SupInv'
<1>0. SupTypes /\ SupStates /\ SupFree /\ SupWatched /\ SupStarts /\ SupChecked
    BY DEF SupInv
<1>1. /\ pc[u] = "signal"
      /\ stopped' = [stopped EXCEPT ![cur[u]] = TRUE]
      /\ pc' = [pc EXCEPT ![u] = "await"]
      /\ UNCHANGED <<slot, stopping, supRestarts, life, killed, exited, started, watch, health, fails, cur>>
    BY DEF Sup!Signal, Sup!At, Sup!Goto, Sup!procVars, Sup!healthVars, Sup!threadVars
<1>2. SupStates'
    BY <1>0, SupSame DEF Sup!Signal, Sup!At, Sup!Goto, Sup!procVars, Sup!healthVars, Sup!threadVars
<1>3. SupTypes'
    BY <1>0, <1>1, SupNumbers DEF SupTypes
<1>4. SupFree'
    BY <1>0, <1>1, SupNumbers DEF SupTypes, SupFree, SupStarts, SupUsing, SupStarting
<1>5. SupWatched'
    BY <1>0, <1>1, SupNumbers DEF SupTypes, SupFree, SupWatched, SupStarts, SupUsing, SupStarting
<1>6. SupStarts'
    BY <1>0, <1>1, SupNumbers DEF SupTypes, SupFree, SupWatched, SupStarts, SupUsing, SupStarting
<1>7. SupChecked'
    BY <1>0, <1>1, SupNumbers DEF SupTypes, SupFree, SupWatched, SupStarts, SupChecked, SupUsing, SupStarting
<1> QED
    BY <1>2, <1>3, <1>4, <1>5, <1>6, <1>7 DEF SupInv

(* StopPlugin kills it after ten seconds.                                   *)
LEMMA SupKills == ASSUME SupInv, NEW u \in Users \cup Shutdowns, Sup!KillAfterGrace(u) PROVE SupInv'
<1>0. SupTypes /\ SupStates /\ SupFree /\ SupWatched /\ SupStarts /\ SupChecked
    BY DEF SupInv
<1>1. /\ pc[u] = "await"
      /\ killed' = [killed EXCEPT ![cur[u]] = TRUE]
      /\ UNCHANGED <<slot, stopping, supRestarts, life, exited, stopped, started, watch, health, fails, pc, cur>>
    BY DEF Sup!KillAfterGrace, Sup!At, Sup!Goto, Sup!procVars, Sup!healthVars, Sup!threadVars
<1>2. SupStates'
    BY <1>0, SupSame DEF Sup!KillAfterGrace, Sup!At, Sup!Goto, Sup!procVars, Sup!healthVars, Sup!threadVars
<1>3. SupTypes'
    BY <1>0, <1>1, SupNumbers DEF SupTypes
<1>4. SupFree'
    BY <1>0, <1>1, SupNumbers DEF SupTypes, SupFree, SupStarts, SupUsing, SupStarting
<1>5. SupWatched'
    BY <1>0, <1>1, SupNumbers DEF SupTypes, SupFree, SupWatched, SupStarts, SupUsing, SupStarting
<1>6. SupStarts'
    BY <1>0, <1>1, SupNumbers DEF SupTypes, SupFree, SupWatched, SupStarts, SupUsing, SupStarting
<1>7. SupChecked'
    BY <1>0, <1>1, SupNumbers DEF SupTypes, SupFree, SupWatched, SupStarts, SupChecked, SupUsing, SupStarting
<1> QED
    BY <1>2, <1>3, <1>4, <1>5, <1>6, <1>7 DEF SupInv

(* StopPlugin has seen the exit.                                            *)
LEMMA SupStopped == ASSUME SupInv, NEW u \in Users \cup Shutdowns, Sup!StopReturns(u) PROVE SupInv'
<1>0. SupTypes /\ SupStates /\ SupFree /\ SupWatched /\ SupStarts /\ SupChecked
    BY DEF SupInv
<1>1. /\ pc[u] = "await"
      /\ pc' = [pc EXCEPT ![u] = "finish"]
      /\ UNCHANGED <<slot, stopping, supRestarts, life, killed, exited, stopped, started, watch, health, fails, cur>>
    BY DEF Sup!StopReturns, Sup!At, Sup!Goto, Sup!procVars, Sup!healthVars, Sup!threadVars
<1>2. SupStates'
    BY <1>0, SupSets, SupSame DEF Sup!StopReturns, Sup!At, Sup!Goto, Sup!procVars, Sup!healthVars, Sup!threadVars, SupStatus
<1>3. SupTypes'
    BY <1>0, <1>1, SupNumbers DEF SupTypes
<1>4. SupFree'
    BY <1>0, <1>1, SupNumbers DEF SupTypes, SupFree, SupStarts, SupUsing, SupStarting
<1>5. SupWatched'
    BY <1>0, <1>1, SupNumbers DEF SupTypes, SupFree, SupWatched, SupStarts, SupUsing, SupStarting
<1>6. SupStarts'
    BY <1>0, <1>1, SupNumbers DEF SupTypes, SupFree, SupWatched, SupStarts, SupUsing, SupStarting
<1>7. SupChecked'
    BY <1>0, <1>1, SupNumbers DEF SupTypes, SupFree, SupWatched, SupStarts, SupChecked, SupUsing, SupStarting
<1> QED
    BY <1>2, <1>3, <1>4, <1>5, <1>6, <1>7 DEF SupInv

(* The shutdown begins.                                                     *)
LEMMA SupShutsDown == ASSUME SupInv, NEW u \in Users \cup Shutdowns, Sup!CallStopAll(u) PROVE SupInv'
<1>0. SupTypes /\ SupStates /\ SupFree /\ SupWatched /\ SupStarts /\ SupChecked
    BY DEF SupInv
<1>1. /\ pc[u] = "idle"
      /\ stopping' = TRUE
      /\ pc' = [pc EXCEPT ![u] = "stopall"]
      /\ UNCHANGED <<slot, supRestarts, life, killed, exited, stopped, started, watch, health, fails, cur>>
    BY DEF Sup!CallStopAll, Sup!At, Sup!Goto, Sup!procVars, Sup!healthVars, Sup!threadVars
<1>2. SupStates'
    BY <1>0, SupSame DEF Sup!CallStopAll, Sup!At, Sup!Goto, Sup!procVars, Sup!healthVars, Sup!threadVars
<1>3. SupTypes'
    BY <1>0, <1>1, SupNumbers DEF SupTypes
<1>4. SupFree'
    BY <1>0, <1>1, SupNumbers DEF SupTypes, SupFree, SupStarts, SupUsing, SupStarting
<1>5. SupWatched'
    BY <1>0, <1>1, SupNumbers DEF SupTypes, SupFree, SupWatched, SupStarts, SupUsing, SupStarting
<1>6. SupStarts'
    BY <1>0, <1>1, SupNumbers DEF SupTypes, SupFree, SupWatched, SupStarts, SupUsing, SupStarting
<1>7. SupChecked'
    BY <1>0, <1>1, SupNumbers DEF SupTypes, SupFree, SupWatched, SupStarts, SupChecked, SupUsing, SupStarting
<1> QED
    BY <1>2, <1>3, <1>4, <1>5, <1>6, <1>7 DEF SupInv

(* A thread moves between points that have no process.                      *)
LEMMA SupMoves == ASSUME SupInv, NEW t \in SupThreads, t \in Procs => pc[t] # "idle",
           Sup!CallStart(t) \/ Sup!Check(t) \/ Sup!ExecMissing(t) \/ Sup!Finish(t) \/ Sup!TimerFires(t) PROVE SupInv'
<1>0. SupTypes /\ SupStates /\ SupFree /\ SupWatched /\ SupStarts /\ SupChecked
    BY DEF SupInv
<1>1. /\ pc[t] \in {"idle", "check", "spawn", "finish", "armed"}
      /\ cur' = cur \/ cur' = [cur EXCEPT ![t] = Nobody]
      /\ \/ pc' = [pc EXCEPT ![t] = "idle"] \/ pc' = [pc EXCEPT ![t] = "check"]
         \/ pc' = [pc EXCEPT ![t] = "spawn"]
      /\ UNCHANGED <<slot, stopping, supRestarts, life, killed, exited, stopped, started, watch, health, fails>>
    BY DEF Sup!CallStart, Sup!Check, Sup!ExecMissing, Sup!Finish, Sup!TimerFires, Sup!Return, Sup!At, Sup!Goto, Sup!procVars, Sup!healthVars, Sup!threadVars
<1>2. SupStates'
    BY <1>0, SupSame DEF Sup!CallStart, Sup!Check, Sup!ExecMissing, Sup!Finish, Sup!TimerFires, Sup!Return, Sup!At, Sup!Goto, Sup!procVars, Sup!healthVars, Sup!threadVars
<1>3. SupTypes'
    BY <1>0, <1>1, SupNumbers DEF SupTypes
<1>4. SupFree'
    BY <1>0, <1>1, SupNumbers DEF SupTypes, SupFree, SupStarts, SupUsing, SupStarting
<1>5. SupWatched'
    BY <1>0, <1>1, SupNumbers DEF SupTypes, SupFree, SupWatched, SupStarts, SupUsing, SupStarting
<1>6. SupStarts'
    BY <1>0, <1>1, SupNumbers DEF SupTypes, SupFree, SupWatched, SupStarts, SupUsing, SupStarting
<1>7. SupChecked'
    BY <1>0, <1>1, SupNumbers DEF SupTypes, SupFree, SupWatched, SupStarts, SupChecked, SupUsing, SupStarting
<1> QED
    BY <1>2, <1>3, <1>4, <1>5, <1>6, <1>7 DEF SupInv

(* The handle of a dead process becomes free.                               *)
LEMMA SupCollects == ASSUME SupInv, NEW p \in Procs, Sup!Collect(p) PROVE SupInv'
<1>0. SupTypes /\ SupStates /\ SupFree /\ SupWatched /\ SupStarts /\ SupChecked
    BY DEF SupInv
<1>1. /\ life[p] = "dead" /\ slot # p /\ pc[p] = "idle"
      /\ \A t \in SupThreads : cur[t] # p
      /\ life' = [life EXCEPT ![p] = "free"]
      /\ killed' = [killed EXCEPT ![p] = FALSE]
      /\ exited' = [exited EXCEPT ![p] = FALSE]
      /\ stopped' = [stopped EXCEPT ![p] = FALSE]
      /\ started' = [started EXCEPT ![p] = FALSE]
      /\ watch' = [watch EXCEPT ![p] = "none"]
      /\ health' = [health EXCEPT ![p] = "none"]
      /\ fails' = [fails EXCEPT ![p] = 0]
      /\ UNCHANGED <<slot, stopping, supRestarts, pc, cur>>
    BY SupNumbers DEF Sup!Collect, Sup!procVars, Sup!healthVars, Sup!threadVars
<1>2. SupStates'
  <2>1. state' = [state EXCEPT ![p] = Nobody] /\ pend' = pend
    BY DEF Sup!Collect
  <2>2. Nobody \in SupStatus
    BY DEF SupStatus
  <2> QED
    BY <1>0, <2>1, <2>2 DEF SupStates
<1>3. SupTypes'
    BY <1>0, <1>1, SupNumbers, SupZero DEF SupTypes
<1>4. SupFree'
    BY <1>0, <1>1, SupNumbers DEF SupTypes, SupFree, SupStarts, SupUsing, SupStarting
<1>5. SupWatched'
    BY <1>0, <1>1, SupNumbers DEF SupTypes, SupFree, SupWatched, SupStarts, SupUsing, SupStarting
<1>6. SupStarts'
    BY <1>0, <1>1, SupNumbers DEF SupTypes, SupFree, SupWatched, SupStarts, SupUsing, SupStarting
<1>7. SupChecked'
    BY <1>0, <1>1, SupNumbers DEF SupTypes, SupFree, SupWatched, SupStarts, SupChecked, SupUsing, SupStarting
<1> QED
    BY <1>2, <1>3, <1>4, <1>5, <1>6, <1>7 DEF SupInv

(* A status is written to the database.                                     *)
LEMMA SupWrites == ASSUME SupInv, NEW a, Sup!WriteStatus(a) PROVE SupInv'
<1>1. pend' = [pend EXCEPT ![a] = Nobody] /\ UNCHANGED state /\ Nobody \in SupStatus
    BY DEF Sup!WriteStatus, Sup!procVars, SupStatus
<1>2. SupStates'
    BY <1>1 DEF SupInv, SupStates
<1>3. UNCHANGED <<slot, stopping, supRestarts, life, killed, exited, stopped, started, watch,
                  health, fails, pc, cur>>
    BY DEF Sup!WriteStatus, Sup!procVars, Sup!healthVars, Sup!threadVars
<1> QED
    BY <1>2, <1>3, SupFrame

(* The invariant holds on while the part does nothing.                      *)
LEMMA SupStutter == SupInv /\ UNCHANGED supVars => SupInv'
<1> SUFFICES ASSUME SupInv, UNCHANGED supVars PROVE SupInv'
    OBVIOUS
<1>1. UNCHANGED <<state, pend>> /\
      UNCHANGED <<slot, stopping, supRestarts, life, killed, exited, stopped, started, watch,
                  health, fails, pc, cur>>
    BY DEF supVars
<1>2. SupStates'
    BY <1>1, SupSame DEF SupInv
<1> QED
    BY <1>1, <1>2, SupFrame

(* Every step of the supervisor keeps the invariant.                        *)
LEMMA SupStep == SupInv /\ Sup!Next => SupInv'
<1> SUFFICES ASSUME SupInv, Sup!Next PROVE SupInv'
    OBVIOUS
<1>1. ASSUME NEW t \in SupThreads, Sup!EnsureRunning(t) PROVE SupInv'
  <2>1. CASE Sup!Check(t) \/ Sup!ExecMissing(t) \/ Sup!Finish(t)
    <3>1. pc[t] # "idle"
      BY <2>1 DEF Sup!Check, Sup!ExecMissing, Sup!Finish, Sup!At
    <3> QED
      BY <2>1, <3>1, SupMoves
  <2> QED
    BY <1>1, <2>1, SupCreates, SupLaunches, SupLaunchFails, SupRegisters, SupAnswers, SupStartFails,
       SupStartEnds, SupRuns, SupChecks DEF Sup!EnsureRunning
<1>2. ASSUME NEW u \in Users \cup Shutdowns, Sup!StopPlugin(u) PROVE SupInv'
    BY <1>2, SupDetaches, SupSignals, SupKills, SupStopped DEF Sup!StopPlugin
<1>3. ASSUME NEW u \in Users \cup Shutdowns, Sup!Request(u) PROVE SupInv'
    BY <1>1, <1>2, <1>3, SupWrites DEF Sup!Request, SupThreads
<1>4. ASSUME NEW p \in Procs, Sup!Timer(p) PROVE SupInv'
  <2>1. CASE Sup!TimerFires(p)
    <3>1. pc[p] # "idle" /\ p \in SupThreads
      BY <2>1 DEF Sup!TimerFires, Sup!At, SupThreads
    <3> QED
      BY <2>1, <3>1, SupMoves
  <2> QED
    BY <1>1, <1>4, <2>1, SupWrites DEF Sup!Timer, SupThreads
<1>5. ASSUME NEW p \in Procs, Sup!Watcher(p) \/ Sup!HealthLoop(p) PROVE SupInv'
    BY <1>5, SupReaps, SupSeesExit, SupCounts, SupTicks, SupProbes, SupGood, SupBad, SupWrites
       DEF Sup!Watcher, Sup!HealthLoop
<1>6. ASSUME NEW u \in Users, Sup!CallStart(u) PROVE SupInv'
  <2>1. u \in SupThreads /\ u \notin Procs
    BY SupNumbers
  <2> QED
    BY <1>6, <2>1, SupMoves
<1>7. ASSUME NEW u \in Users, Sup!CallStop(u) PROVE SupInv'
    BY <1>7, SupDetaches
<1>8. ASSUME NEW u \in Shutdowns, Sup!CallStopAll(u) PROVE SupInv'
    BY <1>8, SupShutsDown
<1>9. Sup!Callers = Users \cup Shutdowns
    BY SupNumbers
<1> QED
    BY <1>3, <1>4, <1>5, <1>6, <1>7, <1>8, <1>9, SupDies, SupCollects DEF Sup!Next

(* What the invariant says: the types, that every process that runs is      *)
(* watched and checked, and that only crashes restart.                      *)
LEMMA SupShows == SupInv => Sup!TypeOK /\ Sup!Supervised /\ Sup!OnlyCrashesRestart
<1> SUFFICES ASSUME SupInv PROVE Sup!TypeOK /\ Sup!Supervised /\ Sup!OnlyCrashesRestart
    OBVIOUS
<1>0. SupTypes /\ SupStates /\ SupWatched /\ SupChecked
    BY DEF SupInv
<1>1. SupStatus = Sup!Status \cup {Nobody} /\ Sup!Threads = SupThreads
    BY SupNumbers DEF SupStatus, Sup!Status
<1>2. Sup!TypeOK
  <2>1. state \in [Procs -> Sup!Status \cup {Nobody}] /\ pend \in [Sup!Actors -> Sup!Status \cup {Nobody}]
    BY <1>0, <1>1 DEF SupStates
  <2> QED
    BY <1>0, <1>1, <2>1 DEF Sup!TypeOK, SupTypes
<1>3. Sup!Supervised
  <2> SUFFICES ASSUME NEW p \in Procs, life[p] = "alive", started[p], ~killed[p], ~stopped[p], ~stopping
               PROVE  /\ watch[p] = "waiting"
                      /\ \/ health[p] \in {"loop", "probing", "good"}
                         \/ \E t \in SupThreads : cur[t] = p /\ pc[t] \in {"ready", "return"}
    BY <1>1 DEF Sup!Supervised, Sup!Alive
  <2>1. watch[p] = "waiting"
    BY <1>0 DEF SupTypes, SupWatched
  <2> QED
    BY <1>0, <2>1 DEF SupChecked
<1>4. Sup!OnlyCrashesRestart
    BY <1>0 DEF Sup!OnlyCrashesRestart, SupWatched
<1> QED
    BY <1>2, <1>3, <1>4

-----------------------------------------------------------------------------
(* The parts together. The invariant keeps those of all parts, also of the  *)
(* parts that a behaviour does not move.                                    *)
IInv == part \in Parts /\ OneInv /\ TwoInv /\ SupInv

(* The invariant holds in the initial states.                               *)
LEMMA IInit == Init => IInv
BY OneInit, TwoInit, SupInit DEF Init, IInv

(* A step of one part keeps its invariant and leaves the other parts alone. *)
LEMMA IStep == IInv /\ [Next]_vars => IInv'
<1> SUFFICES ASSUME IInv, [Next]_vars PROVE IInv'
    OBVIOUS
<1>1. CASE /\ part = "one" /\ One!Next
           /\ UNCHANGED <<part, twoVars, supVars>>
  <2>1. OneInv'
    BY <1>1, OneStep DEF IInv
  <2>2. TwoInv' /\ SupInv'
    BY <1>1, TwoStutter, SupStutter DEF IInv
  <2> QED
    BY <1>1, <2>1, <2>2 DEF IInv
<1>2. CASE /\ part = "two" /\ Two!Next
           /\ UNCHANGED <<part, oneVars, supVars>>
  <2>1. TwoInv'
    BY <1>2, TwoStep DEF IInv
  <2>2. OneInv' /\ SupInv'
    BY <1>2, OneStutter, SupStutter DEF IInv
  <2> QED
    BY <1>2, <2>1, <2>2 DEF IInv
<1>3. CASE /\ part = "sup" /\ Sup!Next
           /\ UNCHANGED <<part, oneVars, twoVars>>
  <2>1. SupInv'
    BY <1>3, SupStep DEF IInv
  <2>2. OneInv' /\ TwoInv'
    BY <1>3, OneStutter, TwoStutter DEF IInv
  <2> QED
    BY <1>3, <2>1, <2>2 DEF IInv
<1>4. CASE UNCHANGED vars
  <2>1. UNCHANGED <<part, oneVars, twoVars, supVars>>
    BY <1>4 DEF vars
  <2> QED
    BY <2>1, OneStutter, TwoStutter, SupStutter DEF IInv
<1> QED
    BY <1>1, <1>2, <1>3, <1>4 DEF Next

(* The invariant holds throughout.                                          *)
THEOREM Invariance == Spec => []IInv
BY IInit, IStep, PTL DEF Spec

(* Every variable of the manager and of the supervisor keeps its type.      *)
THEOREM TypeCorrect == Spec => []TypeOK
<1>1. IInv => TypeOK
    BY OneShows, TwoShows, SupShows DEF IInv, TypeOK
<1> QED
    BY <1>1, Invariance, PTL

(* One request at a time, with any of its steps failing: when InstallFromZip *)
(* and the other requests have returned, the directory, the row and the     *)
(* manifest are of one version. Any number of overlapping requests: when    *)
(* all have returned, the directory of a registered plugin is there; this   *)
(* needs that UpsertPlugin does not fail. Both are for restarts of the      *)
(* panel between requests only.                                             *)
THEOREM StoresStay == OneAlone /\ TwoKeeps => (Spec => []StoresAgree)
<1> SUFFICES ASSUME OneAlone, TwoKeeps PROVE Spec => []StoresAgree
    OBVIOUS
<1>1. IInv => StoresAgree
    BY OneShows, TwoShows DEF IInv, StoresAgree
<1> QED
    BY <1>1, Invariance, PTL

(* One request at a time, none of whose writes of SetPluginEnabled fails:   *)
(* between requests a plugin that is not enabled has no process, and none   *)
(* that the supervisor will restart, no token, no subscription and no       *)
(* scheduled service.                                                       *)
THEOREM QuietWhenDisabled == OneAlone /\ OneEnables => (Spec => []DisabledIsQuiet)
<1> SUFFICES ASSUME OneAlone, OneEnables PROVE Spec => []DisabledIsQuiet
    OBVIOUS
<1>1. IInv => DisabledIsQuiet
    BY OneShows DEF IInv, DisabledIsQuiet
<1> QED
    BY <1>1, Invariance, PTL

(* GenerateToken and RevokeToken: the Host API accepts at most the token    *)
(* that was issued last, for any number of overlapping requests, failures   *)
(* and restarts.                                                            *)
THEOREM NewestToken == Spec => []NewestTokenOnly
<1>1. IInv => NewestTokenOnly
    BY TwoShows DEF IInv, NewestTokenOnly
<1> QED
    BY <1>1, Invariance, PTL

(* Every process that EnsureRunning has reported as running and that nobody *)
(* stops is watched and probed, and only such a process is restarted by     *)
(* itself, for any number of handles, users and shutdowns.                  *)
THEOREM AlwaysSupervised == Spec => []Supervised
<1>1. IInv => Supervised
    BY SupShows DEF IInv, Supervised
<1> QED
    BY <1>1, Invariance, PTL
=============================================================================
