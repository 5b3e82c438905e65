---------------------------- MODULE AccessProofs ----------------------------
(***************************************************************************)
(* Proofs about Access, for every value of its constants: what may be used *)
(* once is used once, revocations hold, limits hold, and the settings that *)
(* are shown are in force. Every part has its inductive invariant, with a  *)
(* lemma for its initial states, one for its steps (a lemma per action     *)
(* where the argument is long), one for the steps of the other parts and   *)
(* one for what it implies. The last section puts them together.           *)
(***************************************************************************)
EXTENDS Access, FiniteSetTheorems, SequenceTheorems, TLAPS

-----------------------------------------------------------------------------
(* Sessions and refresh tokens. A family of refresh tokens belongs to one   *)
(* device, is revoked as a whole and has one token that was not exchanged;  *)
(* a token that others came from is marked. A token that can be used        *)
(* belongs to no kicked device, and there is none after a change of the     *)
(* password. After such a change a session of a browser is there only while *)
(* a request has still to remove the sessions.                              *)
AuthRow == [family : 1..MaxRows, dev : AuthDevices, from : 0..MaxRows,
            rotated : BOOLEAN, revoked : BOOLEAN, expired : BOOLEAN]

AuthRows == 1..Len(rows)

AuthTable ==
    /\ rows \in Seq(AuthRow) /\ Len(rows) <= MaxRows
    /\ \A i \in AuthRows : rows[i].family <= Len(rows)
    /\ \A i \in AuthRows : rows[i].from # 0 =>
          rows[i].from \in AuthRows /\ rows[rows[i].from].rotated
    /\ \A i, j \in AuthRows : rows[i].from = rows[j].from /\ rows[i].from # 0 => i = j
    /\ \A i, j \in AuthRows : rows[i].family = rows[j].family =>
          /\ rows[i].dev = rows[j].dev
          /\ rows[i].revoked = rows[j].revoked
          /\ ~rows[i].rotated /\ ~rows[j].rotated => i = j

AuthRevocation ==
    \A i \in AuthRows : Auth!Usable(i) => ~changed /\ rows[i].dev \notin ended

AuthTokens == Auth!Token \cup {Auth!NoToken}

AuthSessionTable ==
    /\ authLastId \in 0..MaxSessions
    /\ authSessions \subseteq [id : 1..authLastId, tok : Auth!Token, dev : Auth!Device]
    /\ \A s, t \in authSessions : s.tok = t.tok \/ s.id = t.id => s = t

AuthBrowsers ==
    changed => \/ \A s \in authSessions : s.dev # Auth!NoDevice
               \/ \E r \in Requests : authReq[r].pc = "removeAll"

AuthLabels == {"idle", "create", "evict", "issue", "replace", "revokeAll", "removeAll",
               "kick", "revoke"}

AuthRequest(q) ==
    /\ q \in [pc : AuthLabels, dev : Auth!Device, tok : AuthTokens, row : 0..MaxRows,
              id : 0..MaxSessions, issue : BOOLEAN, revoke : SUBSET AuthDevices]
    /\ q.pc \in {"create", "evict"} => q.tok \in Auth!Token
    /\ q.issue \/ q.pc \in {"issue", "replace"} => q.dev \in AuthDevices

AuthRequests ==
    /\ DOMAIN authReq = Requests
    /\ \A r \in Requests : AuthRequest(authReq[r])

AuthRest ==
    /\ authClock \in 1..MaxSeconds
    /\ ended \subseteq AuthDevices
    /\ changed \in BOOLEAN

AuthInv ==
    /\ AuthTable /\ AuthRevocation /\ AuthSessionTable /\ AuthBrowsers
    /\ AuthRequests /\ AuthRest

-----------------------------------------------------------------------------
(* The bounds are numbers.                                                  *)
LEMMA AuthNumbers ==
    MaxRows \in Nat /\ MaxSessions \in Nat /\ MaxSeconds \in Nat \ {0}
BY AuthAssumption DEF Auth!SessionBounds

(* A browser is not a device.                                               *)
LEMMA AuthBrowser == Auth!NoDevice \notin AuthDevices
BY AuthAssumption, Zenon DEF Auth!SessionBounds, Auth!NoDevice

(* A client that sends no access token sends none that a session has.       *)
LEMMA AuthNoToken == Auth!NoToken \notin Auth!Token
BY DEF Auth!NoToken, Auth!Token

(* A request that is not under way is well-formed.                          *)
LEMMA AuthIdle ==
    /\ AuthRequest(Auth!Idle)
    /\ DOMAIN Auth!Idle = {"pc", "dev", "tok", "row", "id", "issue", "revoke"}
    /\ Auth!Idle.pc = "idle" /\ Auth!Idle.issue = FALSE /\ Auth!Idle.tok = Auth!NoToken
    /\ Auth!Idle.dev = Auth!NoDevice /\ Auth!Idle.row = 0 /\ Auth!Idle.id = 0
    /\ Auth!Idle.revoke = {}
<1>1. Auth!NoDevice \in Auth!Device /\ Auth!NoToken \in AuthTokens
    BY DEF Auth!Device, AuthTokens
<1>2. Auth!Idle = [pc |-> "idle", dev |-> Auth!NoDevice, tok |-> Auth!NoToken, row |-> 0, id |-> 0,
                   issue |-> FALSE, revoke |-> {}]
    BY DEF Auth!Idle
<1>3. "idle" \in AuthLabels /\ "idle" \notin {"create", "evict", "issue", "replace"}
    BY DEF AuthLabels
<1>4. /\ Auth!Idle \in [pc : AuthLabels, dev : Auth!Device, tok : AuthTokens, row : 0..MaxRows,
              id : 0..MaxSessions, issue : BOOLEAN, revoke : SUBSET AuthDevices]
      /\ Auth!Idle.pc = "idle" /\ Auth!Idle.issue = FALSE
    BY <1>1, <1>2, <1>3, AuthNumbers
<1>5. AuthRequest(Auth!Idle)
    BY <1>3, <1>4 DEF AuthRequest
<1> QED
    BY <1>2, <1>5

(* A function on 1..n is a sequence of length n.                            *)
LEMMA AuthSequence ==
    ASSUME NEW S, NEW n \in Nat, NEW f \in [1..n -> S]
    PROVE  f \in Seq(S) /\ Len(f) = n
OBVIOUS

(* One request changes, and to a well-formed one.                           *)
LEMMA AuthReqUpdate ==
    ASSUME AuthRequests, NEW r \in Requests, NEW q, AuthRequest(q),
           authReq' = [authReq EXCEPT ![r] = q]
    PROVE  /\ AuthRequests' /\ authReq'[r] = q
           /\ \A t \in Requests \ {r} : authReq'[t] = authReq[t]
<1>1. /\ DOMAIN authReq' = Requests /\ authReq'[r] = q
      /\ \A t \in Requests \ {r} : authReq'[t] = authReq[t]
    BY DEF AuthRequests
<1>2. \A t \in Requests : AuthRequest(authReq'[t])
    BY <1>1 DEF AuthRequests
<1> QED
    BY <1>1, <1>2 DEF AuthRequests

(* The invariant holds at the start.                                        *)
LEMMA AuthInit == Auth!Init => AuthInv
<1> SUFFICES ASSUME Auth!Init PROVE AuthInv
    OBVIOUS
<1>1. rows = << >> /\ authSessions = {} /\ authLastId = 0 /\ authClock = 1 /\ ended = {}
    BY DEF Auth!Init
<1>2. changed \in BOOLEAN /\ ~changed
    BY Zenon DEF Auth!Init
<1>3. AuthTable /\ AuthRevocation
    BY <1>1, AuthNumbers DEF AuthTable, AuthRevocation, AuthRows
<1>4. AuthSessionTable
    BY <1>1, AuthNumbers DEF AuthSessionTable
<1>5. AuthRequests
  <2>1. authReq = [r \in Requests |-> Auth!Idle]
    BY DEF Auth!Init
  <2> QED
    BY <2>1, AuthIdle DEF AuthRequests
<1> QED
    BY <1>1, <1>2, <1>3, <1>4, <1>5, AuthNumbers DEF AuthInv, AuthBrowsers, AuthRest

(* Rows are marked as revoked, family by family, or as expired: nothing     *)
(* that could not be used can be used afterwards.                           *)
LEMMA AuthMarked ==
    ASSUME AuthTable,
           rows' \in [AuthRows -> AuthRow],
           \A i \in AuthRows :
              /\ rows'[i].family = rows[i].family /\ rows'[i].dev = rows[i].dev
              /\ rows'[i].from = rows[i].from /\ rows'[i].rotated = rows[i].rotated
              /\ (rows[i].revoked => rows'[i].revoked) /\ (rows[i].expired => rows'[i].expired),
           \A i, j \in AuthRows : rows[i].family = rows[j].family =>
              rows'[i].revoked = rows'[j].revoked
    PROVE  /\ AuthTable' /\ Len(rows') = Len(rows)
           /\ \A i \in AuthRows : Auth!Usable(i)' => Auth!Usable(i)
<1>0. Len(rows) \in Nat
    BY DEF AuthTable
<1>1. rows' \in Seq(AuthRow) /\ Len(rows') = Len(rows)
    BY <1>0, AuthSequence DEF AuthRows
<1>2. AuthTable'
    BY SMTT(30), <1>1 DEF AuthTable, AuthRows
<1>3. \A i \in AuthRows : Auth!Usable(i)' => Auth!Usable(i)
    BY DEF Auth!Usable
<1> QED
    BY <1>1, <1>2, <1>3

(* RevokeFamily for the devices D.                                          *)
LEMMA AuthRevokes ==
    ASSUME AuthTable, NEW D, rows' = Auth!Revoked(D)
    PROVE  /\ AuthTable' /\ Len(rows') = Len(rows)
           /\ \A i \in AuthRows : rows'[i].dev = rows[i].dev
           /\ \A i \in AuthRows : Auth!Usable(i)' => Auth!Usable(i) /\ rows[i].dev \notin D
<1>0. rows \in [AuthRows -> AuthRow]
    BY DEF AuthTable, AuthRows
<1>1. rows' = [i \in AuthRows |-> [rows[i] EXCEPT !.revoked = rows[i].revoked \/ rows[i].dev \in D]]
    BY DEF Auth!Revoked, Auth!Row, AuthRows
<1>2. \A i \in AuthRows :
         /\ rows'[i] \in AuthRow
         /\ rows'[i].family = rows[i].family /\ rows'[i].dev = rows[i].dev
         /\ rows'[i].from = rows[i].from /\ rows'[i].rotated = rows[i].rotated
         /\ rows'[i].expired = rows[i].expired
         /\ rows'[i].revoked <=> (rows[i].revoked \/ rows[i].dev \in D)
         /\ rows'[i].revoked \in BOOLEAN
  <2> TAKE i \in AuthRows
  <2>1. rows[i] \in AuthRow
    BY <1>0
  <2>2. rows'[i] = [rows[i] EXCEPT !.revoked = rows[i].revoked \/ rows[i].dev \in D]
    BY <1>1
  <2> QED
    BY <2>1, <2>2 DEF AuthRow
<1>3. rows' \in [AuthRows -> AuthRow]
    BY <1>1, <1>2
<1>4. \A i, j \in AuthRows : rows[i].family = rows[j].family => rows'[i].revoked = rows'[j].revoked
  <2> SUFFICES ASSUME NEW i \in AuthRows, NEW j \in AuthRows, rows[i].family = rows[j].family
               PROVE  rows'[i].revoked = rows'[j].revoked
    OBVIOUS
  <2>1. rows[i].dev = rows[j].dev /\ rows[i].revoked = rows[j].revoked
    BY DEF AuthTable
  <2> QED
    BY <1>2, <2>1
<1>5. AuthTable' /\ Len(rows') = Len(rows) /\ \A i \in AuthRows : Auth!Usable(i)' => Auth!Usable(i)
    BY <1>2, <1>3, <1>4, AuthMarked
<1>6. \A i \in AuthRows : Auth!Usable(i)' => rows[i].dev \notin D
    BY <1>2 DEF Auth!Usable
<1> QED
    BY <1>2, <1>5, <1>6

(* A replayed token revokes its family.                                     *)
LEMMA AuthReplay ==
    ASSUME AuthTable, NEW k \in AuthRows, rows' = Auth!ReplayRevokes(k)
    PROVE  /\ AuthTable' /\ Len(rows') = Len(rows)
           /\ \A i \in AuthRows : rows'[i].dev = rows[i].dev
           /\ \A i \in AuthRows : Auth!Usable(i)' => Auth!Usable(i)
<1>0. rows \in [AuthRows -> AuthRow]
    BY DEF AuthTable, AuthRows
<1>1. rows' = [i \in AuthRows |-> [rows[i] EXCEPT !.revoked = rows[i].revoked \/ rows[i].family = rows[k].family]]
    BY DEF Auth!ReplayRevokes, Auth!Row, AuthRows
<1>2. \A i \in AuthRows :
         /\ rows'[i] \in AuthRow
         /\ rows'[i].family = rows[i].family /\ rows'[i].dev = rows[i].dev
         /\ rows'[i].from = rows[i].from /\ rows'[i].rotated = rows[i].rotated
         /\ rows'[i].expired = rows[i].expired
         /\ rows'[i].revoked <=> (rows[i].revoked \/ rows[i].family = rows[k].family)
         /\ rows'[i].revoked \in BOOLEAN
  <2> TAKE i \in AuthRows
  <2>1. rows[i] \in AuthRow
    BY <1>0
  <2>2. rows'[i] = [rows[i] EXCEPT !.revoked = rows[i].revoked \/ rows[i].family = rows[k].family]
    BY <1>1
  <2> QED
    BY <2>1, <2>2 DEF AuthRow
<1>3. rows' \in [AuthRows -> AuthRow]
    BY <1>1, <1>2
<1>4. \A i, j \in AuthRows : rows[i].family = rows[j].family => rows'[i].revoked = rows'[j].revoked
  <2> SUFFICES ASSUME NEW i \in AuthRows, NEW j \in AuthRows, rows[i].family = rows[j].family
               PROVE  rows'[i].revoked = rows'[j].revoked
    OBVIOUS
  <2>1. rows[i].revoked = rows[j].revoked
    BY DEF AuthTable
  <2> QED
    BY <1>2, <2>1
<1>5. AuthTable' /\ Len(rows') = Len(rows) /\ \A i \in AuthRows : Auth!Usable(i)' => Auth!Usable(i)
    BY <1>2, <1>3, <1>4, AuthMarked
<1> QED
    BY <1>2, <1>5

(* A row expires.                                                           *)
LEMMA AuthExpires ==
    ASSUME AuthTable, NEW k \in AuthRows, rows' = [rows EXCEPT ![k].expired = TRUE]
    PROVE  /\ AuthTable' /\ Len(rows') = Len(rows)
           /\ \A i \in AuthRows : rows'[i].dev = rows[i].dev
           /\ \A i \in AuthRows : Auth!Usable(i)' => Auth!Usable(i)
<1>0. rows \in [AuthRows -> AuthRow]
    BY DEF AuthTable, AuthRows
<1>1. /\ DOMAIN rows' = AuthRows /\ rows' = [i \in AuthRows |-> rows'[i]]
      /\ rows'[k] = [rows[k] EXCEPT !.expired = TRUE] /\ \A i \in AuthRows \ {k} : rows'[i] = rows[i]
    BY <1>0
<1>2. \A i \in AuthRows :
         /\ rows'[i] \in AuthRow
         /\ rows'[i].family = rows[i].family /\ rows'[i].dev = rows[i].dev
         /\ rows'[i].from = rows[i].from /\ rows'[i].rotated = rows[i].rotated
         /\ rows'[i].revoked = rows[i].revoked
         /\ rows[i].expired => rows'[i].expired
  <2> TAKE i \in AuthRows
  <2>1. rows[i] \in AuthRow
    BY <1>0
  <2>2. CASE i = k
    BY <1>1, <2>1, <2>2 DEF AuthRow
  <2>3. CASE i # k
    BY <1>1, <2>1, <2>3
  <2> QED
    BY <2>2, <2>3
<1>3. rows' \in [AuthRows -> AuthRow]
    BY <1>1, <1>2
<1>4. \A i, j \in AuthRows : rows[i].family = rows[j].family => rows'[i].revoked = rows'[j].revoked
    BY <1>2 DEF AuthTable
<1>5. AuthTable' /\ Len(rows') = Len(rows) /\ \A i \in AuthRows : Auth!Usable(i)' => Auth!Usable(i)
    BY <1>2, <1>3, <1>4, AuthMarked
<1> QED
    BY <1>2, <1>5

(* A row is inserted.                                                       *)
LEMMA AuthAppend ==
    ASSUME NEW t \in Seq(AuthRow), NEW x \in AuthRow, rows' = Append(t, x)
    PROVE  /\ rows' \in Seq(AuthRow) /\ Len(t) \in Nat /\ Len(rows') = Len(t) + 1
           /\ \A i \in 1..Len(t) : rows'[i] = t[i]
           /\ rows'[Len(t) + 1] = x
OBVIOUS

(* A login of a device begins a new family.                                 *)
LEMMA AuthIssue ==
    ASSUME AuthTable, NEW d \in AuthDevices, Len(rows) < MaxRows,
           rows' = Append(rows, Auth!NewRow(Len(rows) + 1, d, 0))
    PROVE  /\ AuthTable' /\ Len(rows') = Len(rows) + 1
           /\ \A i \in AuthRows : rows'[i] = rows[i]
           /\ rows'[Len(rows) + 1].dev = d
<1> DEFINE x == Auth!NewRow(Len(rows) + 1, d, 0)
<1>0. rows \in Seq(AuthRow) /\ Len(rows) \in Nat
    BY DEF AuthTable
<1>a. \A i, j \in AuthRows : rows[i].from = rows[j].from /\ rows[i].from # 0 => i = j
    BY DEF AuthTable
<1>b. \A i, j \in AuthRows : rows[i].family = rows[j].family =>
          /\ rows[i].dev = rows[j].dev
          /\ rows[i].revoked = rows[j].revoked
          /\ ~rows[i].rotated /\ ~rows[j].rotated => i = j
    BY DEF AuthTable
<1>1. /\ x \in AuthRow /\ x.family = Len(rows) + 1 /\ x.dev = d /\ x.from = 0
      /\ x.rotated = FALSE /\ x.revoked = FALSE
    BY <1>0, AuthNumbers DEF Auth!NewRow, AuthRow
<1> HIDE DEF x
<1>2. rows' = Append(rows, x)
    BY DEF x
<1>3. /\ rows' \in Seq(AuthRow) /\ Len(rows') = Len(rows) + 1
      /\ \A i \in AuthRows : rows'[i] = rows[i]
      /\ rows'[Len(rows) + 1] = x
    BY <1>0, <1>1, <1>2, AuthAppend DEF AuthRows
<1>4. AuthRows' = 1..(Len(rows) + 1) /\ \A i \in AuthRows' : i \in AuthRows \/ i = Len(rows) + 1
    BY <1>0, <1>3 DEF AuthRows
<1>5. \A i \in AuthRows : rows[i].family # Len(rows) + 1 /\ rows[i] \in AuthRow
  <2> TAKE i \in AuthRows
  <2>1. rows[i] \in AuthRow
    BY <1>0 DEF AuthRows
  <2>2. rows[i].family <= Len(rows)
    BY DEF AuthTable
  <2>3. rows[i].family \in 1..MaxRows
    BY <2>1 DEF AuthRow
  <2> QED
    BY <1>0, <2>1, <2>2, <2>3, AuthNumbers
<1>6. \A i \in AuthRows : i # Len(rows) + 1 /\ i \in AuthRows'
    BY <1>0, <1>4 DEF AuthRows
<1>7. Len(rows') <= MaxRows
    BY <1>0, <1>3, AuthNumbers
<1>8. \A i \in AuthRows' : rows'[i].family <= Len(rows')
  <2> TAKE i \in AuthRows'
  <2>1. CASE i \in AuthRows
    <3>1. rows'[i] = rows[i] /\ rows[i].family <= Len(rows) /\ rows[i].family \in 1..MaxRows
      BY <1>3, <1>5, <2>1 DEF AuthTable, AuthRow
    <3>2. rows[i].family \in Nat
      BY <3>1, AuthNumbers
    <3>3. \A a, b \in Nat : a <= b => a <= b + 1
      OBVIOUS
    <3>4. rows[i].family <= Len(rows) + 1
      BY <1>0, <3>1, <3>2, <3>3
    <3> QED
      BY <1>3, <3>1, <3>4
  <2>2. CASE i = Len(rows) + 1
    BY <1>0, <1>1, <1>3, <2>2
  <2> QED
    BY <1>4, <2>1, <2>2
<1>9. \A i \in AuthRows' : rows'[i].from # 0 =>
          rows'[i].from \in AuthRows' /\ rows'[rows'[i].from].rotated
  <2> TAKE i \in AuthRows'
  <2>1. CASE i \in AuthRows
    <3> SUFFICES ASSUME rows'[i].from # 0
                 PROVE  rows'[i].from \in AuthRows' /\ rows'[rows'[i].from].rotated
      OBVIOUS
    <3>1. rows[i].from \in AuthRows /\ rows[rows[i].from].rotated /\ rows'[i].from = rows[i].from
      BY <1>3, <2>1 DEF AuthTable
    <3> QED
      BY <1>3, <1>6, <3>1 DEF AuthRows
  <2>2. CASE i = Len(rows) + 1
    BY <1>1, <1>3, <2>2
  <2> QED
    BY <1>4, <2>1, <2>2
<1>10. \A i, j \in AuthRows' : rows'[i].from = rows'[j].from /\ rows'[i].from # 0 => i = j
  <2> SUFFICES ASSUME NEW i \in AuthRows', NEW j \in AuthRows',
                      rows'[i].from = rows'[j].from, rows'[i].from # 0
               PROVE  i = j
    OBVIOUS
  <2>1. i \in AuthRows /\ j \in AuthRows
    BY <1>1, <1>3, <1>4
  <2>2. rows'[i] = rows[i] /\ rows'[j] = rows[j]
    BY <1>3, <2>1
  <2> QED
    BY <1>a, <2>1, <2>2
<1>11. \A i, j \in AuthRows' : rows'[i].family = rows'[j].family =>
          /\ rows'[i].dev = rows'[j].dev
          /\ rows'[i].revoked = rows'[j].revoked
          /\ ~rows'[i].rotated /\ ~rows'[j].rotated => i = j
  <2> SUFFICES ASSUME NEW i \in AuthRows', NEW j \in AuthRows', rows'[i].family = rows'[j].family
               PROVE  /\ rows'[i].dev = rows'[j].dev
                      /\ rows'[i].revoked = rows'[j].revoked
                      /\ ~rows'[i].rotated /\ ~rows'[j].rotated => i = j
    OBVIOUS
  <2>1. CASE i \in AuthRows /\ j \in AuthRows
    <3>1. rows'[i] = rows[i] /\ rows'[j] = rows[j]
      BY <1>3, <2>1
    <3>2. rows[i].family = rows[j].family
      BY <3>1
    <3>3. /\ rows[i].dev = rows[j].dev /\ rows[i].revoked = rows[j].revoked
          /\ ~rows[i].rotated /\ ~rows[j].rotated => i = j
      BY <1>b, <2>1, <3>2
    <3> QED
      BY <3>1, <3>3
  <2>2. CASE i = Len(rows) + 1
    BY <1>1, <1>3, <1>4, <1>5, <2>2
  <2>3. CASE j = Len(rows) + 1
    BY <1>1, <1>3, <1>4, <1>5, <2>3
  <2> QED
    BY <1>4, <2>1, <2>2, <2>3
<1> QED
    BY <1>1, <1>3, <1>7, <1>8, <1>9, <1>10, <1>11 DEF AuthTable

(* A rotation: the row k, which can be used, is marked and its successor    *)
(* inserted. No row came from k before, and k was the only row of its       *)
(* family that was not exchanged.                                           *)
LEMMA AuthRotates ==
    ASSUME AuthTable, NEW k \in AuthRows, Auth!Usable(k), Len(rows) < MaxRows,
           rows' = Auth!Rotates(k)
    PROVE  /\ AuthTable' /\ Len(rows') = Len(rows) + 1
           /\ \A i \in AuthRows : rows'[i].dev = rows[i].dev /\ (Auth!Usable(i)' => Auth!Usable(i))
           /\ rows'[Len(rows) + 1].dev = rows[k].dev
<1> DEFINE x == Auth!NewRow(rows[k].family, rows[k].dev, k)
           t == [rows EXCEPT ![k].rotated = TRUE]
<1>0. rows \in Seq(AuthRow) /\ Len(rows) \in Nat /\ rows \in [AuthRows -> AuthRow]
    BY DEF AuthTable, AuthRows
<1>1. /\ rows[k] \in AuthRow /\ k \in Nat /\ k # 0 /\ k <= Len(rows)
    BY <1>0 DEF AuthRows
<1>2. /\ x \in AuthRow /\ x.family = rows[k].family /\ x.dev = rows[k].dev /\ x.from = k
      /\ x.rotated = FALSE /\ x.revoked = FALSE
    BY <1>0, <1>1, AuthNumbers DEF Auth!NewRow, AuthRow
<1>3. /\ DOMAIN t = AuthRows /\ t = [i \in AuthRows |-> t[i]]
      /\ t[k] = [rows[k] EXCEPT !.rotated = TRUE] /\ \A i \in AuthRows \ {k} : t[i] = rows[i]
    BY <1>0
<1>4. rows' = Append(t, x)
    BY DEF Auth!Rotates
<1> HIDE DEF x, t
<1>5. /\ t[k] \in AuthRow /\ t[k].rotated = TRUE
      /\ t[k].family = rows[k].family /\ t[k].dev = rows[k].dev /\ t[k].from = rows[k].from
      /\ t[k].revoked = rows[k].revoked /\ t[k].expired = rows[k].expired
    BY <1>1, <1>3 DEF AuthRow
<1>6. t \in [AuthRows -> AuthRow]
    BY <1>0, <1>3, <1>5
<1>7. t \in Seq(AuthRow) /\ Len(t) = Len(rows)
    BY <1>0, <1>6, AuthSequence DEF AuthRows
<1>8. /\ rows' \in Seq(AuthRow) /\ Len(rows') = Len(rows) + 1
      /\ \A i \in AuthRows : rows'[i] = t[i]
      /\ rows'[Len(rows) + 1] = x
    BY <1>2, <1>4, <1>7, AuthAppend DEF AuthRows
<1>9. \A i \in AuthRows :
         /\ rows'[i].family = rows[i].family /\ rows'[i].dev = rows[i].dev
         /\ rows'[i].from = rows[i].from /\ rows'[i].revoked = rows[i].revoked
         /\ rows'[i].expired = rows[i].expired
         /\ i = k => rows'[i].rotated
         /\ i # k => rows'[i].rotated = rows[i].rotated
  <2> TAKE i \in AuthRows
  <2>1. CASE i = k
    BY <1>5, <1>8, <2>1
  <2>2. CASE i # k
    BY <1>3, <1>8, <2>2
  <2> QED
    BY <2>1, <2>2
<1>10. /\ AuthRows' = 1..(Len(rows) + 1)
       /\ \A i \in AuthRows' : i \in AuthRows \/ i = Len(rows) + 1
       /\ \A i \in AuthRows : i # Len(rows) + 1 /\ i \in AuthRows'
    BY <1>0, <1>8 DEF AuthRows
<1>11. ~rows[k].rotated /\ ~rows[k].revoked
    BY DEF Auth!Usable
<1>12. \A i \in AuthRows : rows[i].from # k
    BY <1>1, <1>11 DEF AuthTable
<1>13. \A i \in AuthRows : rows[i].family = rows[k].family =>
          rows[i].dev = rows[k].dev /\ rows[i].revoked = rows[k].revoked /\ (i # k => rows[i].rotated)
    BY <1>11 DEF AuthTable
<1>14. rows[k].revoked = FALSE
    BY <1>1, <1>11 DEF AuthRow
<1>15. \A i \in AuthRows' : rows'[i].family <= Len(rows')
  <2> TAKE i \in AuthRows'
  <2>0. \A j \in AuthRows : rows[j].family <= Len(rows) /\ rows[j].family \in 1..MaxRows
    BY <1>0 DEF AuthTable, AuthRow
  <2>1. rows'[i].family <= Len(rows) /\ rows'[i].family \in 1..MaxRows
    BY <1>2, <1>8, <1>9, <1>10, <2>0
  <2> QED
    BY <1>0, <1>8, <2>1, AuthNumbers
<1>16. \A i \in AuthRows' : rows'[i].from # 0 =>
          rows'[i].from \in AuthRows' /\ rows'[rows'[i].from].rotated
  <2> SUFFICES ASSUME NEW i \in AuthRows', rows'[i].from # 0
               PROVE  rows'[i].from \in AuthRows' /\ rows'[rows'[i].from].rotated
    OBVIOUS
  <2>1. CASE i \in AuthRows
    <3>1. rows[i].from \in AuthRows /\ rows[rows[i].from].rotated /\ rows'[i].from = rows[i].from
      BY <1>9, <2>1 DEF AuthTable
    <3> QED
      BY <1>9, <1>10, <3>1
  <2>2. CASE i = Len(rows) + 1
    <3>1. rows'[i].from = k
      BY <1>2, <1>8, <2>2
    <3> QED
      BY <1>9, <1>10, <3>1
  <2> QED
    BY <1>10, <2>1, <2>2
<1>17. \A i, j \in AuthRows' : rows'[i].from = rows'[j].from /\ rows'[i].from # 0 => i = j
  <2> SUFFICES ASSUME NEW i \in AuthRows', NEW j \in AuthRows',
                      rows'[i].from = rows'[j].from, rows'[i].from # 0
               PROVE  i = j
    OBVIOUS
  <2>1. CASE i \in AuthRows /\ j \in AuthRows
    BY <1>9, <2>1 DEF AuthTable
  <2>2. CASE i = Len(rows) + 1
    BY <1>2, <1>8, <1>9, <1>10, <1>12, <2>2
  <2>3. CASE j = Len(rows) + 1
    BY <1>2, <1>8, <1>9, <1>10, <1>12, <2>3
  <2> QED
    BY <1>10, <2>1, <2>2, <2>3
<1>18. \A i, j \in AuthRows' : rows'[i].family = rows'[j].family =>
          /\ rows'[i].dev = rows'[j].dev
          /\ rows'[i].revoked = rows'[j].revoked
          /\ ~rows'[i].rotated /\ ~rows'[j].rotated => i = j
  <2> SUFFICES ASSUME NEW i \in AuthRows', NEW j \in AuthRows', rows'[i].family = rows'[j].family
               PROVE  /\ rows'[i].dev = rows'[j].dev
                      /\ rows'[i].revoked = rows'[j].revoked
                      /\ ~rows'[i].rotated /\ ~rows'[j].rotated => i = j
    OBVIOUS
  <2>1. CASE i \in AuthRows /\ j \in AuthRows
    BY <1>9, <2>1 DEF AuthTable
  <2>2. CASE i = Len(rows) + 1
    <3>1. /\ rows'[i].family = rows[k].family /\ rows'[i].dev = rows[k].dev
          /\ rows'[i].revoked = FALSE
      BY <1>2, <1>8, <2>2
    <3>2. CASE j = Len(rows) + 1
      BY <2>2, <3>2
    <3>3. CASE j \in AuthRows
      <4>1. rows[j].family = rows[k].family
        BY <1>9, <3>1, <3>3
      <4>2. rows[j].dev = rows[k].dev /\ rows[j].revoked = FALSE /\ (j # k => rows[j].rotated)
        BY <1>13, <1>14, <3>3, <4>1
      <4>3. rows'[j].dev = rows[j].dev /\ rows'[j].revoked = rows[j].revoked /\ rows'[j].rotated
        BY <1>9, <3>3, <4>2
      <4> QED
        BY <3>1, <4>2, <4>3
    <3> QED
      BY <1>10, <3>2, <3>3
  <2>3. CASE j = Len(rows) + 1
    <3>1. /\ rows'[j].family = rows[k].family /\ rows'[j].dev = rows[k].dev
          /\ rows'[j].revoked = FALSE
      BY <1>2, <1>8, <2>3
    <3>2. CASE i = Len(rows) + 1
      BY <2>3, <3>2
    <3>3. CASE i \in AuthRows
      <4>1. rows[i].family = rows[k].family
        BY <1>9, <3>1, <3>3
      <4>2. rows[i].dev = rows[k].dev /\ rows[i].revoked = FALSE /\ (i # k => rows[i].rotated)
        BY <1>13, <1>14, <3>3, <4>1
      <4>3. rows'[i].dev = rows[i].dev /\ rows'[i].revoked = rows[i].revoked /\ rows'[i].rotated
        BY <1>9, <3>3, <4>2
      <4> QED
        BY <3>1, <4>2, <4>3
    <3> QED
      BY <1>10, <3>2, <3>3
  <2> QED
    BY <1>10, <2>1, <2>2, <2>3
<1>19. AuthTable'
  <2>1. Len(rows') <= MaxRows
    BY <1>0, <1>8, AuthNumbers
  <2> QED
    BY <1>8, <1>15, <1>16, <1>17, <1>18, <2>1 DEF AuthTable
<1>20. \A i \in AuthRows : Auth!Usable(i)' => Auth!Usable(i)
    BY <1>9 DEF Auth!Usable
<1> QED
    BY <1>2, <1>8, <1>9, <1>19, <1>20

(* Fewer rows can be used, no login was undone: the revocations hold on.    *)
LEMMA AuthStillRevoked ==
    ASSUME AuthRevocation, Len(rows') = Len(rows),
           \A i \in AuthRows : rows'[i].dev = rows[i].dev,
           \A i \in AuthRows : Auth!Usable(i)' => Auth!Usable(i),
           UNCHANGED <<ended, changed>>
    PROVE  AuthRevocation'
<1>1. AuthRows' = AuthRows
    BY DEF AuthRows
<1> QED
    BY <1>1 DEF AuthRevocation

(* Nothing that the table and the revocations are about changes.            *)
LEMMA AuthTableSame ==
    ASSUME AuthTable, AuthRevocation, UNCHANGED <<rows, ended, changed>>
    PROVE  AuthTable' /\ AuthRevocation'
<1>1. AuthTable'
    BY DEF AuthTable, AuthRows
<1>2. AuthRevocation'
    BY DEF AuthRevocation, AuthRows, Auth!Usable
<1> QED
    BY <1>1, <1>2

(* A login ends what a kick or a change of the password had ended.          *)
LEMMA AuthLoggedIn ==
    ASSUME AuthRest, AuthRevocation, NEW d, Auth!LoggedIn(d), UNCHANGED rows
    PROVE  /\ AuthRevocation' /\ ended' \subseteq AuthDevices /\ changed' \in BOOLEAN /\ ~changed'
<1>1. ended' = ended \ {d}
    BY DEF Auth!LoggedIn
<1>2. changed' \in BOOLEAN /\ ~changed'
    BY Zenon DEF Auth!LoggedIn
<1>3. AuthRevocation'
    BY <1>1, <1>2 DEF AuthRevocation, AuthRows, Auth!Usable
<1> QED
    BY <1>1, <1>2, <1>3 DEF AuthRest

(* Sessions are only removed.                                               *)
LEMMA AuthFewer ==
    ASSUME AuthSessionTable, authSessions' \subseteq authSessions, UNCHANGED authLastId
    PROVE  AuthSessionTable'
BY DEF AuthSessionTable

(* A session is created, in the place of the one with the same token.       *)
LEMMA AuthCreates ==
    ASSUME AuthSessionTable, NEW tok \in Auth!Token, NEW d \in Auth!Device,
           Auth!CreateSession(tok, d)
    PROVE  /\ AuthSessionTable'
           /\ \A s \in authSessions' : s \in authSessions \/ s.dev = d
<1> DEFINE x == [id |-> authLastId + 1, tok |-> tok, dev |-> d]
<1>1. /\ authLastId' = authLastId + 1 /\ authLastId < MaxSessions
      /\ authSessions' = {s \in authSessions : s.tok # tok} \cup {x}
    BY DEF Auth!CreateSession, Auth!Stored
<1>2. authLastId \in Nat /\ authLastId' \in 0..MaxSessions /\ 1..authLastId \subseteq 1..authLastId'
      /\ authLastId' \in 1..authLastId' /\ authLastId' \notin 1..authLastId
    BY <1>1, AuthNumbers DEF AuthSessionTable
<1>3. x.id = authLastId' /\ x.tok = tok /\ x.dev = d
      /\ x \in [id : 1..authLastId', tok : Auth!Token, dev : Auth!Device]
    BY <1>1, <1>2
<1> HIDE DEF x
<1>4. \A s \in authSessions :
         /\ s \in [id : 1..authLastId', tok : Auth!Token, dev : Auth!Device]
         /\ s.id # authLastId'
    BY <1>2 DEF AuthSessionTable
<1>5. authSessions' \subseteq [id : 1..authLastId', tok : Auth!Token, dev : Auth!Device]
    BY <1>1, <1>3, <1>4
<1>6. \A s, t \in authSessions' : s.tok = t.tok \/ s.id = t.id => s = t
    BY <1>1, <1>3, <1>4 DEF AuthSessionTable
<1> QED
    BY <1>1, <1>2, <1>3, <1>5, <1>6 DEF AuthSessionTable

(* A refresh renames the session of the old token, or creates one.          *)
LEMMA AuthReplaces ==
    ASSUME AuthSessionTable, NEW old, NEW tok \in Auth!Token, NEW d \in Auth!Device,
           Auth!ReplaceSession(old, tok, d)
    PROVE  /\ AuthSessionTable'
           /\ \A s \in authSessions' : s.dev = d \/ \E t \in authSessions : t.dev = s.dev
<1>1. CASE {s \in authSessions : s.tok = old} = {}
  <2>1. Auth!CreateSession(tok, d)
    BY <1>1 DEF Auth!ReplaceSession
  <2> QED
    BY <2>1, AuthCreates
<1>2. CASE {s \in authSessions : s.tok = old} # {}
  <2>1. PICK o \in authSessions : o.tok = old
    BY <1>2
  <2>2. /\ authSessions' = {s \in authSessions : s.tok \notin {old, tok}}
                     \cup {[s EXCEPT !.tok = tok] : s \in {t \in authSessions : t.tok = old}}
        /\ authLastId' = authLastId
    BY <1>2 DEF Auth!ReplaceSession
  <2>3. {s \in authSessions : s.tok = old} = {o}
    BY <2>1 DEF AuthSessionTable
  <2> DEFINE x == [o EXCEPT !.tok = tok]
  <2>4. /\ x \in [id : 1..authLastId, tok : Auth!Token, dev : Auth!Device]
        /\ x.id = o.id /\ x.tok = tok /\ x.dev = o.dev
    BY <2>1 DEF AuthSessionTable
  <2>5. authSessions' = {s \in authSessions : s.tok \notin {old, tok}} \cup {x}
    BY <2>2, <2>3
  <2> HIDE DEF x
  <2>6. \A s \in authSessions' : (s \in authSessions /\ s.tok # old /\ s.tok # tok) \/ s = x
    BY <2>5
  <2>7. \A s, t \in authSessions' : s.tok = t.tok \/ s.id = t.id => s = t
    <3>1. \A s \in authSessions : s.tok # old => s.id # o.id
      BY <2>1 DEF AuthSessionTable
    <3> QED
      BY <2>4, <2>6, <3>1 DEF AuthSessionTable
  <2>8. authSessions' \subseteq [id : 1..authLastId, tok : Auth!Token, dev : Auth!Device]
    BY <2>4, <2>6 DEF AuthSessionTable
  <2> QED
    BY <2>1, <2>2, <2>4, <2>6, <2>7, <2>8 DEF AuthSessionTable
<1> QED
    BY <1>1, <1>2

(* No browser gets a session, and no request that has still to remove the   *)
(* sessions goes elsewhere.                                                 *)
LEMMA AuthNoBrowser ==
    ASSUME AuthBrowsers, changed' => changed,
           \A s \in authSessions' :
              s.dev = Auth!NoDevice => \E t \in authSessions : t.dev = Auth!NoDevice,
           \A r \in Requests : authReq[r].pc = "removeAll" => authReq'[r].pc = "removeAll"
    PROVE  AuthBrowsers'
BY DEF AuthBrowsers

(* A request leaves a control point that is not the removal of all sessions. *)
LEMMA AuthMoves ==
    ASSUME AuthRequests, NEW r \in Requests, NEW q, AuthRequest(q),
           authReq' = [authReq EXCEPT ![r] = q], authReq[r].pc # "removeAll"
    PROVE  /\ AuthRequests' /\ authReq'[r] = q
           /\ \A t \in Requests : authReq[t].pc = "removeAll" => authReq'[t].pc = "removeAll"
BY AuthReqUpdate

(* A request that goes on to another label.                                 *)
LEMMA AuthGoto ==
    ASSUME AuthRequests, NEW r \in Requests, NEW label \in AuthLabels, Auth!Goto(r, label),
           label = "issue" => authReq[r].dev \in AuthDevices,
           label = "create" => authReq[r].tok \in Auth!Token,
           label \notin {"replace", "evict"}, authReq[r].pc # "removeAll"
    PROVE  /\ AuthRequests' /\ authReq'[r].pc = label
           /\ \A t \in Requests : authReq[t].pc = "removeAll" => authReq'[t].pc = "removeAll"
<1> DEFINE q == [authReq[r] EXCEPT !.pc = label]
<1>1. AuthRequest(authReq[r])
    BY DEF AuthRequests
<1>2. AuthRequest(q) /\ q.pc = label
    BY <1>1 DEF AuthRequest
<1>3. authReq' = [authReq EXCEPT ![r] = q]
    BY DEF Auth!Goto
<1> HIDE DEF q
<1> QED
    BY <1>2, <1>3, AuthMoves

(* A step that moves one request only.                                      *)
LEMMA AuthOnlyMoves ==
    ASSUME AuthInv, NEW r \in Requests, NEW q, AuthRequest(q),
           authReq' = [authReq EXCEPT ![r] = q], authReq[r].pc # "removeAll",
           UNCHANGED <<rows, authSessions, authLastId, authClock, ended, changed>>
    PROVE  AuthInv'
<1>1. AuthTable' /\ AuthRevocation'
    BY AuthTableSame DEF AuthInv
<1>2. AuthSessionTable'
    BY AuthFewer DEF AuthInv
<1>3. /\ AuthRequests'
      /\ \A t \in Requests : authReq[t].pc = "removeAll" => authReq'[t].pc = "removeAll"
    BY AuthMoves DEF AuthInv
<1>4. AuthBrowsers'
    BY <1>3, AuthNoBrowser DEF AuthInv
<1>5. AuthRest'
    BY DEF AuthInv, AuthRest
<1> QED
    BY <1>1, <1>2, <1>3, <1>4, <1>5 DEF AuthInv

(* Login begins: the access token is signed.                                *)
LEMMA AuthBeginsLogin ==
    ASSUME AuthInv, NEW r \in Requests, NEW d \in Auth!Device, NEW factors, Auth!Login(r, d, factors)
    PROVE  AuthInv'
<1> DEFINE byPassword == d # Auth!NoDevice /\ factors = 1
           tok == Auth!GenerateToken(IF byPassword THEN "quarter" ELSE "session")
           label == IF AllowMultiSession THEN "create" ELSE "evict"
           q == [Auth!Idle EXCEPT !.pc = label, !.dev = d, !.issue = byPassword, !.tok = tok]
<1>1. tok \in Auth!Token
    BY DEF AuthInv, AuthRest, Auth!GenerateToken, Auth!Token
<1>2. label \in {"create", "evict"} /\ byPassword \in BOOLEAN /\ (byPassword => d \in AuthDevices)
    BY DEF Auth!Device
<1>3. authReq' = [authReq EXCEPT ![r] = q] /\ authReq[r].pc = "idle"
    BY DEF Auth!Login, Auth!Begin, Auth!At
<1> HIDE DEF byPassword, tok, label
<1>4. AuthRequest(q)
    BY <1>1, <1>2, AuthIdle DEF AuthRequest, AuthLabels, AuthTokens
<1>5. UNCHANGED <<rows, authSessions, authLastId, authClock, ended, changed>>
    BY DEF Auth!Login, Auth!memory, Auth!history
<1> HIDE DEF q
<1> QED
    BY <1>3, <1>4, <1>5, AuthOnlyMoves

(* ChangeUsername begins.                                                   *)
LEMMA AuthBeginsRename ==
    ASSUME AuthInv, NEW r \in Requests, Auth!ChangeUsername(r)
    PROVE  AuthInv'
<1> DEFINE tok == Auth!GenerateToken("session")
           q == [Auth!Idle EXCEPT !.pc = "evict", !.tok = tok]
<1>1. tok \in Auth!Token
    BY DEF AuthInv, AuthRest, Auth!GenerateToken, Auth!Token
<1>2. authReq' = [authReq EXCEPT ![r] = q] /\ authReq[r].pc = "idle"
    BY DEF Auth!ChangeUsername, Auth!Begin, Auth!At
<1> HIDE DEF tok
<1>3. AuthRequest(q)
    BY <1>1, AuthIdle DEF AuthRequest, AuthLabels, AuthTokens
<1>4. UNCHANGED <<rows, authSessions, authLastId, authClock, ended, changed>>
    BY DEF Auth!ChangeUsername, Auth!memory, Auth!history
<1> HIDE DEF q
<1> QED
    BY <1>2, <1>3, <1>4, AuthOnlyMoves

(* ChangePassword begins.                                                   *)
LEMMA AuthBeginsPassword ==
    ASSUME AuthInv, NEW r \in Requests, Auth!ChangePassword(r)
    PROVE  AuthInv'
<1> DEFINE q == [Auth!Idle EXCEPT !.pc = "revokeAll"]
<1>1. authReq' = [authReq EXCEPT ![r] = q] /\ authReq[r].pc = "idle"
    BY DEF Auth!ChangePassword, Auth!Begin, Auth!At
<1>2. AuthRequest(q)
    BY AuthIdle DEF AuthRequest, AuthLabels
<1>3. UNCHANGED <<rows, authSessions, authLastId, authClock, ended, changed>>
    BY DEF Auth!ChangePassword, Auth!memory, Auth!history
<1> HIDE DEF q
<1> QED
    BY <1>1, <1>2, <1>3, AuthOnlyMoves

(* KickSession finds the session in the list.                               *)
LEMMA AuthBeginsKick ==
    ASSUME AuthInv, NEW r \in Requests, NEW s \in authSessions, Auth!Kick(r, s)
    PROVE  AuthInv'
<1> DEFINE q == [Auth!Idle EXCEPT !.pc = "kick", !.dev = s.dev, !.id = s.id]
<1>1. authReq' = [authReq EXCEPT ![r] = q] /\ authReq[r].pc = "idle"
    BY DEF Auth!Kick, Auth!Begin, Auth!At
<1>2. s.dev \in Auth!Device /\ s.id \in 0..MaxSessions
    BY AuthNumbers DEF AuthInv, AuthSessionTable
<1>3. AuthRequest(q)
    BY <1>2, AuthIdle DEF AuthRequest, AuthLabels
<1>4. UNCHANGED <<rows, authSessions, authLastId, authClock, ended, changed>>
    BY DEF Auth!Kick, Auth!memory, Auth!history
<1> HIDE DEF q
<1> QED
    BY <1>1, <1>3, <1>4, AuthOnlyMoves

(* A request ends without another effect.                                   *)
LEMMA AuthEnds ==
    ASSUME AuthInv, NEW r \in Requests, Auth!RefreshFails(r) \/ Auth!KickDone(r)
    PROVE  AuthInv'
<1>1. authReq' = [authReq EXCEPT ![r] = Auth!Idle] /\ authReq[r].pc # "removeAll"
    BY DEF Auth!RefreshFails, Auth!KickDone, Auth!Done, Auth!At
<1>2. UNCHANGED <<rows, authSessions, authLastId, authClock, ended, changed>>
    BY DEF Auth!RefreshFails, Auth!KickDone, Auth!memory, Auth!history
<1> QED
    BY <1>1, <1>2, AuthIdle, AuthOnlyMoves

(* A step that only removes sessions, and may move a request.               *)
LEMMA AuthRemoves ==
    ASSUME AuthInv, authSessions' \subseteq authSessions, AuthRequests',
           \A t \in Requests : authReq[t].pc = "removeAll" => authReq'[t].pc = "removeAll",
           UNCHANGED <<rows, authLastId, authClock, ended, changed>>
    PROVE  AuthInv'
<1>1. AuthTable' /\ AuthRevocation'
    BY AuthTableSame DEF AuthInv
<1>2. AuthSessionTable'
    BY AuthFewer DEF AuthInv
<1>3. AuthBrowsers'
    BY AuthNoBrowser DEF AuthInv
<1>4. AuthRest'
    BY DEF AuthInv, AuthRest
<1> QED
    BY <1>1, <1>2, <1>3, <1>4 DEF AuthInv

(* A session expires or logs out.                                           *)
LEMMA AuthDrops ==
    ASSUME AuthInv, NEW s \in authSessions, Auth!SessionExpires(s) \/ Auth!Logout(s)
    PROVE  AuthInv'
<1>1. /\ authSessions' \subseteq authSessions
      /\ UNCHANGED <<rows, authLastId, authReq, authClock, ended, changed>>
    BY DEF Auth!SessionExpires, Auth!Logout, Auth!history
<1>2. AuthRequests'
    BY <1>1 DEF AuthInv, AuthRequests
<1> QED
    BY <1>1, <1>2, AuthRemoves

(* Single-session mode removes the other sessions.                          *)
LEMMA AuthEvicts ==
    ASSUME AuthInv, NEW r \in Requests, Auth!EvictSessions(r)
    PROVE  AuthInv'
<1>1. /\ authSessions' = {} /\ Auth!Goto(r, "create") /\ authReq[r].pc = "evict"
      /\ UNCHANGED <<rows, authLastId, authClock, ended, changed>>
    BY DEF Auth!EvictSessions, Auth!At, Auth!history
<1>2. authReq[r].tok \in Auth!Token /\ "create" \in AuthLabels
    BY <1>1 DEF AuthInv, AuthRequests, AuthRequest, AuthLabels
<1>3. /\ AuthRequests'
      /\ \A t \in Requests : authReq[t].pc = "removeAll" => authReq'[t].pc = "removeAll"
    BY <1>1, <1>2, AuthGoto DEF AuthInv
<1> QED
    BY <1>1, <1>3, AuthRemoves

(* KickSession removes the session.                                         *)
LEMMA AuthKicksOne ==
    ASSUME AuthInv, NEW r \in Requests, Auth!RemoveSessionByID(r)
    PROVE  AuthInv'
<1> DEFINE q == [authReq[r] EXCEPT !.pc = "revoke", !.revoke = {authReq[r].dev} \ {Auth!NoDevice}]
<1>1. /\ authSessions' \subseteq authSessions /\ authReq[r].pc = "kick"
      /\ UNCHANGED <<rows, authLastId, authClock, ended, changed>>
    BY DEF Auth!RemoveSessionByID, Auth!At, Auth!history
<1>2. AuthRequest(authReq[r]) /\ DOMAIN authReq = Requests
    BY DEF AuthInv, AuthRequests
<1>3. authReq' = [authReq EXCEPT ![r] = q]
    BY <1>2 DEF Auth!RemoveSessionByID
<1>4. {authReq[r].dev} \ {Auth!NoDevice} \subseteq AuthDevices
    BY <1>2 DEF AuthRequest, Auth!Device
<1>5. AuthRequest(q)
    BY <1>1, <1>2, <1>4 DEF AuthRequest, AuthLabels
<1> HIDE DEF q
<1>6. /\ AuthRequests'
      /\ \A t \in Requests : authReq[t].pc = "removeAll" => authReq'[t].pc = "removeAll"
    BY <1>1, <1>3, <1>5, AuthMoves DEF AuthInv
<1> QED
    BY <1>1, <1>6, AuthRemoves

(* KickAllOtherSessions removes all but the caller's.                       *)
LEMMA AuthKicksAll ==
    ASSUME AuthInv, NEW r \in Requests, NEW own \in authSessions, Auth!KickAll(r, own)
    PROVE  AuthInv'
<1> DEFINE D == {s.dev : s \in authSessions \ {own}} \ {Auth!NoDevice}
           q == [Auth!Idle EXCEPT !.pc = "revoke", !.revoke = D]
<1>1. /\ authSessions' = {own} /\ authReq[r].pc = "idle" /\ authReq' = [authReq EXCEPT ![r] = q]
      /\ UNCHANGED <<rows, authLastId, authClock, ended, changed>>
    BY DEF Auth!KickAll, Auth!Begin, Auth!At, Auth!history
<1>2. D \subseteq AuthDevices
    BY DEF AuthInv, AuthSessionTable, Auth!Device
<1> HIDE DEF D
<1>3. AuthRequest(q)
    BY <1>2, AuthIdle DEF AuthRequest, AuthLabels
<1> HIDE DEF q
<1>4. /\ AuthRequests'
      /\ \A t \in Requests : authReq[t].pc = "removeAll" => authReq'[t].pc = "removeAll"
    BY <1>1, <1>3, AuthMoves DEF AuthInv
<1> QED
    BY <1>1, <1>4, AuthRemoves

(* ChangePassword has removed every session, of browsers too.               *)
LEMMA AuthRemovesAll ==
    ASSUME AuthInv, NEW r \in Requests, Auth!RemoveAll(r)
    PROVE  AuthInv'
<1>1. /\ authSessions' = {} /\ authReq' = [authReq EXCEPT ![r] = Auth!Idle]
      /\ UNCHANGED <<rows, authLastId, authClock, ended, changed>>
    BY DEF Auth!RemoveAll, Auth!RemovedAll, Auth!Done, Auth!history
<1>2. AuthTable' /\ AuthRevocation'
    BY <1>1, AuthTableSame DEF AuthInv
<1>3. AuthSessionTable'
    BY <1>1, AuthFewer DEF AuthInv
<1>4. AuthRequests'
    BY <1>1, AuthIdle, AuthReqUpdate DEF AuthInv
<1>5. AuthBrowsers' /\ AuthRest'
    BY <1>1 DEF AuthInv, AuthRest, AuthBrowsers
<1> QED
    BY <1>2, <1>3, <1>4, <1>5 DEF AuthInv

(* Login creates the session.                                               *)
LEMMA AuthCreatesLogin ==
    ASSUME AuthInv, NEW r \in Requests, Auth!CreateLogin(r)
    PROVE  AuthInv'
<1>1. /\ authReq[r].pc = "create" /\ Auth!CreateSession(authReq[r].tok, authReq[r].dev)
      /\ Auth!LoggedIn(authReq[r].dev) /\ UNCHANGED <<rows, authClock>>
    BY DEF Auth!CreateLogin, Auth!At
<1>2. AuthRequest(authReq[r])
    BY DEF AuthInv, AuthRequests
<1>3. /\ authReq[r].tok \in Auth!Token /\ authReq[r].dev \in Auth!Device
      /\ authReq[r].issue => authReq[r].dev \in AuthDevices
    BY <1>1, <1>2 DEF AuthRequest
<1>4. AuthSessionTable'
    BY <1>1, <1>3, AuthCreates DEF AuthInv
<1>5. AuthRevocation' /\ ended' \subseteq AuthDevices /\ changed' \in BOOLEAN /\ ~changed'
    BY <1>1, AuthLoggedIn DEF AuthInv
<1>6. AuthTable'
    BY <1>1 DEF AuthInv, AuthTable, AuthRows
<1>7. AuthRequests'
  <2>1. CASE authReq[r].issue
    <3>1. Auth!Goto(r, "issue") /\ "issue" \in AuthLabels
      BY <2>1 DEF Auth!CreateLogin, AuthLabels
    <3> QED
      BY <1>1, <1>3, <2>1, <3>1, AuthGoto DEF AuthInv
  <2>2. CASE ~authReq[r].issue
    <3>1. authReq' = [authReq EXCEPT ![r] = Auth!Idle]
      BY <2>2 DEF Auth!CreateLogin, Auth!Done
    <3> QED
      BY <3>1, AuthIdle, AuthReqUpdate DEF AuthInv
  <2> QED
    BY <2>1, <2>2
<1> QED
    BY <1>1, <1>4, <1>5, <1>6, <1>7 DEF AuthInv, AuthRest, AuthBrowsers

(* Login issues the refresh token of a device.                              *)
LEMMA AuthIssues ==
    ASSUME AuthInv, NEW r \in Requests, Auth!Issue(r)
    PROVE  AuthInv'
<1> DEFINE d == authReq[r].dev
<1>1. /\ authReq[r].pc = "issue" /\ Len(rows) < MaxRows
      /\ rows' = Append(rows, Auth!NewRow(Len(rows) + 1, d, 0))
      /\ ended' = ended \ {d} /\ authReq' = [authReq EXCEPT ![r] = Auth!Idle]
      /\ UNCHANGED <<authSessions, authLastId, authClock>>
    BY DEF Auth!Issue, Auth!At, Auth!LoggedIn, Auth!Done, Auth!memory
<1>2. changed' \in BOOLEAN /\ ~changed'
    BY Zenon DEF Auth!Issue, Auth!LoggedIn
<1>3. d \in AuthDevices
    BY <1>1 DEF AuthInv, AuthRequests, AuthRequest
<1> HIDE DEF d
<1>4. /\ AuthTable' /\ Len(rows') = Len(rows) + 1 /\ \A i \in AuthRows : rows'[i] = rows[i]
      /\ rows'[Len(rows) + 1].dev = d
    BY <1>1, <1>3, AuthIssue DEF AuthInv
<1>5. AuthRevocation'
  <2> SUFFICES ASSUME NEW i \in AuthRows', Auth!Usable(i)'
               PROVE  ~changed' /\ rows'[i].dev \notin ended'
    BY DEF AuthRevocation
  <2>1. Len(rows) \in Nat
    BY DEF AuthInv, AuthTable
  <2>2. CASE i \in AuthRows
    <3>1. rows'[i] = rows[i]
      BY <1>4, <2>2
    <3>2. Auth!Usable(i)
      BY <3>1 DEF Auth!Usable
    <3>3. rows[i].dev \notin ended
      BY <2>2, <3>2 DEF AuthInv, AuthRevocation
    <3> QED
      BY <1>1, <1>2, <3>1, <3>3
  <2>3. CASE i = Len(rows) + 1
    BY <1>1, <1>2, <1>4, <2>3
  <2> QED
    BY <1>4, <2>1, <2>2, <2>3 DEF AuthRows
<1>6. AuthSessionTable'
    BY <1>1, AuthFewer DEF AuthInv
<1>7. AuthRequests'
    BY <1>1, AuthIdle, AuthReqUpdate DEF AuthInv
<1> QED
    BY <1>1, <1>2, <1>4, <1>5, <1>6, <1>7 DEF AuthInv, AuthRest, AuthBrowsers

(* Rotate accepts a token: its device was not kicked since.                 *)
LEMMA AuthExchanges ==
    ASSUME AuthInv, NEW r \in Requests, NEW i \in Auth!Row,
           NEW old \in {s.tok : s \in authSessions} \cup {Auth!NoToken}, Auth!Rotate(r, i, old)
    PROVE  AuthInv'
<1> DEFINE q == [Auth!Idle EXCEPT !.pc = "replace", !.dev = rows[i].dev, !.tok = old, !.row = i]
<1>0. i \in AuthRows
    BY DEF Auth!Row, AuthRows
<1>1. /\ Auth!Usable(i) /\ Len(rows) < MaxRows /\ rows' = Auth!Rotates(i)
      /\ authReq[r].pc = "idle" /\ authReq' = [authReq EXCEPT ![r] = q]
      /\ UNCHANGED <<authSessions, authLastId, authClock, ended, changed>>
    BY DEF Auth!Rotate, Auth!Begin, Auth!At, Auth!memory, Auth!history
<1>2. old \in AuthTokens
    BY DEF AuthInv, AuthSessionTable, AuthTokens
<1>3. rows \in Seq(AuthRow) /\ Len(rows) \in Nat /\ Len(rows) <= MaxRows
    BY DEF AuthInv, AuthTable
<1>4. rows[i] \in AuthRow /\ i \in 0..MaxRows
    BY <1>0, <1>3, AuthNumbers DEF AuthRows
<1>5. rows[i].dev \in AuthDevices /\ rows[i].dev \in Auth!Device
    BY <1>4 DEF AuthRow, Auth!Device
<1>6. AuthRequest(q)
    BY <1>2, <1>4, <1>5, AuthIdle DEF AuthRequest, AuthLabels
<1> HIDE DEF q
<1>7. /\ AuthRequests'
      /\ \A t \in Requests : authReq[t].pc = "removeAll" => authReq'[t].pc = "removeAll"
    BY <1>1, <1>6, AuthMoves DEF AuthInv
<1>8. /\ AuthTable' /\ Len(rows') = Len(rows) + 1
      /\ \A j \in AuthRows : rows'[j].dev = rows[j].dev /\ (Auth!Usable(j)' => Auth!Usable(j))
      /\ rows'[Len(rows) + 1].dev = rows[i].dev
    BY <1>0, <1>1, AuthRotates DEF AuthInv
<1>9. ~changed /\ rows[i].dev \notin ended
    BY <1>0, <1>1 DEF AuthInv, AuthRevocation
<1>10. AuthRevocation'
  <2> SUFFICES ASSUME NEW j \in AuthRows', Auth!Usable(j)'
               PROVE  ~changed' /\ rows'[j].dev \notin ended'
    BY DEF AuthRevocation
  <2>1. CASE j \in AuthRows
    BY <1>1, <1>8, <1>9, <2>1 DEF AuthInv, AuthRevocation
  <2>2. CASE j = Len(rows) + 1
    BY <1>1, <1>8, <1>9, <2>2
  <2> QED
    BY <1>3, <1>8, <2>1, <2>2 DEF AuthRows
<1>11. AuthSessionTable'
    BY <1>1, AuthFewer DEF AuthInv
<1>12. AuthBrowsers'
    BY <1>1, <1>7, AuthNoBrowser DEF AuthInv
<1> QED
    BY <1>1, <1>7, <1>8, <1>10, <1>11, <1>12 DEF AuthInv, AuthRest

(* Rows are marked; the sessions and the requests are as they were.         *)
LEMMA AuthMarks ==
    ASSUME AuthInv, AuthTable', Len(rows') = Len(rows),
           \A i \in AuthRows : rows'[i].dev = rows[i].dev,
           \A i \in AuthRows : Auth!Usable(i)' => Auth!Usable(i),
           UNCHANGED <<authSessions, authLastId, authReq, authClock, ended, changed>>
    PROVE  AuthInv'
<1>1. AuthRevocation'
    BY AuthStillRevoked DEF AuthInv
<1>2. AuthSessionTable' /\ AuthBrowsers' /\ AuthRequests' /\ AuthRest'
    BY DEF AuthInv, AuthSessionTable, AuthBrowsers, AuthRequests, AuthRest
<1> QED
    BY <1>1, <1>2 DEF AuthInv

(* Rotate meets a token that was exchanged before.                          *)
LEMMA AuthDetects ==
    ASSUME AuthInv, NEW r \in Requests, NEW i \in Auth!Row, Auth!DetectReplay(r, i)
    PROVE  AuthInv'
<1>1. i \in AuthRows
    BY DEF Auth!Row, AuthRows
<1>2. /\ rows' = Auth!ReplayRevokes(i)
      /\ UNCHANGED <<authSessions, authLastId, authReq, authClock, ended, changed>>
    BY DEF Auth!DetectReplay, Auth!memory, Auth!history
<1> QED
    BY <1>1, <1>2, AuthReplay, AuthMarks DEF AuthInv

(* A refresh token expires.                                                 *)
LEMMA AuthExpire ==
    ASSUME AuthInv, NEW i \in Auth!Row, Auth!RowExpires(i)
    PROVE  AuthInv'
<1>1. i \in AuthRows
    BY DEF Auth!Row, AuthRows
<1>2. /\ rows' = [rows EXCEPT ![i].expired = TRUE]
      /\ UNCHANGED <<authSessions, authLastId, authReq, authClock, ended, changed>>
    BY DEF Auth!RowExpires, Auth!memory, Auth!history
<1> QED
    BY <1>1, <1>2, AuthExpires, AuthMarks DEF AuthInv

(* A second passes.                                                         *)
LEMMA AuthTicks ==
    ASSUME AuthInv, Auth!Tick
    PROVE  AuthInv'
<1>1. /\ authClock < MaxSeconds /\ authClock' = authClock + 1
      /\ UNCHANGED <<rows, authSessions, authLastId, authReq, ended, changed>>
    BY DEF Auth!Tick, Auth!memory, Auth!history
<1>2. AuthTable' /\ AuthRevocation'
    BY <1>1, AuthTableSame DEF AuthInv
<1>3. AuthSessionTable' /\ AuthBrowsers' /\ AuthRequests'
    BY <1>1 DEF AuthInv, AuthSessionTable, AuthBrowsers, AuthRequests
<1>4. AuthRest'
    BY <1>1, AuthNumbers DEF AuthInv, AuthRest
<1> QED
    BY <1>2, <1>3, <1>4 DEF AuthInv

(* The refresh endpoint stores the session: it is one of a device, or had   *)
(* its device before.                                                       *)
LEMMA AuthRefreshes ==
    ASSUME AuthInv, NEW r \in Requests, Auth!Replace(r)
    PROVE  AuthInv'
<1> DEFINE tok == Auth!GenerateToken("session")
<1>1. /\ authReq[r].pc = "replace" /\ Auth!ReplaceSession(authReq[r].tok, tok, authReq[r].dev)
      /\ authReq' = [authReq EXCEPT ![r] = Auth!Idle]
      /\ UNCHANGED <<rows, authClock, ended, changed>>
    BY DEF Auth!Replace, Auth!At, Auth!Done, Auth!history
<1>2. tok \in Auth!Token
    BY DEF AuthInv, AuthRest, Auth!GenerateToken, Auth!Token
<1> HIDE DEF tok
<1>3. authReq[r].dev \in AuthDevices
    BY <1>1 DEF AuthInv, AuthRequests, AuthRequest
<1>4. authReq[r].dev \in Auth!Device /\ authReq[r].dev # Auth!NoDevice
    BY <1>3, AuthBrowser DEF Auth!Device
<1>5. /\ AuthSessionTable'
      /\ \A s \in authSessions' :
            s.dev = authReq[r].dev \/ \E t \in authSessions : t.dev = s.dev
    BY <1>1, <1>2, <1>4, AuthReplaces DEF AuthInv
<1>6. /\ AuthRequests'
      /\ \A t \in Requests : authReq[t].pc = "removeAll" => authReq'[t].pc = "removeAll"
    BY <1>1, AuthIdle, AuthMoves DEF AuthInv
<1>7. AuthBrowsers'
    BY <1>1, <1>4, <1>5, <1>6, AuthNoBrowser DEF AuthInv
<1>8. AuthTable' /\ AuthRevocation'
    BY <1>1, AuthTableSame DEF AuthInv
<1> QED
    BY <1>1, <1>5, <1>6, <1>7, <1>8 DEF AuthInv, AuthRest

(* ChangePassword revokes all refresh tokens.                               *)
LEMMA AuthRevokesAll ==
    ASSUME AuthInv, NEW r \in Requests, Auth!RevokeAll(r)
    PROVE  AuthInv'
<1>1. /\ authReq[r].pc = "revokeAll" /\ rows' = Auth!Revoked(AuthDevices)
      /\ Auth!Goto(r, "removeAll")
      /\ UNCHANGED <<authSessions, authLastId, authClock, ended>>
    BY DEF Auth!RevokeAll, Auth!At, Auth!memory
<1>2. changed' \in BOOLEAN
    BY Zenon DEF Auth!RevokeAll
<1>3. /\ AuthTable' /\ Len(rows') = Len(rows)
      /\ \A i \in AuthRows : Auth!Usable(i)' => rows[i].dev \notin AuthDevices
    BY <1>1, AuthRevokes DEF AuthInv
<1>4. \A i \in AuthRows : rows[i] \in AuthRow
    BY DEF AuthInv, AuthTable, AuthRows
<1>5. \A i \in AuthRows : rows[i].dev \in AuthDevices
    BY <1>4 DEF AuthRow
<1>6. AuthRevocation'
    BY <1>3, <1>5 DEF AuthRevocation, AuthRows
<1>7. AuthRequests' /\ authReq'[r].pc = "removeAll"
  <2>1. "removeAll" \in AuthLabels
    BY DEF AuthLabels
  <2> QED
    BY <1>1, <2>1, AuthGoto DEF AuthInv
<1>8. AuthBrowsers'
    BY <1>7 DEF AuthBrowsers
<1>9. AuthSessionTable'
    BY <1>1, AuthFewer DEF AuthInv
<1> QED
    BY <1>1, <1>2, <1>3, <1>6, <1>7, <1>8, <1>9 DEF AuthInv, AuthRest

(* A kick revokes the refresh tokens of a device.                           *)
LEMMA AuthRevokesDevice ==
    ASSUME AuthInv, NEW r \in Requests, NEW d \in AuthDevices, Auth!RevokeDevice(r, d)
    PROVE  AuthInv'
<1> DEFINE q == [authReq[r] EXCEPT !.revoke = authReq[r].revoke \ {d}]
<1>1. /\ authReq[r].pc = "revoke" /\ rows' = Auth!Revoked({d}) /\ ended' = ended \cup {d}
      /\ UNCHANGED <<authSessions, authLastId, authClock, changed>>
      /\ authReq' = [authReq EXCEPT ![r] = q]
    BY DEF Auth!RevokeDevice, Auth!At, Auth!memory
<1>2. AuthRequest(authReq[r])
    BY DEF AuthInv, AuthRequests
<1>3. AuthRequest(q)
    BY <1>1, <1>2 DEF AuthRequest, AuthLabels
<1> HIDE DEF q
<1>4. /\ AuthRequests'
      /\ \A t \in Requests : authReq[t].pc = "removeAll" => authReq'[t].pc = "removeAll"
    BY <1>1, <1>3, AuthMoves DEF AuthInv
<1>5. /\ AuthTable' /\ Len(rows') = Len(rows)
      /\ \A i \in AuthRows : rows'[i].dev = rows[i].dev
      /\ \A i \in AuthRows : Auth!Usable(i)' => Auth!Usable(i) /\ rows[i].dev \notin {d}
    BY <1>1, AuthRevokes DEF AuthInv
<1>6. AuthRevocation'
  <2> SUFFICES ASSUME NEW i \in AuthRows', Auth!Usable(i)'
               PROVE  ~changed' /\ rows'[i].dev \notin ended'
    BY DEF AuthRevocation
  <2>1. i \in AuthRows
    BY <1>5 DEF AuthRows
  <2>2. Auth!Usable(i) /\ rows[i].dev # d /\ rows'[i].dev = rows[i].dev
    BY <1>5, <2>1
  <2> QED
    BY <1>1, <2>1, <2>2 DEF AuthInv, AuthRevocation
<1>7. AuthSessionTable'
    BY <1>1, AuthFewer DEF AuthInv
<1>8. AuthBrowsers'
    BY <1>1, <1>4, AuthNoBrowser DEF AuthInv
<1> QED
    BY <1>1, <1>4, <1>5, <1>6, <1>7, <1>8 DEF AuthInv, AuthRest

(* Every step of the sessions and refresh tokens keeps the invariant.       *)
LEMMA AuthStep == AuthInv /\ Auth!Next => AuthInv'
<1> SUFFICES ASSUME AuthInv, Auth!Next PROVE AuthInv'
    OBVIOUS
<1>1. CASE \E s \in authSessions : Auth!SessionExpires(s) \/ Auth!Logout(s)
    BY <1>1, AuthDrops
<1>2. CASE \E i \in Auth!Row : Auth!RowExpires(i)
    BY <1>2, AuthExpire
<1>3. CASE Auth!Tick
    BY <1>3, AuthTicks
<1>4. ASSUME NEW r \in Requests, \E d \in Auth!Device, factors \in 1..2 : Auth!Login(r, d, factors)
      PROVE  AuthInv'
    BY <1>4, AuthBeginsLogin
<1>5. ASSUME NEW r \in Requests,
             \/ Auth!ChangeUsername(r) \/ Auth!EvictSessions(r) \/ Auth!CreateLogin(r)
             \/ Auth!Issue(r) \/ Auth!Replace(r) \/ Auth!RefreshFails(r)
             \/ Auth!ChangePassword(r) \/ Auth!RevokeAll(r) \/ Auth!RemoveAll(r)
             \/ Auth!RemoveSessionByID(r) \/ Auth!KickDone(r)
      PROVE  AuthInv'
    BY <1>5, AuthBeginsRename, AuthEvicts, AuthCreatesLogin, AuthIssues, AuthRefreshes, AuthEnds,
       AuthBeginsPassword, AuthRevokesAll, AuthRemovesAll, AuthKicksOne
<1>6. ASSUME NEW r \in Requests, NEW i \in Auth!Row,
             \/ Auth!DetectReplay(r, i)
             \/ \E old \in {s.tok : s \in authSessions} \cup {Auth!NoToken} : Auth!Rotate(r, i, old)
      PROVE  AuthInv'
    BY <1>6, AuthDetects, AuthExchanges
<1>7. ASSUME NEW r \in Requests, NEW s \in authSessions, Auth!Kick(r, s) \/ Auth!KickAll(r, s)
      PROVE  AuthInv'
    BY <1>7, AuthBeginsKick, AuthKicksAll
<1>8. ASSUME NEW r \in Requests, \E d \in AuthDevices : Auth!RevokeDevice(r, d)
      PROVE  AuthInv'
    BY <1>8, AuthRevokesDevice
<1> QED
    BY <1>1, <1>2, <1>3, <1>4, <1>5, <1>6, <1>7, <1>8 DEF Auth!Next

(* The invariant holds on while the part does nothing.                      *)
LEMMA AuthStutter == AuthInv /\ UNCHANGED authVars => AuthInv'
<1> SUFFICES ASSUME AuthInv, UNCHANGED authVars PROVE AuthInv'
    OBVIOUS
<1>1. UNCHANGED <<rows, authSessions, authLastId, authReq, authClock, ended, changed>>
    BY DEF authVars
<1>2. AuthTable' /\ AuthRevocation'
    BY <1>1, AuthTableSame DEF AuthInv
<1>3. AuthSessionTable' /\ AuthBrowsers' /\ AuthRequests' /\ AuthRest'
    BY <1>1 DEF AuthInv, AuthSessionTable, AuthBrowsers, AuthRequests, AuthRest
<1> QED
    BY <1>2, <1>3 DEF AuthInv

(* What the invariant says: the type invariant and the four properties.     *)
LEMMA AuthTypeOK ==
    AuthInv => /\ Auth!TypeOK /\ Auth!ExchangedOnce /\ Auth!FamilyRevokedTogether
               /\ Auth!KickedCannotRefresh /\ Auth!PasswordChangeRevokes
<1> SUFFICES ASSUME AuthInv
             PROVE  /\ Auth!TypeOK /\ Auth!ExchangedOnce /\ Auth!FamilyRevokedTogether
                    /\ Auth!KickedCannotRefresh /\ Auth!PasswordChangeRevokes
    OBVIOUS
<1>1. Auth!TypeOK
  <2>1. /\ rows \in Seq([family : 1..MaxRows, dev : AuthDevices, from : 0..MaxRows,
                         rotated : BOOLEAN, revoked : BOOLEAN, expired : BOOLEAN])
        /\ Len(rows) <= MaxRows
    BY DEF AuthInv, AuthTable, AuthRow
  <2>2. /\ authSessions \subseteq [id : 1..MaxSessions, tok : Auth!Token, dev : Auth!Device]
        /\ \A s, t \in authSessions : s.tok = t.tok \/ s.id = t.id => s = t
        /\ authLastId \in 0..MaxSessions
    BY AuthNumbers DEF AuthInv, AuthSessionTable
  <2>3. \A r \in Requests : /\ authReq[r].dev \in Auth!Device /\ authReq[r].row \in 0..MaxRows
                            /\ authReq[r].tok \in Auth!Token \cup {Auth!NoToken}
    BY DEF AuthInv, AuthRequests, AuthRequest, AuthTokens
  <2> QED
    BY <2>1, <2>2, <2>3 DEF AuthInv, AuthRest, Auth!TypeOK
<1>2. Auth!ExchangedOnce /\ Auth!FamilyRevokedTogether
    BY DEF AuthInv, AuthTable, AuthRows, Auth!Row, Auth!Usable, Auth!ExchangedOnce,
       Auth!FamilyRevokedTogether
<1>3. Auth!KickedCannotRefresh
    BY DEF AuthInv, AuthRevocation, AuthRows, Auth!Row, Auth!UsableRows, Auth!KickedCannotRefresh
<1>4. Auth!PasswordChangeRevokes
    BY DEF AuthInv, AuthRevocation, AuthRows, AuthBrowsers, Auth!Row, Auth!UsableRows, Auth!At,
       Auth!PasswordChangeRevokes
<1> QED
    BY <1>1, <1>2, <1>3, <1>4

-----------------------------------------------------------------------------
(* Credentials. Three arguments that do not depend on each other: the       *)
(* count of wrong passwords, the backup codes, the limiter.                 *)
CredCode == Cred!Codes \cup {Cred!NoCode}
CredRequest ==
    [kind : {"idle", "password", "totp", "backup", "compare"}, right : BOOLEAN, code : CredCode,
     codes : SUBSET Cred!Codes]
CredTotp == [on : BOOLEAN, secret : Nat, codes : SUBSET Cred!Codes]
CredLimiter == [count : Nat, until : 0..(CredMaxClock + CoolDown)]

CredTypes ==
    /\ attempts \in 0..MaxWrong /\ wrong \in 0..MaxWrong /\ lockedUntil \in 0..(CredMaxClock + Lockout)
    /\ totp \in CredTotp /\ pending \in 0..1 /\ limiter \in CredLimiter
    /\ credReq \in [CredClients -> CredRequest]
    /\ mutex \in CredClients \cup {Cred!NoClient}
    /\ credClock \in 1..CredMaxClock /\ guesses \in Nat
    /\ redeemed \in [Cred!Codes -> Int]

(* The activations there have been are the first ones. The codes in force   *)
(* are of the last of them and unused; so are those a request compares      *)
(* with, unless they are of an earlier one, and that request has the lock.  *)
CredCodes ==
    /\ Cred!LastBatch \in 0..MaxBatch
    /\ \A b \in 1..MaxBatch : redeemed[<<b, 1>>] >= 0 <=> b <= Cred!LastBatch
    /\ \A x \in totp.codes : x[1] = Cred!LastBatch /\ redeemed[x] = 0
    /\ \A c \in CredClients : credReq[c].kind = "compare" =>
          /\ mutex = c
          /\ \A x, y \in credReq[c].codes : x = y
          /\ \A x \in credReq[c].codes :
                x[1] <= Cred!LastBatch /\ (x[1] = Cred!LastBatch => redeemed[x] = 0)
    /\ Cred!BackupCodeOnce

(* Requests that are past the limiter. While it is open it counts every     *)
(* failure; while it is closed nobody joins them.                           *)
CredPast == {c \in CredClients : credReq[c].kind \in {"totp", "backup", "compare"}}
CredLimit ==
    IF credClock >= limiter.until
    THEN guesses = limiter.count /\ guesses < MaxVerify
    ELSE /\ limiter.count = 0
         /\ guesses + Cardinality(CredPast) <= MaxVerify + Cardinality(CredClients) - 1

CredInv == CredTypes /\ Cred!EveryFailureCounts /\ CredCodes /\ CredLimit

-----------------------------------------------------------------------------
(* Finite sets and cardinality of the component are those of the library.   *)
LEMMA CredSets ==
    /\ \A S : Cred!IsFiniteSet(S) <=> IsFiniteSet(S)
    /\ \A S : Cred!Cardinality(S) = Cardinality(S)
<1>1. \A S : Cred!IsFiniteSet(S) <=> IsFiniteSet(S)
    BY DEF Cred!IsFiniteSet, IsFiniteSet
<1>2. \A S : Cred!Cardinality(S) = Cardinality(S)
    BY DEF Cred!Cardinality, Cardinality
<1> QED
    BY <1>1, <1>2

(* There are finitely many clients, and no client is none of them.          *)
LEMMA CredFinite ==
    /\ IsFiniteSet(CredClients) /\ Cardinality(CredClients) \in Nat
    /\ Cred!NoClient \notin CredClients
<1>1. IsFiniteSet(CredClients)
    BY CredAssumption, CredSets DEF Cred!CredentialBounds
<1>2. Cred!NoClient \notin CredClients
    BY Zenon, CredAssumption DEF Cred!CredentialBounds, Cred!NoClient
<1> QED
    BY <1>1, <1>2, FS_CardinalityType

(* The bounds are numbers.                                                  *)
LEMMA CredNumbers ==
    /\ MaxAttempts \in Nat \ {0} /\ MaxVerify \in Nat \ {0} /\ CoolDown \in Nat \ {0}
    /\ Lockout \in Nat /\ MaxWrong \in Nat /\ MaxBatch \in Nat /\ CredMaxClock \in Nat \ {0}
BY CredAssumption DEF Cred!CredentialBounds

(* A backup code is known by the activation that made it.                   *)
LEMMA CredCodeIs ==
    /\ \A x \in Cred!Codes : x = <<x[1], 1>> /\ x[1] \in 1..MaxBatch
    /\ \A b \in 1..MaxBatch : <<b, 1>> \in Cred!Codes
BY DEF Cred!Codes

(* What a request may turn into.                                            *)
LEMMA CredIdle ==
    /\ Cred!Idle \in CredRequest /\ Cred!Idle.kind = "idle"
    /\ \A r \in BOOLEAN : /\ [Cred!Idle EXCEPT !.kind = "password", !.right = r] \in CredRequest
                          /\ [Cred!Idle EXCEPT !.kind = "password", !.right = r].kind = "password"
    /\ \A r \in BOOLEAN : /\ [Cred!Idle EXCEPT !.kind = "totp", !.right = r] \in CredRequest
                          /\ [Cred!Idle EXCEPT !.kind = "totp", !.right = r].kind = "totp"
    /\ \A x \in CredCode : /\ [Cred!Idle EXCEPT !.kind = "backup", !.code = x] \in CredRequest
                           /\ [Cred!Idle EXCEPT !.kind = "backup", !.code = x].kind = "backup"
<1>1. \A x \in CredCode : LET r == [kind |-> "idle", right |-> FALSE, code |-> x, codes |-> {}]
                          IN r \in CredRequest /\ r.kind = "idle"
    BY DEF CredRequest
<1>2. Cred!Idle \in CredRequest /\ Cred!Idle.kind = "idle"
    BY Zenon, <1>1 DEF Cred!Idle, CredCode, Cred!NoCode
<1> QED
    BY <1>2 DEF CredRequest

(* The last activation, from which ones there have been.                    *)
LEMMA CredLast ==
    ASSUME NEW n \in 0..MaxBatch,
           \A b \in 1..MaxBatch : redeemed[<<b, 1>>] >= 0 <=> b <= n
    PROVE  Cred!LastBatch = n
<1>1. {b \in 1..MaxBatch : redeemed[<<b, 1>>] >= 0} = 1..n
    BY CredNumbers
<1>2. Cardinality(1..n) = n
    BY FS_Interval
<1> QED
    BY <1>1, <1>2, CredSets DEF Cred!LastBatch

-----------------------------------------------------------------------------
(* What the steps that touch no code leave alone.                           *)
LEMMA CredCodesKept ==
    ASSUME CredCodes, UNCHANGED redeemed, totp'.codes \subseteq totp.codes,
           \A d \in CredClients : credReq'[d].kind = "compare" => credReq'[d] = credReq[d] /\ mutex' = mutex
    PROVE  CredCodes'
<1>1. Cred!LastBatch' = Cred!LastBatch
    BY DEF Cred!LastBatch
<1>2. Cred!BackupCodeOnce'
    BY <1>1 DEF CredCodes, Cred!BackupCodeOnce
<1> QED
    BY <1>1, <1>2 DEF CredCodes

(* EnableTOTP replaces the backup codes by new ones.                        *)
LEMMA CredCodesEnabled ==
    ASSUME CredTypes, CredCodes, Cred!EnableTOTP
    PROVE  CredCodes'
<1> DEFINE n == Cred!LastBatch
           new == <<n + 1, 1>>
<1>1. /\ n \in Nat /\ n + 1 \in 1..MaxBatch /\ new \in Cred!Codes /\ new[1] = n + 1
      /\ totp' = [on |-> TRUE, secret |-> pending, codes |-> {new}]
      /\ redeemed' = [redeemed EXCEPT ![new] = 0] /\ UNCHANGED <<credReq, mutex>>
    BY CredNumbers, CredCodeIs DEF CredCodes, Cred!EnableTOTP, Cred!RepoEnableTOTP
<1>2. redeemed'[new] = 0 /\ \A x \in Cred!Codes \ {new} : redeemed'[x] = redeemed[x]
    BY <1>1 DEF CredTypes
<1>3. \A b \in 1..MaxBatch : <<b, 1>> \in Cred!Codes /\ (<<b, 1>> = new <=> b = n + 1)
    BY <1>1, CredCodeIs
<1>4. \A b \in 1..MaxBatch : redeemed'[<<b, 1>>] >= 0 <=> b <= n + 1
  <2> HIDE DEF n, new
  <2>1. \A b \in 1..MaxBatch : b # n + 1 => redeemed'[<<b, 1>>] = redeemed[<<b, 1>>]
    BY <1>2, <1>3
  <2>2. \A b \in 1..MaxBatch : b = n + 1 => redeemed'[<<b, 1>>] = 0
    BY <1>2, <1>3
  <2>3. \A b \in 1..MaxBatch : redeemed[<<b, 1>>] >= 0 <=> b <= n
    BY DEF CredCodes, n
  <2>4. n \in Nat
    BY <1>1
  <2> SUFFICES ASSUME NEW b \in 1..MaxBatch PROVE redeemed'[<<b, 1>>] >= 0 <=> b <= n + 1
    OBVIOUS
  <2> DEFINE old == redeemed[<<b, 1>>]
             new2 == redeemed'[<<b, 1>>]
  <2>5. (b # n + 1 => new2 = old) /\ (b = n + 1 => new2 = 0) /\ (old >= 0 <=> b <= n)
    BY <2>1, <2>2, <2>3
  <2> HIDE DEF old, new2
  <2>6. new2 >= 0 <=> b <= n + 1
    BY <2>4, <2>5, CredNumbers
  <2> QED
    BY <2>6 DEF new2
<1>5. Cred!LastBatch' = n + 1
  <2>1. {b \in 1..MaxBatch : redeemed'[<<b, 1>>] >= 0} = 1..(n + 1)
    BY <1>1, <1>4, CredNumbers
  <2>2. Cardinality(1..(n + 1)) = n + 1
    BY <1>1, FS_Interval
  <2> QED
    BY <2>1, <2>2, CredSets DEF Cred!LastBatch
<1>6. totp'.codes = {new}
    BY <1>1
<1> HIDE DEF n, new
<1>7. \A c \in CredClients : credReq[c].kind = "compare" =>
          \A x \in credReq[c].codes : x[1] <= n /\ x[1] \in Int
    BY CredCodeIs DEF CredTypes, CredRequest, CredCodes, n
<1>8. \A c \in CredClients : credReq'[c].kind = "compare" =>
          /\ mutex' = c
          /\ \A x, y \in credReq'[c].codes : x = y
          /\ \A x \in credReq'[c].codes : x[1] <= n + 1 /\ (x[1] = n + 1 => redeemed'[x] = 0)
    BY <1>1, <1>7 DEF CredCodes
<1>9. Cred!BackupCodeOnce'
  <2> SUFFICES ASSUME NEW x \in Cred!Codes, redeemed'[x] >= 1, x[1] = n + 1
               PROVE  FALSE
    BY <1>5 DEF Cred!BackupCodeOnce
  <2>1. x = new
    BY CredCodeIs DEF new
  <2> QED
    BY <1>2, <2>1
<1> QED
    BY <1>1, <1>2, <1>4, <1>5, <1>6, <1>8, <1>9 DEF CredCodes

(* VerifyBackupCode reads the codes under the lock.                         *)
LEMMA CredCodesLocked ==
    ASSUME CredTypes, CredCodes, NEW c \in CredClients, Cred!LockCodes(c)
    PROVE  CredCodes'
<1> DEFINE r == [credReq[c] EXCEPT !.kind = "compare", !.codes = totp.codes]
<1>1. \A d \in CredClients : credReq[d].kind # "compare"
    BY CredFinite DEF CredCodes, Cred!LockCodes
<1>2. CASE ~totp.on
    BY <1>1, <1>2, CredIdle, CredCodesKept DEF Cred!LockCodes, Cred!Now, CredTypes
<1>3. CASE totp.on
  <2>1. /\ mutex' = c /\ UNCHANGED <<redeemed, totp>>
        /\ credReq' = [credReq EXCEPT ![c] = r] /\ r.codes = totp.codes /\ credReq[c] \in CredRequest
    BY <1>3 DEF Cred!LockCodes, Cred!Now, Cred!GetBackupCodes, CredTypes, CredRequest
  <2>2. credReq'[c].codes = totp.codes /\ \A d \in CredClients \ {c} : credReq'[d] = credReq[d]
    BY <2>1 DEF CredTypes
  <2>3. Cred!LastBatch' = Cred!LastBatch
    BY <2>1 DEF Cred!LastBatch
  <2>4. Cred!BackupCodeOnce'
    BY <2>1, <2>3 DEF CredCodes, Cred!BackupCodeOnce
  <2>5. \A x \in totp.codes : x = <<Cred!LastBatch, 1>> /\ x[1] <= Cred!LastBatch
    BY CredCodeIs DEF CredTypes, CredTotp, CredCodes
  <2>6. \A d \in CredClients : credReq'[d].kind = "compare" =>
          /\ mutex' = d
          /\ \A x, y \in credReq'[d].codes : x = y
          /\ \A x \in credReq'[d].codes :
                x[1] <= Cred!LastBatch /\ (x[1] = Cred!LastBatch => redeemed[x] = 0)
    BY <1>1, <2>1, <2>2, <2>5 DEF CredCodes
  <2> QED
    BY <2>1, <2>3, <2>4, <2>6 DEF CredCodes
<1> QED
    BY <1>2, <1>3

(* VerifyBackupCode compares, and removes the code that matched.            *)
LEMMA CredCodesCompared ==
    ASSUME CredTypes, CredCodes, NEW c \in CredClients, Cred!VerifyBackupCode(c)
    PROVE  CredCodes'
<1> DEFINE x == credReq[c].code
           n == Cred!LastBatch
<1>1. /\ credReq[c].kind = "compare" /\ credReq[c] \in CredRequest
      /\ credReq' = [credReq EXCEPT ![c] = Cred!Idle]
    BY DEF Cred!VerifyBackupCode, Cred!Succeeds, Cred!Fails, Cred!Now, CredTypes
<1>2. \A d \in CredClients : credReq'[d].kind # "compare"
    BY <1>1, CredIdle DEF CredTypes, CredCodes
<1>3. CASE x \notin credReq[c].codes
    BY <1>2, <1>3, CredCodesKept DEF Cred!VerifyBackupCode
<1>4. CASE x \in credReq[c].codes
  <2>1. /\ totp' = [totp EXCEPT !.codes = credReq[c].codes \ {x}]
        /\ redeemed' = [redeemed EXCEPT ![x] = @ + 1]
    BY <1>4 DEF Cred!VerifyBackupCode, Cred!UpdateBackupCodes
  <2>2. credReq[c].codes \ {x} = {}
    BY <1>1, <1>4 DEF CredCodes
  <2>3. totp'.codes = {}
    BY <2>1, <2>2 DEF CredTypes, CredTotp
  <2>4. x \in Cred!Codes /\ x = <<x[1], 1>> /\ x[1] \in 1..MaxBatch /\ x[1] <= n /\ (x[1] = n => redeemed[x] = 0)
    BY <1>1, <1>4, CredCodeIs DEF CredCodes, CredRequest
  <2>5. redeemed[x] >= 0 /\ redeemed[x] \in Int
    BY <2>4 DEF CredCodes, CredTypes
  <2> HIDE DEF x, n
  <2>6. redeemed'[x] = redeemed[x] + 1 /\ \A y \in Cred!Codes \ {x} : redeemed'[y] = redeemed[y]
    BY <2>1, <2>4 DEF CredTypes
  <2>7. \A b \in 1..MaxBatch : redeemed'[<<b, 1>>] >= 0 <=> redeemed[<<b, 1>>] >= 0
    <3>1. \A b \in 1..MaxBatch : <<b, 1>> \in Cred!Codes
      BY CredCodeIs
    <3>2. \A y \in Cred!Codes : redeemed'[y] >= 0 <=> redeemed[y] >= 0
      BY <2>5, <2>6
    <3> QED
      BY <3>1, <3>2
  <2>8. Cred!LastBatch' = n
    BY <2>7 DEF Cred!LastBatch, n
  <2>9. Cred!BackupCodeOnce'
    BY <2>3, <2>4, <2>6, <2>8 DEF CredCodes, Cred!BackupCodeOnce, n
  <2> QED
    BY <1>2, <2>3, <2>7, <2>8, <2>9 DEF CredCodes, n
<1> QED
    BY <1>3, <1>4

-----------------------------------------------------------------------------
(* The request of a client turns into r.                                    *)
LEMMA CredMoved ==
    ASSUME credReq \in [CredClients -> CredRequest], NEW c \in CredClients, NEW r \in CredRequest,
           credReq' = [credReq EXCEPT ![c] = r]
    PROVE  /\ credReq' \in [CredClients -> CredRequest] /\ credReq'[c] = r
           /\ \A d \in CredClients \ {c} : credReq'[d] = credReq[d]
           /\ r.kind = "idle" => CredPast' = CredPast \ {c}
           /\ r.kind \in {"totp", "backup", "compare"} /\ c \in CredPast => CredPast' = CredPast
           /\ r.kind = "password" /\ c \notin CredPast => CredPast' = CredPast
BY DEF CredPast

(* The requests past the limiter are finitely many; one fewer when one of   *)
(* them answers.                                                            *)
LEMMA CredPastFinite ==
    /\ IsFiniteSet(CredPast) /\ Cardinality(CredPast) \in Nat
    /\ \A c \in CredPast : /\ Cardinality(CredPast \ {c}) = Cardinality(CredPast) - 1
                           /\ Cardinality(CredPast \ {c}) <= Cardinality(CredClients) - 1
<1>1. CredPast \subseteq CredClients
    BY DEF CredPast
<1>2. IsFiniteSet(CredPast) /\ Cardinality(CredPast) <= Cardinality(CredClients)
    BY <1>1, CredFinite, FS_Subset
<1>3. Cardinality(CredPast) \in Nat
    BY <1>2, FS_CardinalityType
<1>4. ASSUME NEW c \in CredPast
      PROVE  Cardinality(CredPast \ {c}) = Cardinality(CredPast) - 1
    BY <1>2, FS_RemoveElement
<1> QED
    BY <1>2, <1>3, <1>4, CredFinite

(* Nobody passes the limiter, or it is open: the bound on guesses is kept.  *)
LEMMA CredLimitKept ==
    ASSUME CredLimit, UNCHANGED <<limiter, guesses, credClock>>,
           guesses \in Nat,
           CredPast' \subseteq CredPast \/ credClock >= limiter.until
    PROVE  CredLimit'
<1>1. CASE credClock >= limiter.until
    BY <1>1 DEF CredLimit
<1>2. CASE ~(credClock >= limiter.until)
  <2>1. CredPast' \subseteq CredPast
    BY <1>2
  <2>2. Cardinality(CredPast') <= Cardinality(CredPast) /\ IsFiniteSet(CredPast')
    BY <2>1, CredPastFinite, FS_Subset
  <2>3. Cardinality(CredPast') \in Nat
    BY <2>2, FS_CardinalityType
  <2> QED
    BY <1>2, <2>2, <2>3, CredPastFinite, CredFinite, CredNumbers DEF CredLimit
<1> QED
    BY <1>1, <1>2

(* The failure that closes the limiter is of a request past it, so that one *)
(* less than all the clients can still fail.                                *)
LEMMA CredLimitFails ==
    ASSUME CredTypes, CredLimit, NEW c \in CredPast, CredPast' = CredPast \ {c},
           Cred!RecordFailure, guesses' = guesses + 1, UNCHANGED credClock
    PROVE  CredLimit' /\ limiter' \in CredLimiter
<1>1. /\ limiter.count \in Nat /\ limiter.until \in Nat /\ credClock \in Nat /\ guesses \in Nat
      /\ limiter \in CredLimiter /\ credClock <= CredMaxClock
    BY CredNumbers DEF CredTypes, CredLimiter
<1>2. CASE credClock < limiter.until
  <2>1. limiter' = limiter
    BY <1>2 DEF Cred!RecordFailure
  <2>2. Cardinality(CredPast') = Cardinality(CredPast) - 1
    BY CredPastFinite
  <2> QED
    BY <1>1, <1>2, <2>1, <2>2, CredPastFinite, CredFinite, CredNumbers DEF CredLimit
<1>3. CASE ~(credClock < limiter.until) /\ limiter.count + 1 >= MaxVerify
  <2>1. /\ limiter' = [count |-> 0, until |-> credClock + CoolDown]
        /\ limiter'.count = 0 /\ limiter'.until = credClock + CoolDown
    BY <1>3 DEF Cred!RecordFailure
  <2>2. Cardinality(CredPast') <= Cardinality(CredClients) - 1 /\ Cardinality(CredPast') \in Int
    BY CredPastFinite
  <2>3. guesses' = MaxVerify
    BY <1>1, <1>3, CredNumbers DEF CredLimit
  <2>4. limiter' \in CredLimiter
    BY <1>1, <2>1, CredNumbers DEF CredLimiter
  <2>5. CredLimit'
    BY <1>1, <2>1, <2>2, <2>3, CredFinite, CredNumbers DEF CredLimit
  <2> QED
    BY <2>4, <2>5
<1>4. CASE ~(credClock < limiter.until) /\ ~(limiter.count + 1 >= MaxVerify)
  <2>1. limiter' = [limiter EXCEPT !.count = @ + 1]
    BY <1>4 DEF Cred!RecordFailure
  <2>2. /\ limiter'.count = limiter.count + 1 /\ limiter'.until = limiter.until
        /\ limiter' \in CredLimiter
    BY <1>1, <2>1 DEF CredLimiter
  <2> QED
    BY <1>1, <1>4, <2>2, CredNumbers DEF CredLimit
<1> QED
    BY <1>2, <1>3, <1>4

(* A reset of the limiter forgets the guesses.                              *)
LEMMA CredLimitReset ==
    ASSUME CredTypes, Cred!Reset, guesses' = 0, UNCHANGED credClock
    PROVE  CredLimit' /\ limiter' \in CredLimiter
<1>1. limiter' = [count |-> 0, until |-> 0] /\ limiter'.count = 0 /\ limiter'.until = 0
    BY DEF Cred!Reset
<1> QED
    BY <1>1, CredNumbers DEF CredTypes, CredLimit, CredLimiter

(* Time passes; the limiter may open.                                       *)
LEMMA CredLimitTick ==
    ASSUME CredTypes, CredLimit, Cred!Tick
    PROVE  CredLimit'
<1>1. /\ limiter.count \in Nat /\ limiter.until \in Nat /\ credClock \in Nat /\ guesses \in Nat
      /\ credClock' = credClock + 1 /\ limiter' = limiter
      /\ guesses' = IF credClock < limiter.until /\ credClock + 1 >= limiter.until THEN 0 ELSE guesses
    BY CredNumbers DEF CredTypes, CredLimiter, Cred!Tick
<1>2. CredPast' = CredPast
    BY DEF Cred!Tick, CredPast
<1> QED
    BY <1>1, <1>2, CredNumbers, CredFinite, CredPastFinite DEF CredLimit

-----------------------------------------------------------------------------
(* The invariant holds at the start.                                        *)
LEMMA CredInit == Cred!Init => CredInv
<1> SUFFICES ASSUME Cred!Init PROVE CredInv
    OBVIOUS
<1>1. /\ attempts = 0 /\ wrong = 0 /\ lockedUntil = 0 /\ pending = 0 /\ credClock = 1 /\ guesses = 0
      /\ totp = [on |-> FALSE, secret |-> 0, codes |-> {}] /\ totp.codes = {}
      /\ limiter = [count |-> 0, until |-> 0] /\ limiter.count = 0 /\ limiter.until = 0
      /\ credReq = [c \in CredClients |-> Cred!Idle] /\ mutex = Cred!NoClient
      /\ redeemed = [x \in Cred!Codes |-> -1]
    BY DEF Cred!Init, Cred!Off
<1>2. CredTypes
  <2>1. totp \in CredTotp
    BY <1>1 DEF CredTotp
  <2>2. limiter \in CredLimiter
    BY <1>1, CredNumbers DEF CredLimiter
  <2>3. credReq \in [CredClients -> CredRequest]
    BY <1>1, CredIdle
  <2>4. redeemed \in [Cred!Codes -> Int]
    BY <1>1
  <2> QED
    BY <1>1, <2>1, <2>2, <2>3, <2>4, CredNumbers DEF CredTypes
<1>3. CredCodes
  <2>1. \A x \in Cred!Codes : redeemed[x] = -1
    BY <1>1
  <2>2. \A b \in 1..MaxBatch : redeemed[<<b, 1>>] >= 0 <=> b <= 0
    <3> SUFFICES ASSUME NEW b \in 1..MaxBatch PROVE redeemed[<<b, 1>>] >= 0 <=> b <= 0
      OBVIOUS
    <3>1. redeemed[<<b, 1>>] = -1
      BY <2>1, CredCodeIs
    <3> QED
      BY <3>1
  <2>3. Cred!LastBatch = 0
    BY <2>2, CredLast, CredNumbers
  <2>4. Cred!BackupCodeOnce
    BY <2>1 DEF Cred!BackupCodeOnce
  <2>5. \A c \in CredClients : credReq[c].kind # "compare"
    BY <1>1, CredIdle
  <2> QED
    BY <1>1, <2>2, <2>3, <2>4, <2>5, CredNumbers DEF CredCodes
<1>4. CredLimit /\ Cred!EveryFailureCounts
    BY <1>1, CredNumbers DEF CredLimit, Cred!EveryFailureCounts
<1> QED
    BY <1>2, <1>3, <1>4 DEF CredInv

(* Every step of the credentials keeps the invariant.                       *)
LEMMA CredStep == CredInv /\ Cred!Next => CredInv'
<1> SUFFICES ASSUME CredInv, Cred!Next PROVE CredInv'
    OBVIOUS
<1>a. CredTypes /\ CredCodes /\ CredLimit /\ Cred!EveryFailureCounts
    BY DEF CredInv
<1>b. /\ credReq \in [CredClients -> CredRequest] /\ guesses \in Nat
      /\ \A c \in CredClients : credReq[c].kind = "idle" => c \notin CredPast
    BY <1>a DEF CredTypes, CredPast
<1> USE <1>a, <1>b
<1>1. ASSUME NEW c \in CredClients, NEW right \in BOOLEAN, Cred!LoginWithInfo(c, right)
      PROVE  CredInv'
  <2> DEFINE r == [Cred!Idle EXCEPT !.kind = "password", !.right = right]
  <2>1. /\ r \in CredRequest /\ r.kind = "password" /\ credReq[c].kind = "idle"
        /\ credReq' = [credReq EXCEPT ![c] = r]
        /\ UNCHANGED <<attempts, lockedUntil, totp, pending, limiter, temps, mutex, credClock,
                       wrong, guesses, redeemed>>
    BY <1>1, CredIdle DEF Cred!LoginWithInfo, Cred!Now
  <2> HIDE DEF r
  <2>2. /\ credReq' \in [CredClients -> CredRequest] /\ credReq'[c] = r
        /\ \A d \in CredClients \ {c} : credReq'[d] = credReq[d]
        /\ CredPast' = CredPast
    BY <2>1, CredMoved
  <2>3. CredTypes'
    BY <2>1, <2>2 DEF CredTypes
  <2>4. CredCodes'
    BY <2>1, <2>2, CredCodesKept
  <2>5. CredLimit'
    BY <2>1, <2>2, CredLimitKept
  <2> QED
    BY <2>1, <2>3, <2>4, <2>5 DEF CredInv, Cred!EveryFailureCounts
<1>2. ASSUME NEW c \in CredClients, Cred!LoginFails(c) \/ Cred!Login(c)
      PROVE  CredInv'
  <2>1. /\ credReq[c].kind = "password" /\ credReq' = [credReq EXCEPT ![c] = Cred!Idle]
        /\ UNCHANGED <<totp, pending, limiter, mutex, credClock, guesses, redeemed>>
    BY <1>2 DEF Cred!LoginFails, Cred!Login, Cred!Now
  <2>2. /\ credReq' \in [CredClients -> CredRequest] /\ credReq'[c] = Cred!Idle
        /\ \A d \in CredClients \ {c} : credReq'[d] = credReq[d]
        /\ CredPast' = CredPast \ {c}
    BY <2>1, CredMoved, CredIdle
  <2>3. /\ attempts' \in 0..MaxWrong /\ wrong' \in 0..MaxWrong
        /\ lockedUntil' \in 0..(CredMaxClock + Lockout) /\ Cred!EveryFailureCounts'
    BY <1>2, CredNumbers
    DEF Cred!LoginFails, Cred!Login, Cred!IncrementLoginAttempts, Cred!ResetLoginState, CredTypes,
        Cred!EveryFailureCounts
  <2>4. CredTypes'
    BY <2>1, <2>2, <2>3 DEF CredTypes
  <2>5. CredCodes'
    BY <2>1, <2>2, CredIdle, CredCodesKept
  <2>6. CredLimit'
    BY <2>1, <2>2, CredLimitKept
  <2> QED
    BY <2>3, <2>4, <2>5, <2>6 DEF CredInv
<1>3. ASSUME NEW c \in CredClients, NEW r \in CredRequest, NEW t, Cred!SecondStep(c, t, r),
             r.kind \in {"totp", "backup"}
      PROVE  CredInv'
  <2>1. /\ credReq' = [credReq EXCEPT ![c] = r] /\ credClock >= limiter.until
        /\ UNCHANGED <<attempts, lockedUntil, totp, pending, limiter, temps, mutex, credClock,
                       wrong, guesses, redeemed>>
    BY <1>3 DEF Cred!SecondStep, Cred!Allowed, Cred!Now
  <2>2. /\ credReq' \in [CredClients -> CredRequest] /\ credReq'[c] = r
        /\ \A d \in CredClients \ {c} : credReq'[d] = credReq[d]
    BY <2>1, CredMoved
  <2>3. CredTypes'
    BY <2>1, <2>2 DEF CredTypes
  <2>4. CredCodes'
    BY <1>3, <2>1, <2>2, CredCodesKept
  <2>5. CredLimit'
    BY <2>1, CredLimitKept
  <2> QED
    BY <2>1, <2>3, <2>4, <2>5 DEF CredInv, Cred!EveryFailureCounts
<1>4. ASSUME NEW c \in CredClients, NEW t \in temps, NEW right \in BOOLEAN, Cred!PostTOTP(c, t, right)
      PROVE  CredInv'
    BY <1>3, <1>4, CredIdle DEF Cred!PostTOTP
<1>5. ASSUME NEW c \in CredClients, NEW t \in temps, NEW code \in CredCode, Cred!PostBackup(c, t, code)
      PROVE  CredInv'
    BY <1>3, <1>5, CredIdle DEF Cred!PostBackup
<1>6. ASSUME NEW c \in CredClients, Cred!VerifyTOTP(c)
      PROVE  CredInv'
  <2>1. /\ credReq[c].kind = "totp" /\ c \in CredPast /\ credReq' = [credReq EXCEPT ![c] = Cred!Idle]
        /\ UNCHANGED <<attempts, lockedUntil, totp, pending, temps, mutex, credClock, wrong, redeemed>>
    BY <1>6 DEF Cred!VerifyTOTP, Cred!Succeeds, Cred!Fails, Cred!Now, CredPast
  <2>2. /\ credReq' \in [CredClients -> CredRequest] /\ credReq'[c] = Cred!Idle
        /\ \A d \in CredClients \ {c} : credReq'[d] = credReq[d]
        /\ CredPast' = CredPast \ {c}
    BY <2>1, CredMoved, CredIdle
  <2>3. CredLimit' /\ limiter' \in CredLimiter /\ guesses' \in Nat
    <3>1. CASE UNCHANGED <<limiter, guesses>>
      BY <2>1, <2>2, <3>1, CredLimitKept DEF CredTypes
    <3>2. CASE Cred!Succeeds(c)
      BY <2>1, <3>2, CredLimitReset DEF Cred!Succeeds
    <3>3. CASE Cred!Fails(c)
      BY <2>1, <2>2, <3>3, CredLimitFails DEF Cred!Fails
    <3> QED
      BY <1>6, <3>1, <3>2, <3>3 DEF Cred!VerifyTOTP
  <2>4. CredTypes'
    BY <2>1, <2>2, <2>3 DEF CredTypes
  <2>5. CredCodes'
    BY <2>1, <2>2, CredIdle, CredCodesKept
  <2> QED
    BY <2>1, <2>3, <2>4, <2>5 DEF CredInv, Cred!EveryFailureCounts
<1>7. ASSUME NEW c \in CredClients, Cred!LockCodes(c)
      PROVE  CredInv'
  <2> DEFINE r == IF totp.on THEN [credReq[c] EXCEPT !.kind = "compare", !.codes = totp.codes] ELSE Cred!Idle
  <2>1. /\ credReq[c].kind = "backup" /\ c \in CredPast /\ credReq' = [credReq EXCEPT ![c] = r]
        /\ mutex' \in {mutex, c}
        /\ UNCHANGED <<attempts, lockedUntil, totp, pending, limiter, temps, credClock, wrong, guesses, redeemed>>
    BY <1>7 DEF Cred!LockCodes, Cred!GetBackupCodes, Cred!Now, CredPast
  <2>2. r \in CredRequest /\ r.kind \in {"compare", "idle"}
    <3>1. CASE ~totp.on
      BY <3>1, CredIdle
    <3>2. CASE totp.on
      <4>1. credReq[c] \in CredRequest /\ totp.codes \subseteq Cred!Codes
        BY DEF CredTypes, CredTotp
      <4>2. r = [credReq[c] EXCEPT !.kind = "compare", !.codes = totp.codes]
        BY <3>2
      <4> HIDE DEF r
      <4> QED
        BY <4>1, <4>2 DEF CredRequest
    <3> QED
      BY <3>1, <3>2
  <2> HIDE DEF r
  <2>3. credReq' \in [CredClients -> CredRequest] /\ CredPast' \subseteq CredPast
    BY <2>1, <2>2, CredMoved
  <2>4. CredTypes'
    BY <2>1, <2>3 DEF CredTypes
  <2>5. CredCodes'
    BY <1>7, CredCodesLocked
  <2>6. CredLimit'
    BY <2>1, <2>3, CredLimitKept
  <2> QED
    BY <2>1, <2>4, <2>5, <2>6 DEF CredInv, Cred!EveryFailureCounts
<1>8. ASSUME NEW c \in CredClients, Cred!VerifyBackupCode(c)
      PROVE  CredInv'
  <2>1. /\ credReq[c].kind = "compare" /\ c \in CredPast /\ credReq' = [credReq EXCEPT ![c] = Cred!Idle]
        /\ mutex' = Cred!NoClient
        /\ UNCHANGED <<attempts, lockedUntil, pending, temps, credClock, wrong>>
    BY <1>8 DEF Cred!VerifyBackupCode, Cred!Succeeds, Cred!Fails, Cred!Now, CredPast
  <2>2. /\ credReq' \in [CredClients -> CredRequest]
        /\ CredPast' = CredPast \ {c}
    BY <2>1, CredMoved, CredIdle
  <2>3. CredLimit' /\ limiter' \in CredLimiter /\ guesses' \in Nat
    <3>1. CASE Cred!Succeeds(c)
      BY <2>1, <3>1, CredLimitReset DEF Cred!Succeeds
    <3>2. CASE Cred!Fails(c)
      BY <2>1, <2>2, <3>2, CredLimitFails DEF Cred!Fails
    <3> QED
      BY <1>8, <3>1, <3>2 DEF Cred!VerifyBackupCode
  <2>4. totp' \in CredTotp /\ redeemed' \in [Cred!Codes -> Int]
    <3>1. credReq[c].codes \subseteq Cred!Codes
      BY DEF CredRequest
    <3> QED
      BY <1>8, <3>1 DEF Cred!VerifyBackupCode, Cred!UpdateBackupCodes, CredTypes, CredTotp
  <2>5. CredTypes'
    BY <2>1, <2>2, <2>3, <2>4 DEF CredTypes
  <2>6. CredCodes'
    BY <1>8, CredCodesCompared
  <2> QED
    BY <2>1, <2>3, <2>5, <2>6 DEF CredInv, Cred!EveryFailureCounts
<1>9. CASE Cred!EnableTOTP
  <2>1. /\ UNCHANGED <<attempts, lockedUntil, pending, limiter, temps, credReq, mutex, credClock, wrong, guesses>>
        /\ CredPast' = CredPast
    BY <1>9 DEF Cred!EnableTOTP, CredPast
  <2>2. totp' \in CredTotp /\ redeemed' \in [Cred!Codes -> Int]
    <3>1. <<Cred!LastBatch + 1, 1>> \in Cred!Codes /\ pending \in Nat
      BY <1>9, CredCodeIs, CredNumbers DEF Cred!EnableTOTP, CredCodes, CredTypes
    <3> QED
      BY <1>9, <3>1 DEF Cred!EnableTOTP, Cred!RepoEnableTOTP, CredTypes, CredTotp
  <2>3. CredTypes'
    BY <2>1, <2>2 DEF CredTypes
  <2>4. CredCodes'
    BY <1>9, CredCodesEnabled
  <2>5. CredLimit'
    BY <2>1, CredLimitKept
  <2> QED
    BY <2>1, <2>3, <2>4, <2>5 DEF CredInv, Cred!EveryFailureCounts
<1>10. CASE Cred!SetupTOTP \/ Cred!DisableTOTP \/ Cred!UnlockUser
  <2>1. UNCHANGED <<limiter, temps, credReq, mutex, credClock, guesses, redeemed>> /\ CredPast' = CredPast
    BY <1>10 DEF Cred!SetupTOTP, Cred!DisableTOTP, Cred!UnlockUser, CredPast
  <2>2. totp' \in CredTotp /\ totp'.codes \subseteq totp.codes
    <3>1. totp' = totp \/ totp' = [on |-> FALSE, secret |-> 0, codes |-> {}]
      BY <1>10 DEF Cred!SetupTOTP, Cred!DisableTOTP, Cred!UnlockUser, Cred!RepoDisableTOTP, Cred!Off
    <3>2. totp \in CredTotp
      BY DEF CredTypes
    <3>3. ASSUME totp' = [on |-> FALSE, secret |-> 0, codes |-> {}]
          PROVE  totp' \in CredTotp /\ totp'.codes = {}
      BY <3>3 DEF CredTotp
    <3> QED
      BY <3>1, <3>2, <3>3
  <2>3. /\ attempts' \in 0..MaxWrong /\ wrong' \in 0..MaxWrong /\ pending' \in 0..1
        /\ lockedUntil' \in 0..(CredMaxClock + Lockout) /\ Cred!EveryFailureCounts'
    BY <1>10, CredNumbers
    DEF Cred!SetupTOTP, Cred!DisableTOTP, Cred!UnlockUser, Cred!ResetLoginState, CredTypes, Cred!EveryFailureCounts
  <2>4. CredTypes'
    BY <2>1, <2>2, <2>3 DEF CredTypes
  <2>5. CredCodes'
    BY <2>1, <2>2, CredCodesKept
  <2>6. CredLimit'
    BY <2>1, CredLimitKept
  <2> QED
    BY <2>3, <2>4, <2>5, <2>6 DEF CredInv
<1>11. CASE Cred!Tick
  <2>1. /\ credClock' \in 1..CredMaxClock /\ guesses' \in Nat
        /\ UNCHANGED <<attempts, lockedUntil, totp, pending, limiter, credReq, mutex, wrong, redeemed>>
    BY <1>11, CredNumbers DEF Cred!Tick, CredTypes
  <2>2. CredTypes'
    BY <2>1 DEF CredTypes
  <2>3. CredCodes'
    BY <2>1, CredCodesKept
  <2>4. CredLimit'
    BY <1>11, CredLimitTick
  <2> QED
    BY <2>1, <2>2, <2>3, <2>4 DEF CredInv, Cred!EveryFailureCounts
<1> QED
    BY <1>1, <1>2, <1>4, <1>5, <1>6, <1>7, <1>8, <1>9, <1>10, <1>11 DEF Cred!Next, CredCode

(* The invariant holds on while the part does nothing.                      *)
LEMMA CredStutter == CredInv /\ UNCHANGED credVars => CredInv'
<1> SUFFICES ASSUME CredInv, UNCHANGED credVars PROVE CredInv'
    OBVIOUS
<1>1. CredTypes' /\ Cred!EveryFailureCounts'
    BY DEF credVars, CredInv, CredTypes, Cred!EveryFailureCounts
<1>2. CredCodes'
    BY CredCodesKept DEF credVars, CredInv
<1>3. CredLimit'
    BY DEF credVars, CredInv, CredLimit, CredPast
<1> QED
    BY <1>1, <1>2, <1>3 DEF CredInv

(* What the invariant says: the type invariant and the three properties.    *)
LEMMA CredTypeOK == CredInv => Cred!TypeOK /\ Cred!BackupCodeOnce /\ Cred!EveryFailureCounts /\ Cred!GuessesBounded
<1> SUFFICES ASSUME CredInv
             PROVE  Cred!TypeOK /\ Cred!BackupCodeOnce /\ Cred!EveryFailureCounts /\ Cred!GuessesBounded
    OBVIOUS
<1>1. Cred!TypeOK
    BY CredNumbers DEF CredInv, CredTypes, CredTotp, CredLimiter, CredRequest, Cred!TypeOK
<1>2. Cred!GuessesBounded
    BY CredNumbers, CredFinite, CredPastFinite, CredSets DEF CredInv, CredTypes, CredLimit, Cred!GuessesBounded
<1> QED
    BY <1>1, <1>2 DEF CredInv, CredCodes

-----------------------------------------------------------------------------
(* QR-code logins. A code that waits, or waits to be picked up, has not     *)
(* been handed out; neither has one that does not exist yet.                *)
QrRow == [status : {"pending", "confirmed", "consumed"}, exp : Nat]
QrTypes ==
    /\ lastToken \in 0..QrMaxToken
    /\ DOMAIN qrSessions \subseteq 1..lastToken
    /\ qrSessions \in [DOMAIN qrSessions -> QrRow]
    /\ sweeping \subseteq Browsers /\ raced \in BOOLEAN /\ qrClock \in 1..QrMaxClock
    /\ given \in [1..QrMaxToken -> Nat]

QrClaims ==
    /\ \A t \in DOMAIN qrSessions :
          /\ qrSessions[t].status \in {"pending", "confirmed"} => given[t] = 0
          /\ qrSessions[t].status = "confirmed" => t \in webTokens
    /\ \A t \in 1..QrMaxToken : t > lastToken => given[t] = 0

QrInv == QrTypes /\ QrClaims /\ Qr!ClaimedOnce

(* The invariant holds at the start.                                        *)
LEMMA QrInit == Qr!Init => QrInv
<1> SUFFICES ASSUME Qr!Init PROVE QrInv
    OBVIOUS
<1> USE QrAssumption DEF Qr!QrBounds, Qr!Init
<1>1. 1..0 = {}
    OBVIOUS
<1>2. DOMAIN qrSessions = {} /\ qrSessions \in [{} -> QrRow]
    OBVIOUS
<1>3. QrTypes
  <2>1. lastToken = 0 /\ sweeping = {} /\ qrClock \in 1..QrMaxClock /\ 0 \in 0..QrMaxToken
    OBVIOUS
  <2>2. raced \in BOOLEAN /\ given \in [1..QrMaxToken -> Nat]
    BY Zenon
  <2> QED
    BY <1>1, <1>2, <2>1, <2>2 DEF QrTypes
<1>4. QrClaims /\ Qr!ClaimedOnce
    BY <1>2 DEF QrClaims, Qr!ClaimedOnce
<1> QED
    BY <1>3, <1>4 DEF QrInv

(* The map of sessions loses entries, the rest stays.                       *)
LEMMA QrDropStep ==
    ASSUME QrInv, NEW S, S \subseteq DOMAIN qrSessions,
           qrSessions' = [t \in S |-> qrSessions[t]],
           sweeping' \subseteq Browsers, raced' \in BOOLEAN,
           UNCHANGED <<lastToken, qrClock, webTokens, given>>
    PROVE  QrInv'
<1>1. QrTypes'
    BY DEF QrInv, QrTypes
<1>2. QrClaims' /\ Qr!ClaimedOnce'
    BY DEF QrInv, QrClaims, Qr!ClaimedOnce
<1> QED
    BY <1>1, <1>2 DEF QrInv

(* A session changes its status.                                            *)
LEMMA QrRowChanged ==
    ASSUME QrInv, NEW t \in DOMAIN qrSessions, NEW st \in {"pending", "confirmed", "consumed"},
           qrSessions' = [qrSessions EXCEPT ![t].status = st]
    PROVE  /\ DOMAIN qrSessions' = DOMAIN qrSessions
           /\ qrSessions' \in [DOMAIN qrSessions' -> QrRow]
           /\ qrSessions'[t].status = st
           /\ \A u \in DOMAIN qrSessions \ {t} : qrSessions'[u] = qrSessions[u]
BY DEF QrInv, QrTypes, QrRow

(* A new QR code gets a fresh token.                                        *)
LEMMA QrCreateStep ==
    ASSUME QrInv, NEW b \in Browsers, Qr!CreateSession(b)
    PROVE  QrInv'
<1> DEFINE N == lastToken + 1
           row == [status |-> "pending", exp |-> qrClock + PendingTTL]
           kept == Qr!cleanupExpiredLocked
<1>1. /\ lastToken \in Nat /\ lastToken < QrMaxToken /\ lastToken' = N /\ N \in 1..QrMaxToken
      /\ qrSessions' = Qr!With(kept, N, row)
      /\ sweeping' \subseteq Browsers /\ raced' \in BOOLEAN /\ UNCHANGED <<qrClock, webTokens, given>>
    BY QrAssumption DEF Qr!CreateSession, QrInv, QrTypes, Qr!QrBounds
<1>2. row \in QrRow
    BY QrAssumption DEF QrRow, QrInv, QrTypes, Qr!QrBounds
<1>3. DOMAIN kept \subseteq DOMAIN qrSessions /\ \A t \in DOMAIN kept : kept[t] = qrSessions[t]
    BY DEF Qr!cleanupExpiredLocked, Qr!Without
<1> HIDE DEF kept, row
<1>4. /\ DOMAIN qrSessions' = DOMAIN kept \cup {N}
      /\ qrSessions'[N] = row
      /\ \A t \in DOMAIN kept \ {N} : qrSessions'[t] = kept[t]
      /\ qrSessions' = [t \in DOMAIN kept \cup {N} |-> qrSessions'[t]]
    BY <1>1 DEF Qr!With
<1>5. \A t \in DOMAIN kept : t \in 1..lastToken /\ t # N /\ kept[t] \in QrRow
    BY <1>1, <1>3 DEF QrInv, QrTypes
<1>6. qrSessions' \in [DOMAIN qrSessions' -> QrRow] /\ DOMAIN qrSessions' \subseteq 1..N
    BY <1>1, <1>2, <1>4, <1>5
<1>7. QrTypes'
    BY <1>1, <1>6 DEF QrInv, QrTypes
<1>8. given[N] = 0 /\ row.status = "pending"
    BY <1>1 DEF QrInv, QrClaims, row
<1>9. QrClaims'
    BY <1>1, <1>3, <1>4, <1>5, <1>8 DEF QrInv, QrClaims
<1>10. Qr!ClaimedOnce'
    BY <1>1 DEF QrInv, Qr!ClaimedOnce
<1> QED
    BY <1>7, <1>9, <1>10 DEF QrInv

(* A poll takes the token of a confirmed code, which nobody had.            *)
LEMMA QrPollStep ==
    ASSUME QrInv, NEW t \in 1..lastToken, Qr!GetStatus(t)
    PROVE  QrInv'
<1>1. /\ t \in DOMAIN qrSessions /\ t \in 1..QrMaxToken /\ t \in webTokens /\ given[t] = 0
      /\ qrSessions' = [qrSessions EXCEPT ![t].status = "consumed"]
      /\ given' = [given EXCEPT ![t] = @ + 1]
      /\ UNCHANGED <<lastToken, sweeping, raced, qrClock, webTokens>>
    BY QrAssumption DEF Qr!GetStatus, QrInv, QrTypes, QrClaims, Qr!QrBounds
<1>2. /\ DOMAIN qrSessions' = DOMAIN qrSessions
      /\ qrSessions' \in [DOMAIN qrSessions' -> QrRow]
      /\ qrSessions'[t].status = "consumed"
      /\ \A u \in DOMAIN qrSessions \ {t} : qrSessions'[u] = qrSessions[u]
    BY <1>1, QrRowChanged
<1>3. given' \in [1..QrMaxToken -> Nat] /\ given'[t] = 1 /\ \A u \in 1..QrMaxToken \ {t} : given'[u] = given[u]
    BY <1>1 DEF QrInv, QrTypes
<1>4. QrTypes'
    BY <1>1, <1>2, <1>3 DEF QrInv, QrTypes
<1>5. QrClaims'
  <2>1. DOMAIN qrSessions \subseteq 1..QrMaxToken /\ t <= lastToken
    BY QrAssumption DEF QrInv, QrTypes, Qr!QrBounds
  <2> QED
    BY <1>1, <1>2, <1>3, <2>1 DEF QrInv, QrTypes, QrClaims
<1>6. Qr!ClaimedOnce'
    BY <1>1, <1>3 DEF QrInv, Qr!ClaimedOnce
<1> QED
    BY <1>4, <1>5, <1>6 DEF QrInv

(* A phone confirms a code: nobody has its token.                           *)
LEMMA QrConfirmStep ==
    ASSUME QrInv, NEW t \in 1..lastToken, Qr!Confirm(t)
    PROVE  QrInv'
<1>1. /\ t \in DOMAIN qrSessions /\ given[t] = 0 /\ raced' \in BOOLEAN
      /\ UNCHANGED <<lastToken, sweeping, qrClock, given>>
    BY DEF Qr!Confirm, Qr!Writes, QrInv, QrTypes, QrClaims
<1>2. CASE qrClock > qrSessions[t].exp
    BY <1>1, <1>2, QrDropStep DEF Qr!Confirm, Qr!Writes, Qr!Without, QrInv, QrTypes
<1>3. CASE ~(qrClock > qrSessions[t].exp)
  <2>1. qrSessions' = [qrSessions EXCEPT ![t].status = "confirmed"] /\ webTokens' = webTokens \cup {t}
    BY <1>3 DEF Qr!Confirm, Qr!Writes
  <2>2. /\ DOMAIN qrSessions' = DOMAIN qrSessions
        /\ qrSessions' \in [DOMAIN qrSessions' -> QrRow]
        /\ qrSessions'[t].status = "confirmed"
        /\ \A u \in DOMAIN qrSessions \ {t} : qrSessions'[u] = qrSessions[u]
    BY <1>1, <2>1, QrRowChanged
  <2>3. QrTypes'
    BY <1>1, <2>2 DEF QrInv, QrTypes
  <2>4. QrClaims' /\ Qr!ClaimedOnce'
    BY <1>1, <2>1, <2>2 DEF QrInv, QrTypes, QrClaims, Qr!ClaimedOnce
  <2> QED
    BY <2>3, <2>4 DEF QrInv
<1> QED
    BY <1>2, <1>3

(* Every step of the QR-code login keeps the invariant.                     *)
LEMMA QrStep == QrInv /\ Qr!Next => QrInv'
<1> SUFFICES ASSUME QrInv, Qr!Next PROVE QrInv'
    OBVIOUS
<1>1. ASSUME NEW b \in Browsers, Qr!CreateQRSession(b)
      PROVE  QrInv'
    BY <1>1 DEF Qr!CreateQRSession, QrInv, QrTypes, QrClaims, Qr!ClaimedOnce
<1>2. ASSUME NEW b \in Browsers, Qr!CreateSession(b)
      PROVE  QrInv'
    BY <1>2, QrCreateStep
<1>3. ASSUME NEW t \in 1..lastToken, Qr!GetStatus(t)
      PROVE  QrInv'
    BY <1>3, QrPollStep
<1>4. ASSUME NEW t \in 1..lastToken, Qr!Confirm(t)
      PROVE  QrInv'
    BY <1>4, QrConfirmStep
<1>5. ASSUME NEW t \in 1..lastToken, Qr!Cancel(t)
      PROVE  QrInv'
    BY <1>5, QrDropStep DEF Qr!Cancel, Qr!Writes, Qr!Without, QrInv, QrTypes
<1>6. CASE Qr!Restart
    BY <1>6, QrDropStep DEF Qr!Restart, Qr!Without
<1>7. CASE Qr!Tick
    BY <1>7, QrAssumption DEF Qr!Tick, QrInv, QrTypes, QrClaims, Qr!ClaimedOnce, Qr!QrBounds
<1> QED
    BY <1>1, <1>2, <1>3, <1>4, <1>5, <1>6, <1>7
    DEF Qr!Next, Qr!GetQRStatus, Qr!ConfirmQRLogin, Qr!CancelQRLogin

(* The invariant holds on while the part does nothing.                      *)
LEMMA QrStutter == QrInv /\ UNCHANGED qrVars => QrInv'
BY DEF qrVars, QrInv, QrTypes, QrClaims, Qr!ClaimedOnce

(* What the invariant says of types.                                        *)
LEMMA QrTypeOK == QrInv => Qr!TypeOK
BY QrAssumption DEF QrInv, QrTypes, QrRow, Qr!TypeOK, Qr!QrBounds

-----------------------------------------------------------------------------
(* The direct channel. A signed request that is under way past the guard,   *)
(* or that was served, has an entry that outlasts every time at which a     *)
(* copy of it could still come in: the entry begins no earlier than the     *)
(* request may, and it lasts twice the skew.                                *)
DirectUser == DirectUsers \cup {Direct!NoUser}
DirectDevice == [user : DirectUser, key : 0..MaxKey, revoked : BOOLEAN]
DirectSent(s) == directReq[s].phase \in {"sent", "retried"}

DirectTypes ==
    /\ devices \in [DirectDevices -> DirectDevice]
    /\ srv \in BOOLEAN /\ listening \in 0..MaxCert
    /\ certs \in 0..MaxCert /\ directFiles \in [crt : 0..certs, key : 0..certs]
    /\ seen \in [Signed -> 0..(DirectMaxClock + 2 * ClockSkew)]
    /\ minted \in Nat
    /\ \A r \in directSessions : r.tok \in 1..minted /\ r.device \in DirectDevices
    /\ directFaults \in 0..DirectMaxFaults
    /\ served \in [Signed -> Nat]
    /\ directClock \in 1..DirectMaxClock /\ directClock % 2 = 1

DirectRequests ==
    /\ DOMAIN directReq = Slots
    /\ \A s \in Slots :
          /\ directReq[s].phase \in {"idle", "body", "sent", "retried"}
          /\ directReq[s].phase # "idle" => directReq[s].m \in Signed
          /\ directReq[s].phase = "body" =>
                /\ directReq[s].now \in 1..DirectMaxClock /\ directReq[s].now % 2 = 1
                /\ directReq[s].now - directReq[s].m.at <= ClockSkew
                /\ directReq[s].m.at - directReq[s].now <= ClockSkew

DirectGuard ==
    /\ \A s \in Slots : DirectSent(s) =>
          /\ served[directReq[s].m] = 0
          /\ seen[directReq[s].m] > directReq[s].m.at + ClockSkew
    /\ \A s, t \in Slots : DirectSent(s) /\ DirectSent(t) /\ directReq[s].m = directReq[t].m => s = t
    /\ \A m \in Signed : served[m] >= 1 => served[m] = 1 /\ seen[m] > m.at + ClockSkew

DirectInv == DirectTypes /\ DirectRequests /\ DirectGuard /\ Direct!ShownIsServed

-----------------------------------------------------------------------------
(* The bounds are numbers; signed seconds and the clock never differ by     *)
(* exactly the skew.                                                        *)
LEMMA DirectNumbers ==
    /\ ClockSkew \in Nat /\ ClockSkew % 2 = 0
    /\ \A m \in Signed : m.device \in DirectDevices /\ m.at \in Nat /\ m.at % 2 = 0
    /\ MaxKey \in Nat /\ MaxCert \in Nat /\ DirectMaxFaults \in Nat /\ TokenLife \in Nat
    /\ DirectMaxClock \in Nat /\ DirectMaxClock % 2 = 1
BY DirectAssumption DEF Direct!DirectBounds

(* A slot without a request is idle.                                        *)
LEMMA DirectIdle == Direct!Idle.phase = "idle"
BY DEF Direct!Idle

(* The invariant holds at the start.                                        *)
LEMMA DirectInit == Direct!Init => DirectInv
<1> SUFFICES ASSUME Direct!Init PROVE DirectInv
    OBVIOUS
<1>1. DirectTypes
  <2>1. devices \in [DirectDevices -> DirectDevice]
    <3>1. [user |-> Direct!NoUser, key |-> 0, revoked |-> FALSE] \in DirectDevice
      BY DirectNumbers DEF DirectDevice, DirectUser
    <3> QED
      BY <3>1 DEF Direct!Init
  <2>2. srv \in BOOLEAN
    BY Zenon DEF Direct!Init
  <2>3. /\ seen \in [Signed -> 0..(DirectMaxClock + 2 * ClockSkew)] /\ served \in [Signed -> Nat]
    BY DirectNumbers DEF Direct!Init, Direct!NewServer
  <2>4. directFiles \in [crt : 0..certs, key : 0..certs]
    BY DEF Direct!Init
  <2>5. /\ listening \in 0..MaxCert /\ certs \in 0..MaxCert /\ minted \in Nat /\ directSessions = {}
        /\ directFaults \in 0..DirectMaxFaults /\ directClock \in 1..DirectMaxClock /\ directClock % 2 = 1
    <3>1. 1 <= DirectMaxClock /\ 1 % 2 = 1
      BY DirectNumbers
    <3>2. /\ listening = 0 /\ certs = 0 /\ minted = 0 /\ directSessions = {} /\ directFaults = 0
          /\ directClock = 1
      BY DEF Direct!Init
    <3> QED
      BY <3>1, <3>2, DirectNumbers
  <2> QED
    BY <2>1, <2>2, <2>3, <2>4, <2>5 DEF DirectTypes
<1>2. DOMAIN directReq = Slots /\ \A s \in Slots : directReq[s].phase = "idle"
    BY DirectIdle DEF Direct!Init
<1>3. DirectRequests
    BY <1>2 DEF DirectRequests
<1>4. DirectGuard
    BY <1>2 DEF Direct!Init, Direct!NewServer, DirectGuard, DirectSent
<1>5. Direct!ShownIsServed
    BY DEF Direct!Init, Direct!ShownIsServed
<1> QED
    BY <1>1, <1>3, <1>4, <1>5 DEF DirectInv

(* Nothing of what the guard is about changes.                              *)
LEMMA DirectElsewhere ==
    ASSUME DirectInv, DirectTypes',
           UNCHANGED <<srv, listening, directFiles, regenFailed, seen, directReq, served>>
    PROVE  DirectInv'
<1>1. DirectRequests' /\ DirectGuard'
    BY DEF DirectInv, DirectRequests, DirectGuard, DirectSent
<1>2. Direct!ShownIsServed'
    BY DEF DirectInv, Direct!ShownIsServed
<1> QED
    BY <1>1, <1>2 DEF DirectInv

(* A token for a device: the rows of the session table stay well-formed.    *)
LEMMA DirectMint ==
    ASSUME DirectTypes, NEW cache, NEW d \in DirectDevices, Direct!tokenForDevice(cache, d)
    PROVE  /\ minted' \in Nat
           /\ \A r \in directSessions' : r.tok \in 1..minted' /\ r.device \in DirectDevices
<1>1. CASE cache[d].tok # 0 /\ directClock < cache[d].exp - Early
    BY <1>1 DEF Direct!tokenForDevice, DirectTypes
<1>2. CASE ~(cache[d].tok # 0 /\ directClock < cache[d].exp - Early)
  <2>1. /\ minted' = minted + 1 /\ minted \in Nat
        /\ directSessions' = {s \in directSessions : s.tok # cache[d].tok}
              \cup {[tok |-> minted + 1, device |-> d, exp |-> directClock + TokenLife]}
    BY <1>2 DEF Direct!tokenForDevice, DirectTypes
  <2>2. ASSUME NEW r \in directSessions'
        PROVE  r.tok \in 1..minted' /\ r.device \in DirectDevices
    <3>1. CASE r \in directSessions
      BY <2>1, <3>1 DEF DirectTypes
    <3>2. CASE r = [tok |-> minted + 1, device |-> d, exp |-> directClock + TokenLife]
      BY <2>1, <3>2
    <3> QED
      BY <2>1, <3>1, <3>2
  <2> QED
    BY <2>1, <2>2
<1> QED
    BY <1>1, <1>2

(* deviceAuth checks the time of a signed request.                          *)
LEMMA DirectAuthStep ==
    ASSUME DirectInv, NEW s \in Slots, NEW m \in Signed, Direct!deviceAuth(s, m)
    PROVE  DirectInv'
<1> DEFINE r == [phase |-> "body", m |-> m, now |-> directClock, key |-> devices[m.device].key]
<1>1. /\ directReq[s] = Direct!Idle /\ directReq' = [directReq EXCEPT ![s] = r]
      /\ directClock - m.at <= ClockSkew /\ m.at - directClock <= ClockSkew
      /\ UNCHANGED <<devices, seen, tokens, minted, directSessions, directClock, served, srv, listening,
                     directFiles, certs, directFaults, regenFailed>>
    BY DEF Direct!deviceAuth, Direct!Elsewhere
<1>2. r.phase = "body" /\ r.m = m /\ r.now = directClock
    OBVIOUS
<1> HIDE DEF r
<1>3. DOMAIN directReq' = Slots /\ directReq'[s] = r /\ \A t \in Slots \ {s} : directReq'[t] = directReq[t]
    BY <1>1 DEF DirectInv, DirectRequests
<1>4. DirectTypes'
    BY <1>1 DEF DirectInv, DirectTypes
<1>5. DirectRequests'
    BY <1>1, <1>2, <1>3 DEF DirectInv, DirectTypes, DirectRequests
<1>6. DirectGuard'
    BY <1>1, <1>2, <1>3 DEF DirectInv, DirectGuard, DirectSent
<1>7. Direct!ShownIsServed'
    BY <1>1 DEF DirectInv, Direct!ShownIsServed
<1> QED
    BY <1>4, <1>5, <1>6, <1>7 DEF DirectInv

(* The slot's request ends.                                                 *)
LEMMA DirectEndStep ==
    ASSUME DirectInv, NEW s \in Slots, directReq' = [directReq EXCEPT ![s] = Direct!Idle],
           UNCHANGED <<devices, seen, tokens, minted, directSessions, directClock, served, srv, listening,
                       directFiles, certs, directFaults, regenFailed>>
    PROVE  DirectInv'
<1>1. /\ DOMAIN directReq' = Slots /\ directReq'[s].phase = "idle"
      /\ \A t \in Slots \ {s} : directReq'[t] = directReq[t]
    BY DirectIdle DEF DirectInv, DirectRequests
<1>2. DirectTypes'
    BY DEF DirectInv, DirectTypes
<1>3. DirectRequests' /\ DirectGuard'
    BY <1>1 DEF DirectInv, DirectRequests, DirectGuard, DirectSent
<1>4. Direct!ShownIsServed'
    BY DEF DirectInv, Direct!ShownIsServed
<1> QED
    BY <1>2, <1>3, <1>4 DEF DirectInv

(* The body has been hashed: the replay guard takes the request or refuses  *)
(* it.                                                                      *)
LEMMA DirectBodyStep ==
    ASSUME DirectInv, NEW s \in Slots, Direct!bufferBodyForHash(s)
    PROVE  DirectInv'
<1> DEFINE m == directReq[s].m
           now == directReq[s].now
           r == [phase |-> "sent", m |-> m, tok |-> tokens'[m.device].tok]
<1>1. /\ directReq[s].phase = "body" /\ m \in Signed /\ now \in 1..DirectMaxClock /\ now % 2 = 1
      /\ now - m.at <= ClockSkew /\ m.at - now <= ClockSkew
      /\ UNCHANGED <<devices, directClock, served, srv, listening, directFiles, certs, directFaults, regenFailed>>
    BY DEF Direct!bufferBodyForHash, Direct!Elsewhere, DirectInv, DirectRequests
<1>2. CASE ~(directReq[s].key = m.key /\ ~(now < seen[m]))
    BY <1>1, <1>2, DirectEndStep DEF Direct!bufferBodyForHash, Direct!hasSeen
<1>3. CASE directReq[s].key = m.key /\ ~(now < seen[m])
  <2>1. /\ seen' = [seen EXCEPT ![m] = now + 2 * ClockSkew]
        /\ Direct!tokenForDevice(tokens, m.device)
        /\ directReq' = [directReq EXCEPT ![s] = r]
    BY <1>3 DEF Direct!bufferBodyForHash, Direct!hasSeen, Direct!seenBefore
  <2>2. r.phase = "sent" /\ r.m = m
    OBVIOUS
  <2>3. m.at \in Nat /\ m.at % 2 = 0 /\ m.device \in DirectDevices /\ seen[m] \in Nat
    BY <1>1, DirectNumbers DEF DirectInv, DirectTypes
  <2> HIDE DEF m, now, r
  <2>4. /\ DOMAIN directReq' = Slots /\ directReq'[s] = r
        /\ \A t \in Slots \ {s} : directReq'[t] = directReq[t]
    BY <2>1 DEF DirectInv, DirectRequests
  <2>5. ~(seen[m] > m.at + ClockSkew) /\ now + 2 * ClockSkew > m.at + ClockSkew
    <3>1. now # m.at - ClockSkew
      BY <1>1, <2>3, DirectNumbers
    <3> QED
      BY <1>1, <1>3, <2>3, <3>1, DirectNumbers
  <2>6. /\ seen' \in [Signed -> 0..(DirectMaxClock + 2 * ClockSkew)]
        /\ seen'[m] > m.at + ClockSkew /\ \A x \in Signed \ {m} : seen'[x] = seen[x]
    <3>1. now + 2 * ClockSkew \in 0..(DirectMaxClock + 2 * ClockSkew)
      BY <1>1, DirectNumbers
    <3> QED
      BY <1>1, <2>1, <2>5, <3>1 DEF DirectInv, DirectTypes
  <2>7. served[m] = 0 /\ \A t \in Slots : DirectSent(t) => directReq[t].m # m
    BY <1>1, <2>5 DEF DirectInv, DirectTypes, DirectGuard
  <2>8. DirectTypes'
    BY <1>1, <2>1, <2>3, <2>6, DirectMint DEF DirectInv, DirectTypes
  <2>9. DirectRequests'
    BY <1>1, <2>2, <2>4 DEF DirectInv, DirectRequests
  <2>10. \A t \in Slots : DirectSent(t)' => t = s \/ (DirectSent(t) /\ directReq'[t] = directReq[t] /\ directReq[t].m # m)
    BY <2>4, <2>7 DEF DirectSent
  <2>11. DirectGuard'
    <3>1. \A t \in Slots : DirectSent(t)' =>
             served'[directReq'[t].m] = 0 /\ seen'[directReq'[t].m] > directReq'[t].m.at + ClockSkew
      BY <1>1, <2>2, <2>4, <2>6, <2>7, <2>10 DEF DirectInv, DirectGuard, DirectRequests, DirectSent
    <3>2. \A t, u \in Slots : DirectSent(t)' /\ DirectSent(u)' /\ directReq'[t].m = directReq'[u].m => t = u
      BY <2>2, <2>4, <2>10 DEF DirectInv, DirectGuard
    <3>3. \A x \in Signed : served'[x] >= 1 => served'[x] = 1 /\ seen'[x] > x.at + ClockSkew
      BY <1>1, <2>6, <2>7 DEF DirectInv, DirectGuard
    <3> QED
      BY <3>1, <3>2, <3>3 DEF DirectGuard
  <2>12. Direct!ShownIsServed'
    BY <1>1 DEF DirectInv, Direct!ShownIsServed
  <2> QED
    BY <2>8, <2>9, <2>11, <2>12 DEF DirectInv
<1> QED
    BY <1>2, <1>3

(* A request that the guard took is served: it was not before.              *)
LEMMA DirectTripStep ==
    ASSUME DirectInv, NEW s \in Slots, Direct!RoundTrip(s)
    PROVE  DirectInv'
<1> DEFINE m == directReq[s].m
<1>1. /\ DirectSent(s) /\ m \in Signed /\ served[m] = 0 /\ seen[m] > m.at + ClockSkew
      /\ \A t \in Slots \ {s} : DirectSent(t) => directReq[t].m # m
      /\ UNCHANGED <<devices, seen, directClock, srv, listening, directFiles, certs, directFaults, regenFailed>>
    BY DEF Direct!RoundTrip, Direct!Elsewhere, DirectSent, DirectInv, DirectRequests, DirectGuard
<1>2. CASE Direct!Serve(s)
  <2>1. /\ served' = [served EXCEPT ![m] = @ + 1] /\ directReq' = [directReq EXCEPT ![s] = Direct!Idle]
        /\ UNCHANGED <<tokens, minted, directSessions>>
    BY <1>2 DEF Direct!Serve
  <2> HIDE DEF m
  <2>2. /\ DOMAIN directReq' = Slots /\ directReq'[s].phase = "idle"
        /\ \A t \in Slots \ {s} : directReq'[t] = directReq[t]
    BY <2>1, DirectIdle DEF DirectInv, DirectRequests
  <2>3. served' \in [Signed -> Nat] /\ served'[m] = 1 /\ \A x \in Signed \ {m} : served'[x] = served[x]
    BY <1>1, <2>1 DEF DirectInv, DirectTypes
  <2>4. DirectTypes'
    BY <1>1, <2>1, <2>3 DEF DirectInv, DirectTypes
  <2>5. DirectRequests'
    BY <2>2 DEF DirectInv, DirectRequests
  <2>6. DirectGuard'
    BY <1>1, <2>2, <2>3 DEF DirectInv, DirectGuard, DirectRequests, DirectSent
  <2>7. Direct!ShownIsServed'
    BY <1>1 DEF DirectInv, Direct!ShownIsServed
  <2> QED
    BY <2>4, <2>5, <2>6, <2>7 DEF DirectInv
<1>3. ASSUME Direct!tokenForDevice(Direct!invalidateToken(m.device), m.device),
             directReq' = [directReq EXCEPT ![s] = [phase |-> "retried", m |-> m, tok |-> minted']],
             UNCHANGED served
      PROVE  DirectInv'
  <2> DEFINE r == [phase |-> "retried", m |-> m, tok |-> minted']
  <2>1. r.phase = "retried" /\ r.m = m /\ directReq' = [directReq EXCEPT ![s] = r]
    BY <1>3
  <2>2. m.device \in DirectDevices
    BY <1>1, DirectNumbers
  <2>3. DirectTypes'
    BY <1>1, <1>3, <2>2, DirectMint DEF DirectInv, DirectTypes
  <2> HIDE DEF m, r
  <2>4. /\ DOMAIN directReq' = Slots /\ directReq'[s] = r
        /\ \A t \in Slots \ {s} : directReq'[t] = directReq[t]
    BY <2>1 DEF DirectInv, DirectRequests
  <2>5. DirectRequests'
    BY <1>1, <2>1, <2>4 DEF DirectInv, DirectRequests
  <2>6. DirectGuard'
    BY <1>1, <1>3, <2>1, <2>4 DEF DirectInv, DirectGuard, DirectSent
  <2>7. Direct!ShownIsServed'
    BY <1>1 DEF DirectInv, Direct!ShownIsServed
  <2> QED
    BY <2>3, <2>5, <2>6, <2>7 DEF DirectInv
<1>4. ASSUME directReq' = [directReq EXCEPT ![s] = Direct!Idle],
             UNCHANGED <<tokens, minted, directSessions, served>>
      PROVE  DirectInv'
    BY <1>1, <1>4, DirectEndStep
<1> QED
    BY <1>2, <1>3, <1>4 DEF Direct!RoundTrip

(* The settings of the direct channel change, with or without a new         *)
(* certificate.                                                             *)
LEMMA DirectUpdateStep ==
    ASSUME DirectInv, NEW on \in BOOLEAN, NEW regen \in BOOLEAN, NEW at \in {"none", "crt", "key", "bind"},
           Direct!UpdateMobileDirect(on, regen, at)
    PROVE  DirectInv'
<1> DEFINE f == IF regen THEN Direct!RegenerateCert(at)
                ELSE IF on THEN Direct!EnsureCert(directFiles, at) ELSE directFiles
           ok == at \notin {"crt", "key"}
<1>1. /\ directFiles' = f /\ certs' = (IF f.crt \notin {0, directFiles.crt} THEN certs + 1 ELSE certs)
      /\ certs' <= MaxCert /\ regenFailed' = (regen /\ ~ok)
      /\ UNCHANGED <<devices, minted, directSessions, directClock>>
    BY DEF Direct!UpdateMobileDirect
<1>2. directFaults' \in 0..DirectMaxFaults
    BY DirectNumbers DEF Direct!UpdateMobileDirect, Direct!Charge, DirectInv, DirectTypes
<1>3. /\ f \in {directFiles, [directFiles EXCEPT !.crt = certs + 1],
                [crt |-> 0, key |-> 0], [crt |-> certs + 1, key |-> 0], [crt |-> certs + 1, key |-> certs + 1]}
  <2>1. ASSUME NEW g PROVE Direct!EnsureCert(g, at) \in {g, [g EXCEPT !.crt = certs + 1], [crt |-> certs + 1, key |-> certs + 1]}
    BY DEF Direct!EnsureCert
  <2>2. [[crt |-> 0, key |-> 0] EXCEPT !.crt = certs + 1] = [crt |-> certs + 1, key |-> 0]
    OBVIOUS
  <2> QED
    BY <2>1, <2>2 DEF Direct!RegenerateCert
<1> HIDE DEF f
<1>4. certs' \in 0..MaxCert /\ directFiles' \in [crt : 0..certs', key : 0..certs'] /\ f.crt \in 0..MaxCert
  <2>1. certs \in 0..MaxCert /\ directFiles \in [crt : 0..certs, key : 0..certs] /\ MaxCert \in Nat
    BY DirectNumbers DEF DirectInv, DirectTypes
  <2>2. CASE f = directFiles
    BY <1>1, <2>1, <2>2
  <2>3. CASE f = [directFiles EXCEPT !.crt = certs + 1]
    BY <1>1, <2>1, <2>3
  <2>4. CASE f = [crt |-> 0, key |-> 0]
    BY <1>1, <2>1, <2>4
  <2>5. CASE f = [crt |-> certs + 1, key |-> 0]
    BY <1>1, <2>1, <2>5
  <2>6. CASE f = [crt |-> certs + 1, key |-> certs + 1]
    BY <1>1, <2>1, <2>6
  <2> QED
    BY <1>3, <2>2, <2>3, <2>4, <2>5, <2>6
<1>5. CASE regen /\ ~ok
  <2>1. UNCHANGED <<srv, listening, seen, served, tokens, directReq>>
    BY <1>5 DEF Direct!UpdateMobileDirect
  <2>2. DirectTypes'
    BY <1>1, <1>2, <1>4, <2>1 DEF DirectInv, DirectTypes
  <2>3. DirectRequests' /\ DirectGuard'
    BY <2>1 DEF DirectInv, DirectRequests, DirectGuard, DirectSent
  <2>4. Direct!ShownIsServed'
    BY <1>1, <1>5 DEF Direct!ShownIsServed
  <2> QED
    BY <2>2, <2>3, <2>4 DEF DirectInv
<1>6. CASE ~(regen /\ ~ok)
  <2>1. Direct!Apply(on, f, ok, at # "bind") /\ directReq' = [s \in Slots |-> Direct!Idle]
    BY <1>6 DEF Direct!UpdateMobileDirect, f
  <2>2. /\ srv' \in BOOLEAN /\ listening' \in 0..MaxCert
        /\ (srv' /\ listening' # 0 => listening' = f.crt)
        /\ \/ seen' = Direct!NewServer /\ served' = Direct!NewServer
           \/ UNCHANGED <<seen, served>>
    <3>1. CASE on /\ ok
      <4>1. srv' = TRUE /\ listening' = (IF at # "bind" THEN f.crt ELSE 0)
        BY <2>1, <3>1 DEF Direct!Apply, Direct!Start
      <4>2. seen' = Direct!NewServer /\ served' = Direct!NewServer
        BY <2>1, <3>1 DEF Direct!Apply, Direct!Start
      <4>3. srv' \in BOOLEAN
        BY Zenon, <4>1
      <4>4. listening' \in 0..MaxCert /\ (listening' # 0 => listening' = f.crt)
        BY <1>4, <4>1, DirectNumbers
      <4> QED
        BY <4>2, <4>3, <4>4
    <3>2. CASE ~(on /\ ok)
      <4>1. srv' = FALSE /\ listening' = 0 /\ UNCHANGED <<seen, served>>
        BY <2>1, <3>2 DEF Direct!Apply, Direct!Stop
      <4>2. srv' \in BOOLEAN
        BY Zenon, <4>1
      <4> QED
        BY <4>1, <4>2, DirectNumbers
    <3> QED
      BY <3>1, <3>2
  <2>3. DOMAIN directReq' = Slots /\ \A s \in Slots : directReq'[s].phase = "idle"
    BY <2>1, DirectIdle
  <2>4. seen' \in [Signed -> 0..(DirectMaxClock + 2 * ClockSkew)] /\ served' \in [Signed -> Nat]
    BY <2>2, DirectNumbers DEF Direct!NewServer, DirectInv, DirectTypes
  <2>5. DirectTypes'
    BY <1>1, <1>2, <1>4, <2>2, <2>4 DEF DirectInv, DirectTypes
  <2>6. DirectRequests'
    BY <2>3 DEF DirectRequests
  <2>7. DirectGuard'
    BY <2>2, <2>3 DEF DirectInv, DirectGuard, DirectSent, Direct!NewServer
  <2>8. Direct!ShownIsServed'
    BY <1>1, <2>2 DEF Direct!ShownIsServed
  <2> QED
    BY <2>5, <2>6, <2>7, <2>8 DEF DirectInv
<1> QED
    BY <1>5, <1>6

(* Every step of the direct channel keeps the invariant.                    *)
LEMMA DirectStep == DirectInv /\ Direct!Next => DirectInv'
<1> SUFFICES ASSUME DirectInv, Direct!Next PROVE DirectInv'
    OBVIOUS
<1>1. ASSUME NEW u \in DirectUsers, NEW d \in DirectDevices, NEW k \in 1..MaxKey, Direct!create(u, d, k)
      PROVE  DirectInv'
  <2>1. [user |-> u, key |-> k, revoked |-> FALSE] \in DirectDevice
    BY DirectNumbers DEF DirectDevice, DirectUser
  <2>2. DirectTypes'
    BY <1>1, <2>1 DEF Direct!create, Direct!Register, Direct!Elsewhere, DirectInv, DirectTypes
  <2> QED
    BY <1>1, <2>2, DirectElsewhere DEF Direct!create, Direct!Elsewhere
<1>2. ASSUME NEW u \in DirectUsers, NEW d \in DirectDevices, Direct!revoke(u, d)
      PROVE  DirectInv'
  <2>1. devices' \in [DirectDevices -> DirectDevice]
    BY <1>2 DEF Direct!revoke, Direct!Revoke, DirectInv, DirectTypes, DirectDevice
  <2>2. DirectTypes'
    BY <1>2, <2>1 DEF Direct!revoke, Direct!Elsewhere, DirectInv, DirectTypes
  <2> QED
    BY <1>2, <2>2, DirectElsewhere DEF Direct!revoke, Direct!Elsewhere
<1>3. ASSUME NEW s \in Slots, Direct!bufferBodyForHash(s) \/ Direct!RoundTrip(s)
      PROVE  DirectInv'
    BY <1>3, DirectBodyStep, DirectTripStep
<1>4. ASSUME NEW s \in Slots, NEW m \in Signed, Direct!deviceAuth(s, m)
      PROVE  DirectInv'
    BY <1>4, DirectAuthStep
<1>5. ASSUME NEW on \in BOOLEAN, NEW regen \in BOOLEAN, NEW at \in {"none", "crt", "key", "bind"},
             Direct!UpdateMobileDirect(on, regen, at)
      PROVE  DirectInv'
    BY <1>5, DirectUpdateStep
<1>6. ASSUME NEW r \in directSessions, Direct!Kick(r)
      PROVE  DirectInv'
  <2>1. DirectTypes'
    BY <1>6 DEF Direct!Kick, Direct!Elsewhere, DirectInv, DirectTypes
  <2> QED
    BY <1>6, <2>1, DirectElsewhere DEF Direct!Kick, Direct!Elsewhere
<1>7. CASE Direct!Tick
  <2>1. directClock' \in 1..DirectMaxClock /\ directClock' % 2 = 1
    BY <1>7, DirectNumbers DEF Direct!Tick, DirectInv, DirectTypes
  <2>2. DirectTypes'
    BY <1>7, <2>1 DEF Direct!Tick, Direct!Elsewhere, DirectInv, DirectTypes
  <2> QED
    BY <1>7, <2>2, DirectElsewhere DEF Direct!Tick, Direct!Elsewhere
<1> QED
    BY <1>1, <1>2, <1>3, <1>4, <1>5, <1>6, <1>7 DEF Direct!Next

(* The invariant holds on while the part does nothing.                      *)
LEMMA DirectStutter == DirectInv /\ UNCHANGED directVars => DirectInv'
<1> SUFFICES ASSUME DirectInv, UNCHANGED directVars PROVE DirectInv'
    OBVIOUS
<1>1. DirectTypes'
    BY DEF directVars, DirectInv, DirectTypes
<1> QED
    BY <1>1, DirectElsewhere DEF directVars

(* What the invariant says: the type invariant and the two properties.      *)
LEMMA DirectTypeOK == DirectInv => Direct!TypeOK /\ Direct!NonceOnce /\ Direct!ShownIsServed
<1> SUFFICES ASSUME DirectInv PROVE Direct!TypeOK /\ Direct!NonceOnce /\ Direct!ShownIsServed
    OBVIOUS
<1>1. directFiles \in [crt : 0..MaxCert, key : 0..MaxCert]
    BY DirectNumbers DEF DirectInv, DirectTypes
<1>2. \A d \in DirectDevices : devices[d].user \in DirectUsers \cup {Direct!NoUser} /\ devices[d].key \in 0..MaxKey
    BY DEF DirectInv, DirectTypes, DirectDevice, DirectUser
<1>3. Direct!TypeOK
    BY <1>1, <1>2 DEF DirectInv, DirectTypes, DirectRequests, Direct!TypeOK
<1>4. Direct!NonceOnce
    BY DEF DirectInv, DirectTypes, DirectGuard, Direct!NonceOnce
<1> QED
    BY <1>3, <1>4 DEF DirectInv

-----------------------------------------------------------------------------
(* Settings. Every configuration that is in force, on disk or on its way    *)
(* there finds the files of TLS; with one administrator, what the running   *)
(* parts hold is what the configuration says at every step.                 *)
ConfFields == DOMAIN Conf!Default
ConfWatched == {"rate", "whitelist", "monitor"}
ConfPhases == {"idle", "crt", "copied", "replaced", "writing"}
ConfFiles == pem.crt # 0 /\ pem.key # 0

ConfTypes ==
    /\ DOMAIN mem = ConfFields /\ DOMAIN disk = ConfFields /\ DOMAIN live = Conf!Hot
    /\ pem \in [crt : 0..MaxEdits, key : 0..MaxEdits]
    /\ edits \in 0..MaxEdits /\ confFaults \in 0..ConfMaxFaults
    /\ DOMAIN confReq = Admins
    /\ \A c \in Admins :
          /\ confReq[c].phase \in ConfPhases
          /\ confReq[c].phase = "crt" => confReq[c].upload \in 1..MaxEdits
          /\ confReq[c].phase \in {"copied", "writing"} => DOMAIN confReq[c].next = ConfFields

ConfTls ==
    /\ mem["tls"] => ConfFiles
    /\ disk["tls"] => ConfFiles
    /\ \A c \in Admins :
          /\ confReq[c].phase = "crt" => pem.crt # 0
          /\ confReq[c].phase \in {"copied", "writing"} => (confReq[c].next["tls"] => ConfFiles)

ConfAlone == \A c, d \in Admins : c = d
ConfHot == ConfAlone =>
    /\ \A f \in ConfWatched : live[f] = mem[f]
    /\ \A c \in Admins : confReq[c].phase = "copied" =>
          \A f \in ConfWatched :
              f \notin Conf!BeforeSave(confReq[c].kind) \cap DOMAIN confReq[c].set => confReq[c].next[f] = mem[f]

ConfInv == ConfTypes /\ ConfTls /\ ConfHot

-----------------------------------------------------------------------------
(* The bounds are numbers.                                                  *)
LEMMA ConfNumbers == MaxEdits \in Nat /\ ConfMaxFaults \in Nat
BY ConfAssumption DEF Conf!SettingsBounds

(* The settings that the proofs single out are fields of the configuration. *)
LEMMA ConfNames ==
    /\ ConfWatched \subseteq ConfFields /\ ConfWatched \subseteq Conf!Hot
    /\ "tls" \in ConfFields /\ "tls" \in Conf!Flags /\ Conf!Hot \subseteq ConfFields
    /\ Conf!Default["tls"] = FALSE
BY DEF ConfWatched, ConfFields, Conf!Default, Conf!Hot, Conf!Flags

(* An administrator without a request is idle.                              *)
LEMMA ConfIdle == Conf!Idle.phase = "idle"
BY DEF Conf!Idle

(* The invariant holds at the start.                                        *)
LEMMA ConfInit == Conf!Init => ConfInv
<1> SUFFICES ASSUME Conf!Init PROVE ConfInv
    OBVIOUS
<1>1. /\ mem = Conf!Default /\ disk = Conf!Default /\ pem = [crt |-> 0, key |-> 0]
      /\ live = [f \in Conf!Hot |-> Conf!Default[f]] /\ edits = 0 /\ confFaults = 0
      /\ confReq = [c \in Admins |-> Conf!Idle]
    BY DEF Conf!Init, Conf!HotPart
<1>2. DOMAIN confReq = Admins /\ \A c \in Admins : confReq[c].phase = "idle"
    BY <1>1, ConfIdle
<1>3. ConfTypes
  <2>1. DOMAIN mem = ConfFields /\ DOMAIN disk = ConfFields /\ DOMAIN live = Conf!Hot
    BY <1>1 DEF ConfFields
  <2>2. pem \in [crt : 0..MaxEdits, key : 0..MaxEdits] /\ edits \in 0..MaxEdits /\ confFaults \in 0..ConfMaxFaults
    BY <1>1, ConfNumbers
  <2> QED
    BY <1>2, <2>1, <2>2 DEF ConfTypes, ConfPhases
<1>4. ConfTls
    BY <1>1, <1>2, ConfNames DEF ConfTls
<1>5. ConfHot
    BY <1>1, <1>2, ConfNames DEF ConfHot
<1> QED
    BY <1>3, <1>4, <1>5 DEF ConfInv

(* The request of an administrator turns into r, and nothing else changes   *)
(* that the others' requests depend on.                                     *)
LEMMA ConfMoved ==
    ASSUME ConfTypes, NEW c \in Admins, NEW r, confReq' = [confReq EXCEPT ![c] = r]
    PROVE  /\ DOMAIN confReq' = Admins /\ confReq'[c] = r
           /\ \A d \in Admins \ {c} : confReq'[d] = confReq[d]
BY DEF ConfTypes

(* Any settings request: its copy differs from the configuration in what    *)
(* was asked for only, and the running parts that hold it are told.         *)
LEMMA ConfBeginStep ==
    ASSUME ConfInv, NEW c \in Admins, NEW kind, NEW set, Conf!Begin(c, kind, set),
           "tls" \in DOMAIN set => set["tls"] = FALSE,
           DOMAIN set \cap ConfWatched \subseteq Conf!BeforeSave(kind)
    PROVE  ConfInv'
<1> DEFINE next == Conf!Update(set)
           r == [phase |-> "copied", kind |-> kind, set |-> set, next |-> next]
<1>1. /\ edits < MaxEdits /\ edits' = edits + 1 /\ confReq' = [confReq EXCEPT ![c] = r]
      /\ UNCHANGED <<mem, disk, live, pem, confFaults>>
    BY DEF Conf!Begin, Conf!Step
<1>2. r.phase = "copied" /\ r.kind = kind /\ r.set = set /\ r.next = next
    OBVIOUS
<1>3. /\ DOMAIN next = ConfFields
      /\ \A f \in ConfFields : next[f] = IF f \in DOMAIN set THEN set[f] ELSE mem[f]
    BY DEF Conf!Update, ConfInv, ConfTypes
<1> HIDE DEF next, r
<1>4. /\ DOMAIN confReq' = Admins /\ confReq'[c] = r
      /\ \A d \in Admins \ {c} : confReq'[d] = confReq[d]
    BY <1>1, ConfMoved DEF ConfInv
<1>5. ConfTypes'
  <2>1. edits' \in 0..MaxEdits
    BY <1>1, ConfNumbers DEF ConfInv, ConfTypes
  <2> QED
    BY <1>1, <1>2, <1>3, <1>4, <2>1 DEF ConfInv, ConfTypes, ConfPhases
<1>6. ConfTls'
  <2>1. next["tls"] => ConfFiles
    BY <1>3, ConfNames DEF ConfInv, ConfTls
  <2> QED
    BY <1>1, <1>2, <1>4, <2>1 DEF ConfInv, ConfTls, ConfFiles
<1>7. ConfHot'
  <2>1. \A f \in ConfWatched : f \notin Conf!BeforeSave(kind) \cap DOMAIN set => next[f] = mem[f]
    BY <1>3, ConfNames
  <2> QED
    BY <1>1, <1>2, <1>4, <2>1 DEF ConfInv, ConfHot
<1> QED
    BY <1>5, <1>6, <1>7 DEF ConfInv

(* A settings page is saved: the request begins.                            *)
LEMMA ConfSettingStep ==
    ASSUME ConfInv, NEW c \in Admins,
           \/ Conf!UpdateServerConfig(c) \/ Conf!UpdateAuthConfig(c) \/ Conf!UpdateMonitorConfig(c)
           \/ Conf!UpdateAuditConfig(c) \/ Conf!UpdateNotifyConfig(c) \/ Conf!UpdateFeaturesConfig(c)
           \/ Conf!UpdateLogsConfig(c) \/ Conf!UpdateAlertRules(c) \/ Conf!DisableTLS(c)
    PROVE  ConfInv'
<1>1. /\ Conf!BeforeSave("auth") = {"rate", "whitelist"} /\ Conf!BeforeSave("monitor") = {"monitor"}
    BY DEF Conf!BeforeSave
<1>2. ASSUME Conf!UpdateServerConfig(c) PROVE ConfInv'
  <2>1. ASSUME NEW v, Conf!Begin(c, "server", [port |-> v]) PROVE ConfInv'
    BY <2>1, ConfBeginStep DEF ConfWatched
  <2>2. ASSUME NEW v, Conf!Begin(c, "server", [assets |-> v]) PROVE ConfInv'
    BY <2>2, ConfBeginStep DEF ConfWatched
  <2>3. ASSUME NEW v, Conf!Begin(c, "server", [check |-> v]) PROVE ConfInv'
    BY <2>3, ConfBeginStep DEF ConfWatched
  <2>4. ASSUME NEW v, Conf!Begin(c, "server", [secret |-> v]) PROVE ConfInv'
    BY <2>4, ConfBeginStep DEF ConfWatched
  <2> QED
    BY <1>2, <2>1, <2>2, <2>3, <2>4 DEF Conf!UpdateServerConfig
<1>3. ASSUME Conf!UpdateAuthConfig(c) PROVE ConfInv'
  <2>1. ASSUME NEW v, Conf!Begin(c, "auth", [rate |-> v]) PROVE ConfInv'
    BY <1>1, <2>1, ConfBeginStep DEF ConfWatched
  <2>2. ASSUME NEW v, Conf!Begin(c, "auth", [whitelist |-> v]) PROVE ConfInv'
    BY <1>1, <2>2, ConfBeginStep DEF ConfWatched
  <2> QED
    BY <1>3, <2>1, <2>2 DEF Conf!UpdateAuthConfig
<1>4. ASSUME NEW v, Conf!Begin(c, "monitor", [monitor |-> v]) PROVE ConfInv'
    BY <1>1, <1>4, ConfBeginStep DEF ConfWatched
<1>5. ASSUME NEW v, Conf!Begin(c, "audit", [audit |-> v]) PROVE ConfInv'
    BY <1>5, ConfBeginStep DEF ConfWatched
<1>6. ASSUME NEW v, Conf!Begin(c, "notify", [notify |-> v]) PROVE ConfInv'
    BY <1>6, ConfBeginStep DEF ConfWatched
<1>7. ASSUME NEW v, Conf!Begin(c, "features", [manual |-> v]) PROVE ConfInv'
    BY <1>7, ConfBeginStep DEF ConfWatched
<1>8. ASSUME NEW v, Conf!Begin(c, "logs", [level |-> v]) PROVE ConfInv'
    BY <1>8, ConfBeginStep DEF ConfWatched
<1>9. ASSUME NEW v, Conf!Begin(c, "alerts", [rules |-> v]) PROVE ConfInv'
    BY <1>9, ConfBeginStep DEF ConfWatched
<1>10. ASSUME Conf!Begin(c, "tls", [tls |-> FALSE]) PROVE ConfInv'
    BY <1>10, ConfBeginStep DEF ConfWatched
<1> QED
    BY <1>2, <1>3, <1>4, <1>5, <1>6, <1>7, <1>8, <1>9, <1>10
    DEF Conf!UpdateMonitorConfig, Conf!UpdateAuditConfig, Conf!UpdateNotifyConfig, Conf!UpdateFeaturesConfig,
        Conf!UpdateLogsConfig, Conf!UpdateAlertRules, Conf!DisableTLS

(* A failure stays within the bound on failures.                            *)
LEMMA ConfCharged ==
    ASSUME ConfTypes, NEW fails \in BOOLEAN, Conf!Charge(fails)
    PROVE  confFaults' \in 0..ConfMaxFaults
BY ConfNumbers DEF ConfTypes, Conf!Charge

(* The certificate of an upload is written, or that fails.                  *)
LEMMA ConfUploadStep ==
    ASSUME ConfInv, NEW c \in Admins, NEW fails \in BOOLEAN, Conf!UpdateTLSConfig(c, fails)
    PROVE  ConfInv'
<1> DEFINE r == [phase |-> "crt", upload |-> edits + 1]
<1>1. /\ edits < MaxEdits /\ edits' = edits + 1 /\ confFaults' \in 0..ConfMaxFaults
      /\ UNCHANGED <<mem, disk, live>>
      /\ edits \in 0..MaxEdits
    BY ConfCharged DEF Conf!UpdateTLSConfig, ConfInv, ConfTypes
<1>2. edits + 1 \in 1..MaxEdits /\ edits + 1 # 0
    BY <1>1, ConfNumbers
<1>3. CASE fails
  <2>1. UNCHANGED <<pem, confReq>>
    BY <1>3 DEF Conf!UpdateTLSConfig
  <2>2. ConfTypes'
    BY <1>1, <1>2, <2>1 DEF ConfInv, ConfTypes
  <2> QED
    BY <1>1, <2>1, <2>2 DEF ConfInv, ConfTls, ConfFiles, ConfHot
<1>4. CASE ~fails
  <2>1. pem' = [pem EXCEPT !.crt = edits + 1] /\ confReq' = [confReq EXCEPT ![c] = r]
    BY <1>4 DEF Conf!UpdateTLSConfig, Conf!Step
  <2>2. r.phase = "crt" /\ r.upload = edits + 1
    OBVIOUS
  <2> HIDE DEF r
  <2>3. /\ DOMAIN confReq' = Admins /\ confReq'[c] = r
        /\ \A d \in Admins \ {c} : confReq'[d] = confReq[d]
    BY <2>1, ConfMoved DEF ConfInv
  <2>4. pem' \in [crt : 0..MaxEdits, key : 0..MaxEdits] /\ pem'.crt # 0 /\ pem'.key = pem.key
    BY <1>2, <2>1, ConfNumbers DEF ConfInv, ConfTypes
  <2>5. ConfTypes'
    <3>1. edits' \in 0..MaxEdits
      BY <1>1, <1>2
    <3> QED
      BY <1>1, <1>2, <2>2, <2>3, <2>4, <3>1 DEF ConfInv, ConfTypes, ConfPhases
  <2>6. ConfTls'
    BY <1>1, <2>2, <2>3, <2>4 DEF ConfInv, ConfTls, ConfFiles
  <2>7. ConfHot'
    BY <1>1, <2>2, <2>3 DEF ConfInv, ConfHot
  <2> QED
    BY <2>5, <2>6, <2>7 DEF ConfInv
<1> QED
    BY <1>3, <1>4

(* The key of an upload is written, or that fails.                          *)
LEMMA ConfKeyStep ==
    ASSUME ConfInv, NEW c \in Admins, NEW fails \in BOOLEAN, Conf!WriteKey(c, fails)
    PROVE  ConfInv'
<1>1. /\ confReq[c].phase = "crt" /\ pem.crt # 0 /\ confReq[c].upload \in 1..MaxEdits
      /\ confFaults' \in 0..ConfMaxFaults
      /\ UNCHANGED <<mem, disk, live, edits>>
    BY ConfCharged DEF Conf!WriteKey, ConfInv, ConfTypes, ConfTls
<1>2. CASE fails
  <2>1. UNCHANGED pem /\ confReq' = [confReq EXCEPT ![c] = Conf!Idle]
    BY <1>2 DEF Conf!WriteKey, Conf!Step
  <2>2. /\ DOMAIN confReq' = Admins /\ confReq'[c].phase = "idle"
        /\ \A d \in Admins \ {c} : confReq'[d] = confReq[d]
    BY <2>1, ConfMoved, ConfIdle DEF ConfInv
  <2>3. ConfTypes'
    BY <1>1, <2>1, <2>2 DEF ConfInv, ConfTypes, ConfPhases
  <2>4. ConfTls' /\ ConfHot'
    BY <1>1, <2>1, <2>2 DEF ConfInv, ConfTls, ConfFiles, ConfHot
  <2> QED
    BY <2>3, <2>4 DEF ConfInv
<1>3. CASE ~fails
  <2> DEFINE set == [tls |-> TRUE]
             next == Conf!Update(set)
             r == [phase |-> "copied", kind |-> "tls", set |-> set, next |-> next]
  <2>1. pem' = [pem EXCEPT !.key = confReq[c].upload] /\ confReq' = [confReq EXCEPT ![c] = r]
    BY <1>3 DEF Conf!WriteKey, Conf!Step
  <2>2. r.phase = "copied" /\ r.kind = "tls" /\ r.set = set /\ r.next = next
    OBVIOUS
  <2>3. /\ DOMAIN next = ConfFields
        /\ \A f \in ConfWatched : next[f] = mem[f]
    BY ConfNames DEF Conf!Update, ConfWatched, ConfInv, ConfTypes
  <2> HIDE DEF next, set, r
  <2>4. /\ DOMAIN confReq' = Admins /\ confReq'[c] = r
        /\ \A d \in Admins \ {c} : confReq'[d] = confReq[d]
    BY <2>1, ConfMoved DEF ConfInv
  <2>5. pem' \in [crt : 0..MaxEdits, key : 0..MaxEdits] /\ pem'.crt # 0 /\ pem'.key # 0
    <3>1. pem \in [crt : 0..MaxEdits, key : 0..MaxEdits] /\ confReq[c].upload \in 0..MaxEdits /\ confReq[c].upload # 0
      BY <1>1, ConfNumbers DEF ConfInv, ConfTypes
    <3> QED
      BY <1>1, <2>1, <3>1
  <2>6. ConfTypes'
    BY <1>1, <2>2, <2>3, <2>4, <2>5 DEF ConfInv, ConfTypes, ConfPhases
  <2>7. ConfTls'
    BY <2>2, <2>4, <2>5 DEF ConfTls, ConfFiles
  <2>8. ConfHot'
    BY <1>1, <2>2, <2>3, <2>4 DEF ConfInv, ConfHot
  <2> QED
    BY <2>6, <2>7, <2>8 DEF ConfInv
<1> QED
    BY <1>2, <1>3

(* The configuration in memory is replaced.                                 *)
LEMMA ConfReplaceStep ==
    ASSUME ConfInv, NEW c \in Admins, Conf!Replace(c)
    PROVE  ConfInv'
<1> DEFINE q == confReq[c]
           told == Conf!BeforeSave(q.kind) \cap DOMAIN q.set
           r == IF q.kind = "server" /\ mem'.check /\ ~mem'.secret THEN Conf!Idle
                ELSE [phase |-> "replaced", kind |-> q.kind, set |-> q.set]
<1>1. /\ q.phase = "copied" /\ mem' = q.next /\ DOMAIN mem' = ConfFields
      /\ live' = [f \in Conf!Hot |-> IF f \in told THEN mem'[f] ELSE live[f]]
      /\ confReq' = [confReq EXCEPT ![c] = r]
      /\ UNCHANGED <<disk, pem, edits, confFaults>>
    BY DEF Conf!Replace, Conf!Tell, Conf!Step, ConfInv, ConfTypes
<1>2. r.phase \in {"idle", "replaced"}
    BY ConfIdle
<1> HIDE DEF r
<1>3. /\ DOMAIN confReq' = Admins /\ confReq'[c] = r
      /\ \A d \in Admins \ {c} : confReq'[d] = confReq[d]
    BY <1>1, ConfMoved DEF ConfInv
<1>4. ConfTypes'
    BY <1>1, <1>2, <1>3 DEF ConfInv, ConfTypes, ConfPhases
<1>5. ConfTls'
    BY <1>1, <1>2, <1>3 DEF ConfInv, ConfTls, ConfFiles
<1>6. ConfHot'
  <2> SUFFICES ASSUME ConfAlone
               PROVE  /\ \A f \in ConfWatched : live'[f] = mem'[f]
                      /\ \A d \in Admins : confReq'[d].phase # "copied"
    BY DEF ConfHot, ConfAlone
  <2>1. \A f \in ConfWatched : live'[f] = IF f \in told THEN mem'[f] ELSE live[f]
    BY <1>1, ConfNames
  <2>2. \A f \in ConfWatched : f \notin told => mem'[f] = mem[f] /\ live[f] = mem[f]
    BY <1>1 DEF ConfInv, ConfHot
  <2>3. \A d \in Admins : d = c
    BY DEF ConfAlone
  <2> QED
    BY <1>2, <1>3, <2>1, <2>2, <2>3
<1> QED
    BY <1>4, <1>5, <1>6 DEF ConfInv

(* saveConfig takes its copy of the configuration.                          *)
LEMMA ConfWriteStep ==
    ASSUME ConfInv, NEW c \in Admins, Conf!saveConfig(c)
    PROVE  ConfInv'
<1> DEFINE r == [phase |-> "writing", kind |-> confReq[c].kind, set |-> confReq[c].set, next |-> mem]
<1>1. confReq' = [confReq EXCEPT ![c] = r] /\ UNCHANGED <<mem, disk, live, pem, edits, confFaults>>
    BY DEF Conf!saveConfig, Conf!Step
<1>2. r.phase = "writing" /\ r.next = mem
    OBVIOUS
<1> HIDE DEF r
<1>3. /\ DOMAIN confReq' = Admins /\ confReq'[c] = r
      /\ \A d \in Admins \ {c} : confReq'[d] = confReq[d]
    BY <1>1, ConfMoved DEF ConfInv
<1>4. ConfTypes'
    BY <1>1, <1>2, <1>3 DEF ConfInv, ConfTypes, ConfPhases
<1>5. ConfTls'
    BY <1>1, <1>2, <1>3 DEF ConfInv, ConfTls, ConfFiles
<1>6. ConfHot'
    BY <1>1, <1>2, <1>3 DEF ConfInv, ConfHot
<1> QED
    BY <1>4, <1>5, <1>6 DEF ConfInv

(* The file is written, or that fails; what depends on it is told.          *)
LEMMA ConfFinishStep ==
    ASSUME ConfInv, NEW c \in Admins, NEW fails \in BOOLEAN, Conf!Finish(c, fails)
    PROVE  ConfInv'
<1>1. /\ confReq[c].phase = "writing" /\ confFaults' \in 0..ConfMaxFaults
      /\ disk' \in {disk, confReq[c].next}
      /\ \/ UNCHANGED live
         \/ live' = [f \in Conf!Hot |->
                       IF f \in Conf!AfterSave(confReq[c].kind) \cap DOMAIN confReq[c].set THEN mem[f] ELSE live[f]]
      /\ confReq' = [confReq EXCEPT ![c] = Conf!Idle]
      /\ UNCHANGED <<mem, pem, edits>>
    BY ConfCharged DEF Conf!Finish, Conf!Save, Conf!Tell, Conf!Step, ConfInv
<1>2. /\ DOMAIN confReq' = Admins /\ confReq'[c].phase = "idle"
      /\ \A d \in Admins \ {c} : confReq'[d] = confReq[d]
    BY <1>1, ConfMoved, ConfIdle DEF ConfInv
<1>3. DOMAIN live' = Conf!Hot /\ \A f \in Conf!Hot : live'[f] \in {live[f], mem[f]}
    BY <1>1 DEF ConfInv, ConfTypes
<1>4. ConfTypes'
    BY <1>1, <1>2, <1>3 DEF ConfInv, ConfTypes, ConfPhases
<1>5. ConfTls'
    BY <1>1, <1>2 DEF ConfInv, ConfTls, ConfFiles
<1>6. ConfHot'
    BY <1>1, <1>2, <1>3, ConfNames DEF ConfInv, ConfHot
<1> QED
    BY <1>4, <1>5, <1>6 DEF ConfInv

(* The panel restarts and loads the file.                                   *)
LEMMA ConfRestartStep ==
    ASSUME ConfInv, Conf!RestartPanel
    PROVE  ConfInv'
<1>1. /\ mem' = Conf!Load /\ live' = [f \in Conf!Hot |-> Conf!Load[f]]
      /\ confReq' = [c \in Admins |-> Conf!Idle]
      /\ UNCHANGED <<disk, pem, edits, confFaults>>
    BY DEF Conf!RestartPanel, Conf!HotPart
<1>2. DOMAIN Conf!Load = ConfFields /\ Conf!Load["tls"] = disk["tls"]
    BY ConfNames DEF Conf!Load, Conf!mergeDefaults, ConfInv, ConfTypes
<1>3. DOMAIN confReq' = Admins /\ \A c \in Admins : confReq'[c].phase = "idle"
    BY <1>1, ConfIdle
<1>4. ConfTypes'
    BY <1>1, <1>2, <1>3 DEF ConfInv, ConfTypes, ConfPhases
<1>5. ConfTls'
    BY <1>1, <1>2, <1>3 DEF ConfInv, ConfTls, ConfFiles
<1>6. ConfHot'
    BY <1>1, <1>3, ConfNames DEF ConfHot
<1> QED
    BY <1>4, <1>5, <1>6 DEF ConfInv

(* Every step of the settings keeps the invariant.                          *)
LEMMA ConfStep == ConfInv /\ Conf!Next => ConfInv'
BY ConfSettingStep, ConfUploadStep, ConfKeyStep, ConfReplaceStep, ConfWriteStep, ConfFinishStep, ConfRestartStep
   DEF Conf!Next

(* The invariant holds on while the part does nothing.                      *)
LEMMA ConfStutter == ConfInv /\ UNCHANGED confVars => ConfInv'
BY DEF confVars, ConfInv, ConfTypes, ConfTls, ConfFiles, ConfHot

(* What the invariant says: the type invariant and the two properties.      *)
LEMMA ConfTypeOK == ConfInv => Conf!TypeOK /\ Conf!EnabledHasFiles /\ Conf!HotIsConfigured
<1> SUFFICES ASSUME ConfInv PROVE Conf!TypeOK /\ Conf!EnabledHasFiles /\ Conf!HotIsConfigured
    OBVIOUS
<1>1. Conf!TypeOK
    BY DEF ConfInv, ConfTypes, ConfFields, ConfPhases, Conf!TypeOK
<1>2. Conf!EnabledHasFiles
    BY DEF ConfInv, ConfTls, ConfFiles, Conf!EnabledHasFiles
<1>3. Conf!HotIsConfigured
    BY DEF ConfInv, ConfHot, ConfAlone, ConfWatched, Conf!HotIsConfigured
<1> QED
    BY <1>1, <1>2, <1>3

-----------------------------------------------------------------------------
(* Share links. The count of a row is the number of tickets that were       *)
(* issued for it, its cap is within the highest that was ever set, and its  *)
(* expiry is the moment its owner meant, shifted by the zone.               *)
ShareRow == [by : ShareUsers, file : Files, secret : BOOLEAN, exp : Int, cap : Nat, count : Nat]
ShareTicket == [id : 1..shareLastId, exp : Int, key : 1..key]
ShareFile == Files \cup {""}
ShareAsk == [step : {"idle", "check", "drop"}, id : 0..shareLastId, file : ShareFile, exp : Int]

(* The files can be shared.                                                 *)
LEMMA ShareFileNames == Files \subseteq ShareFile
BY DEF ShareFile

(* A client without a request is idle.                                      *)
LEMMA ShareIdle == ASSUME shareLastId \in Nat PROVE Shares!Idle \in ShareAsk
<1>1. \A f \in ShareFile : [step |-> "idle", id |-> 0, file |-> f, exp |-> 0] \in ShareAsk
    BY DEF ShareAsk
<1> QED
    BY Zenon, <1>1 DEF Shares!Idle, ShareFile

ShareTypes ==
    /\ shareFiles \subseteq Files
    /\ shareLastId \in 0..MaxId
    /\ DOMAIN shares \subseteq 1..shareLastId
    /\ shares \in [DOMAIN shares -> ShareRow]
    /\ shareClock \in 1..ShareMaxClock /\ key \in 1..MaxKeys
    /\ tickets \subseteq ShareTicket
    /\ asking \in [ShareClients -> ShareAsk]
    /\ got \subseteq 1..shareLastId
    /\ issued \in [1..shareLastId -> 0..MaxIssued]
    /\ peak \in [1..shareLastId -> Nat]
    /\ due \in [1..shareLastId -> Nat]

ShareCounts ==
    \A id \in DOMAIN shares :
        /\ issued[id] = shares[id].count
        /\ peak[id] # 0 => shares[id].cap \in 1..peak[id]
ShareExpiry ==
    \A id \in DOMAIN shares :
        IF due[id] = 0 THEN shares[id].exp = 0
        ELSE due[id] >= 2 /\ shares[id].exp = due[id] + Zone

ShareInv ==
    /\ ShareTypes /\ ShareCounts /\ ShareExpiry
    /\ Shares!CapHolds /\ Shares!ExpiryHolds

(* The invariant holds at the start.                                        *)
LEMMA ShareInit == Shares!Init => ShareInv
<1> SUFFICES ASSUME Shares!Init PROVE ShareInv
    OBVIOUS
<1>1. 1..0 = {}
    OBVIOUS
<1>2. ShareTypes
  <2>1. asking \in [ShareClients -> ShareAsk]
    BY ShareIdle DEF Shares!Init
  <2>2. /\ shareClock \in 1..ShareMaxClock /\ key \in 1..MaxKeys /\ shareLastId \in 0..MaxId
        /\ shareLastId = 0 /\ shareFiles = Files /\ tickets = {} /\ got = {}
        /\ DOMAIN shares = {} /\ shares \in [{} -> ShareRow]
        /\ issued \in [{} -> 0..MaxIssued] /\ peak \in [{} -> Nat] /\ due \in [{} -> Nat]
    BY ShareAssumption DEF Shares!Init, Shares!ShareBounds
  <2> QED
    BY <1>1, <2>1, <2>2 DEF ShareTypes
<1>3. ShareCounts /\ ShareExpiry /\ Shares!CapHolds /\ Shares!ExpiryHolds
    BY DEF Shares!Init, ShareCounts, ShareExpiry, Shares!CapHolds, Shares!ExpiryHolds
<1> QED
    BY <1>2, <1>3 DEF ShareInv

(* A link is created under a fresh id.                                      *)
LEMMA ShareCreateStep ==
    ASSUME ShareInv,
           NEW u \in ShareUsers, NEW f \in Files, NEW s \in BOOLEAN, NEW l \in Lives, NEW n \in Caps,
           Shares!CreateShare(u, f, s, l, n)
    PROVE  ShareInv'
<1> DEFINE N == shareLastId + 1
           meant == IF l = 0 THEN 0 ELSE shareClock + l
           row == [by |-> u, file |-> f, secret |-> s, exp |-> Shares!parseExpiresAt(l), cap |-> n, count |-> 0]
<1>1. /\ shareLastId \in Nat /\ shareLastId < MaxId /\ shareLastId' = N
      /\ shares' = Shares!With(shares, N, row)
      /\ issued' = Shares!With(issued, N, 0) /\ peak' = Shares!With(peak, N, n)
      /\ due' = Shares!With(due, N, meant)
      /\ got' = {} /\ UNCHANGED <<shareFiles, shareClock, key, tickets, asking>>
    BY DEF Shares!CreateShare, Shares!Create, ShareInv, ShareTypes
<1>2. /\ meant \in Nat /\ n \in Nat /\ 0 \in 0..MaxIssued /\ Zone \in Int
      /\ IF meant = 0 THEN row.exp = 0 ELSE meant >= 2 /\ row.exp = meant + Zone
    BY SMTT(30), ShareAssumption DEF Shares!ShareBounds, Shares!parseExpiresAt, ShareInv, ShareTypes
<1>3. row \in ShareRow /\ row.cap = n /\ row.count = 0
    BY <1>2 DEF ShareRow
<1> HIDE DEF row, meant
<1>4. /\ issued' \in [1..N -> 0..MaxIssued] /\ issued'[N] = 0 /\ \A i \in 1..shareLastId : issued'[i] = issued[i]
      /\ peak' \in [1..N -> Nat] /\ peak'[N] = n /\ \A i \in 1..shareLastId : peak'[i] = peak[i]
      /\ due' \in [1..N -> Nat] /\ due'[N] = meant /\ \A i \in 1..shareLastId : due'[i] = due[i]
  <2>1. issued \in [1..shareLastId -> 0..MaxIssued] /\ peak \in [1..shareLastId -> Nat] /\ due \in [1..shareLastId -> Nat]
    BY DEF ShareInv, ShareTypes
  <2>2. N = shareLastId + 1 /\ shareLastId \in Nat
    BY <1>1
  <2> HIDE DEF N
  <2>3. issued' \in [1..N -> 0..MaxIssued] /\ issued'[N] = 0 /\ \A i \in 1..shareLastId : issued'[i] = issued[i]
    <3>1. issued' = Shares!With(issued, N, 0) /\ 0 \in 0..MaxIssued
      BY <1>1, <1>2
    <3> QED
      BY SMTT(30), <2>1, <2>2, <3>1 DEF Shares!With
  <2>4. peak' \in [1..N -> Nat] /\ peak'[N] = n /\ \A i \in 1..shareLastId : peak'[i] = peak[i]
    <3>1. peak' = Shares!With(peak, N, n)
      BY <1>1
    <3> QED
      BY <1>2, <2>1, <2>2, <3>1 DEF Shares!With
  <2>5. due' \in [1..N -> Nat] /\ due'[N] = meant /\ \A i \in 1..shareLastId : due'[i] = due[i]
    <3>1. due' = Shares!With(due, N, meant)
      BY <1>1
    <3> QED
      BY <1>2, <2>1, <2>2, <3>1 DEF Shares!With
  <2> QED
    BY <2>3, <2>4, <2>5
<1>5. /\ DOMAIN shares' = DOMAIN shares \cup {N} /\ shares'[N] = row
      /\ \A i \in DOMAIN shares : i \in 1..shareLastId /\ shares'[i] = shares[i] /\ shares[i] \in ShareRow
      /\ DOMAIN shares' \subseteq 1..N
    BY <1>1 DEF Shares!With, ShareInv, ShareTypes
<1>6. shares' \in [DOMAIN shares' -> ShareRow]
    BY <1>1, <1>3, <1>5 DEF Shares!With
<1>7. tickets' \subseteq ShareTicket' /\ asking' \in [ShareClients -> ShareAsk']
    BY <1>1 DEF ShareInv, ShareTypes, ShareTicket, ShareAsk
<1>8. ShareTypes'
  <2>1. N \in 0..MaxId
    BY <1>1, ShareAssumption DEF Shares!ShareBounds
  <2> QED
    BY <1>1, <1>4, <1>5, <1>6, <1>7, <2>1 DEF ShareInv, ShareTypes
<1>9. ShareCounts'
    BY <1>2, <1>3, <1>4, <1>5 DEF ShareInv, ShareCounts
<1>10. Shares!CapHolds'
  <2>1. DOMAIN issued = 1..shareLastId /\ DOMAIN issued' = 1..N
    BY <1>4 DEF ShareInv, ShareTypes
  <2>2. \A i \in 1..N : i = N \/ i \in 1..shareLastId
    BY <1>1
  <2> QED
    BY <1>2, <1>4, <2>1, <2>2 DEF ShareInv, Shares!CapHolds
<1>11. ShareExpiry'
    BY <1>2, <1>4, <1>5 DEF ShareInv, ShareExpiry
<1>12. Shares!ExpiryHolds'
    BY <1>1 DEF Shares!ExpiryHolds
<1> QED
    BY <1>8, <1>9, <1>10, <1>11, <1>12 DEF ShareInv

(* The owner changes the cap or the expiry of a link.                       *)
LEMMA ShareUpdateStep ==
    ASSUME ShareInv,
           NEW u \in ShareUsers, NEW id \in DOMAIN shares,
           NEW l \in Lives \cup {Shares!Keep}, NEW n \in Caps \cup {Shares!Keep},
           Shares!UpdateShare(u, id, l, n)
    PROVE  ShareInv'
<1> DEFINE exp == IF l = Shares!Keep THEN shares[id].exp ELSE Shares!parseExpiresAt(l)
           cap == IF n = Shares!Keep THEN shares[id].cap ELSE n
           top == peak'[id]
           meant == due'[id]
<1>1. /\ id \in 1..shareLastId /\ shareLastId \in Nat
      /\ shares[id] \in ShareRow /\ peak[id] \in Nat /\ due[id] \in Nat
    BY DEF ShareInv, ShareTypes
<1>2. /\ meant \in Nat /\ exp \in Int
      /\ IF meant = 0 THEN exp = 0 ELSE meant >= 2 /\ exp = meant + Zone
  <2>1. meant = IF l = Shares!Keep THEN due[id] ELSE IF l = 0 THEN 0 ELSE shareClock + l
    BY <1>1 DEF Shares!UpdateShare, ShareInv, ShareTypes
  <2>2. IF due[id] = 0 THEN shares[id].exp = 0 ELSE due[id] >= 2 /\ shares[id].exp = due[id] + Zone
    BY DEF ShareInv, ShareExpiry
  <2>3. shares[id].exp \in Int /\ shareClock \in Nat /\ shareClock >= 1 /\ (l # Shares!Keep => l \in Nat)
    <3>1. shares[id].exp \in Int
      BY <1>1 DEF ShareRow
    <3>2. shareClock \in Nat /\ shareClock >= 1
      BY ShareAssumption DEF Shares!ShareBounds, ShareInv, ShareTypes
    <3>3. l # Shares!Keep => l \in Nat
      BY ShareAssumption DEF Shares!ShareBounds
    <3> QED
      BY <3>1, <3>2, <3>3
  <2> QED
    BY <1>1, <2>1, <2>2, <2>3, ShareAssumption DEF Shares!ShareBounds, Shares!parseExpiresAt
<1>3. /\ top \in Nat /\ cap \in Nat /\ (top # 0 => cap \in 1..top)
      /\ (top # 0 => peak[id] # 0 /\ peak[id] <= top)
    BY SMTT(30), <1>1, ShareAssumption
    DEF Shares!ShareBounds, Shares!UpdateShare, Shares!Keep, ShareInv, ShareTypes, ShareRow, ShareCounts
<1>4. /\ DOMAIN shares' = DOMAIN shares
      /\ \A i \in DOMAIN shares \ {id} : shares'[i] = shares[i]
      /\ shares'[id] = [shares[id] EXCEPT !.exp = exp, !.cap = cap]
      /\ \A i \in 1..shareLastId \ {id} : peak'[i] = peak[i] /\ due'[i] = due[i]
      /\ shares' = [i \in DOMAIN shares |-> shares'[i]]
      /\ peak' = [i \in 1..shareLastId |-> peak'[i]] /\ due' = [i \in 1..shareLastId |-> due'[i]]
      /\ got' = {} /\ UNCHANGED <<shareFiles, shareLastId, shareClock, key, tickets, asking, issued>>
    BY <1>1 DEF Shares!UpdateShare, Shares!Update, ShareInv, ShareTypes
<1> HIDE DEF exp, cap, top, meant
<1>5. shares'[id] \in ShareRow /\ shares'[id].cap = cap /\ shares'[id].exp = exp /\ shares'[id].count = shares[id].count
    BY <1>1, <1>2, <1>3, <1>4 DEF ShareRow
<1>6. /\ shares' \in [DOMAIN shares' -> ShareRow]
      /\ peak' \in [1..shareLastId -> Nat] /\ due' \in [1..shareLastId -> Nat]
  <2>0. /\ shares \in [DOMAIN shares -> ShareRow]
        /\ peak \in [1..shareLastId -> Nat] /\ due \in [1..shareLastId -> Nat]
    BY DEF ShareInv, ShareTypes
  <2>1. \A i \in DOMAIN shares : shares'[i] \in ShareRow
    BY <1>4, <1>5, <2>0
  <2>2. \A i \in 1..shareLastId : peak'[i] \in Nat
    BY <1>3, <1>4, <2>0 DEF top
  <2>3. \A i \in 1..shareLastId : due'[i] \in Nat
    BY <1>2, <1>4, <2>0 DEF meant
  <2> QED
    BY <1>4, <2>1, <2>2, <2>3
<1>7. ShareTypes'
    BY <1>4, <1>6 DEF ShareInv, ShareTypes, ShareTicket, ShareAsk
<1>8. ShareCounts' /\ Shares!CapHolds'
  <2>1. DOMAIN issued = 1..shareLastId /\ issued[id] \in Nat
    BY <1>1 DEF ShareInv, ShareTypes
  <2>2. ShareCounts'
    BY <1>1, <1>3, <1>4, <1>5 DEF ShareInv, ShareTypes, ShareCounts, top
  <2>3. Shares!CapHolds'
    BY <1>1, <1>3, <1>4, <2>1 DEF ShareInv, Shares!CapHolds, top
  <2> QED
    BY <2>2, <2>3
<1>9. ShareExpiry' /\ Shares!ExpiryHolds'
    BY <1>1, <1>2, <1>4, <1>5 DEF ShareInv, ShareTypes, ShareExpiry, Shares!ExpiryHolds, meant
<1> QED
    BY <1>7, <1>8, <1>9 DEF ShareInv

(* Deleting rows, whichever they are, keeps what is said of each.           *)
LEMMA ShareDropStep ==
    ASSUME ShareInv, NEW S, S \subseteq DOMAIN shares,
           shares' = [id \in S |-> shares[id]],
           asking' \in [ShareClients -> ShareAsk],
           got' = {},
           UNCHANGED <<shareFiles, shareLastId, shareClock, key, tickets, issued, peak, due>>
    PROVE  ShareInv'
BY DEF ShareInv, ShareTypes, ShareRow, ShareTicket, ShareAsk, ShareCounts, ShareExpiry,
       Shares!CapHolds, Shares!ExpiryHolds

(* A ticket is issued: the count is below the cap in that statement.        *)
LEMMA ShareIssueStep ==
    ASSUME ShareInv, NEW c \in ShareClients, Shares!TicketIssued(c)
    PROVE  ShareInv'
<1> DEFINE id == asking[c].id
           n == shares[id].count
<1>1. /\ id \in DOMAIN shares /\ id \in 1..shareLastId /\ shareLastId \in Nat
      /\ shares[id] \in ShareRow /\ peak[id] \in Nat
      /\ shares[id].cap = 0 \/ n < shares[id].cap
      /\ issued[id] = n /\ n \in Nat /\ n < MaxIssued
    BY DEF Shares!TicketIssued, Shares!IncrementDownloadsIfUnderLimit, ShareInv, ShareTypes, ShareRow, ShareCounts
<1>2. /\ shares' = [shares EXCEPT ![id].count = @ + 1]
      /\ issued' = [issued EXCEPT ![id] = @ + 1]
      /\ tickets' = tickets \cup {[id |-> id, exp |-> shareClock + TicketLife, key |-> key]}
      /\ asking' = [asking EXCEPT ![c] = Shares!Idle]
      /\ got' = {} /\ UNCHANGED <<shareFiles, shareLastId, shareClock, key, peak, due>>
    BY <1>1 DEF Shares!TicketIssued, Shares!Counted, Shares!Sign
<1>3. /\ DOMAIN shares' = DOMAIN shares
      /\ \A i \in DOMAIN shares \ {id} : shares'[i] = shares[i]
      /\ shares'[id] = [shares[id] EXCEPT !.count = n + 1]
      /\ shares' = [i \in DOMAIN shares |-> shares'[i]]
    BY <1>1, <1>2
<1>4. /\ issued' \in [1..shareLastId -> 0..MaxIssued] /\ issued'[id] = n + 1
      /\ \A i \in 1..shareLastId \ {id} : issued'[i] = issued[i]
  <2>1. issued \in [1..shareLastId -> 0..MaxIssued] /\ MaxIssued \in Nat
    BY ShareAssumption DEF ShareInv, ShareTypes, Shares!ShareBounds
  <2>2. /\ issued' = [issued EXCEPT ![id] = @ + 1] /\ id \in 1..shareLastId
        /\ issued[id] = n /\ n + 1 \in 0..MaxIssued
    BY <1>1, <1>2, <2>1
  <2> HIDE DEF id, n
  <2> QED
    BY <2>1, <2>2
<1>5. tickets' \subseteq ShareTicket'
  <2>1. shareClock + TicketLife \in Int /\ key \in 1..key
    BY ShareAssumption DEF ShareInv, ShareTypes, Shares!ShareBounds
  <2> QED
    BY <1>1, <1>2, <2>1 DEF ShareInv, ShareTypes, ShareTicket
<1>6. asking' \in [ShareClients -> ShareAsk']
  <2>1. ShareAsk' = ShareAsk /\ Shares!Idle \in ShareAsk /\ asking \in [ShareClients -> ShareAsk]
    BY <1>1, <1>2, ShareIdle DEF ShareAsk, ShareInv, ShareTypes
  <2> QED
    BY <1>2, <2>1
<1> HIDE DEF id, n
<1>7. /\ shares'[id] \in ShareRow /\ shares'[id].cap = shares[id].cap /\ shares'[id].exp = shares[id].exp
      /\ shares'[id].count = n + 1
    BY <1>1, <1>3 DEF ShareRow
<1>8. shares' \in [DOMAIN shares' -> ShareRow]
    BY <1>3, <1>7 DEF ShareInv, ShareTypes
<1>9. ShareTypes'
    BY <1>2, <1>3, <1>4, <1>5, <1>6, <1>8 DEF ShareInv, ShareTypes
<1>10. ShareCounts'
    BY <1>1, <1>2, <1>3, <1>4, <1>7 DEF ShareInv, ShareTypes, ShareCounts
<1>11. Shares!CapHolds'
  <2>1. DOMAIN issued = 1..shareLastId /\ DOMAIN issued' = 1..shareLastId
    BY <1>4 DEF ShareInv, ShareTypes
  <2>2. peak[id] # 0 => shares[id].cap \in 1..peak[id]
    BY <1>1 DEF ShareInv, ShareCounts
  <2>3. peak[id] # 0 => n + 1 <= peak[id]
    BY <1>1, <2>2 DEF ShareRow
  <2> QED
    BY <1>2, <1>4, <2>1, <2>3 DEF ShareInv, Shares!CapHolds
<1>12. ShareExpiry' /\ Shares!ExpiryHolds'
    BY <1>2, <1>3, <1>7 DEF ShareInv, ShareExpiry, Shares!ExpiryHolds
<1> QED
    BY <1>9, <1>10, <1>11, <1>12 DEF ShareInv

(* A download passes checkShareUsable, which looks at the row as it is now. *)
LEMMA ShareDownloadStep ==
    ASSUME ShareInv, NEW t \in tickets, Shares!PublicDownload(t)
    PROVE  ShareInv'
<1> USE ShareAssumption
    DEF Shares!ShareBounds, Shares!PublicDownload, Shares!history, ShareInv
<1>1. ShareTypes'
    BY DEF ShareTypes, ShareRow, ShareTicket, ShareAsk
<1>2. ShareCounts' /\ Shares!CapHolds' /\ ShareExpiry'
    BY DEF ShareCounts, Shares!CapHolds, ShareExpiry
<1>3. Shares!ExpiryHolds'
  <2>1. /\ got' = {t.id} /\ UNCHANGED <<due, shareClock>> /\ t.id \in DOMAIN shares
        /\ ~(shares[t.id].exp # 0 /\ shareClock > shares[t.id].exp)
    BY DEF Shares!checkShareUsable, Shares!Past
  <2>2. /\ shares[t.id].exp \in Int /\ shareClock \in Int /\ due[t.id] \in Int /\ Zone \in Int
        /\ Zone >= -1
    BY SMTT(30), <2>1 DEF ShareTypes, ShareRow
  <2>3. due[t.id] # 0 => due[t.id] >= 2 /\ shares[t.id].exp = due[t.id] + Zone
    BY <2>1 DEF ShareExpiry
  <2>4. due[t.id] = 0 \/ shareClock <= due[t.id] + Zone
    BY <2>1, <2>2, <2>3
  <2> QED
    BY <2>1, <2>4 DEF Shares!ExpiryHolds
<1> QED
    BY <1>1, <1>2, <1>3

(* Every step of the share links keeps the invariant.                       *)
LEMMA ShareStep == ShareInv /\ Shares!Next => ShareInv'
<1> SUFFICES ASSUME ShareInv, Shares!Next PROVE ShareInv'
    OBVIOUS
<1> USE ShareAssumption DEF Shares!ShareBounds
<1> DEFINE Rest == ShareCounts /\ ShareExpiry /\ Shares!CapHolds
<1>1. ASSUME NEW u \in ShareUsers, NEW f \in Files, NEW s \in BOOLEAN, NEW l \in Lives, NEW n \in Caps,
             Shares!CreateShare(u, f, s, l, n)
      PROVE  ShareInv'
    BY <1>1, ShareCreateStep
<1>2. ASSUME NEW u \in ShareUsers, NEW id \in DOMAIN shares,
             NEW l \in Lives \cup {Shares!Keep}, NEW n \in Caps \cup {Shares!Keep},
             Shares!UpdateShare(u, id, l, n)
      PROVE  ShareInv'
    BY <1>2, ShareUpdateStep
<1>3. ASSUME NEW u \in ShareUsers, NEW id \in DOMAIN shares, Shares!DeleteShare(u, id)
      PROVE  ShareInv'
    BY <1>3, ShareDropStep
    DEF Shares!DeleteShare, Shares!RepoDelete, Shares!Without, Shares!history, ShareInv, ShareTypes
<1>4. CASE Shares!CleanupExpired
    BY <1>4, ShareDropStep
    DEF Shares!CleanupExpired, Shares!DeleteExpired, Shares!history, ShareInv, ShareTypes
<1>5. ASSUME NEW c \in ShareClients, NEW id \in DOMAIN shares, NEW knows \in BOOLEAN,
             Shares!GetTicket(c, id, knows)
      PROVE  ShareInv'
  <2>1. shares[id] \in ShareRow /\ id \in 1..shareLastId
    BY DEF ShareInv, ShareTypes
  <2>2. asking' \in [ShareClients -> ShareAsk]
    <3>1. /\ asking' = [asking EXCEPT ![c] = [step |-> "check", id |-> id, file |-> shares[id].file,
                                              exp |-> shares[id].exp]]
          /\ asking \in [ShareClients -> ShareAsk]
      BY <1>5 DEF Shares!GetTicket, Shares!GetByToken, Shares!GetByID, ShareInv, ShareTypes
    <3>2. [step |-> "check", id |-> id, file |-> shares[id].file, exp |-> shares[id].exp] \in ShareAsk
      BY SMTT(30), <2>1, ShareFileNames DEF ShareRow, ShareAsk, ShareInv, ShareTypes
    <3> QED
      BY <3>1, <3>2
  <2>4. ShareTypes'
    BY <1>5, <2>2 DEF Shares!GetTicket, Shares!history, ShareInv, ShareTypes, ShareTicket, ShareAsk
  <2>3. Rest' /\ Shares!ExpiryHolds'
    BY <1>5
    DEF Shares!GetTicket, Shares!history, ShareInv, ShareCounts, ShareExpiry, Shares!CapHolds,
        Shares!ExpiryHolds
  <2> QED
    BY <2>3, <2>4 DEF ShareInv
<1>6. ASSUME NEW c \in ShareClients, Shares!TicketIssued(c)
      PROVE  ShareInv'
    BY <1>6, ShareIssueStep
<1>7. ASSUME NEW c \in ShareClients, Shares!TicketRefused(c)
      PROVE  ShareInv'
  <2>1. ShareTypes'
    BY <1>7
    DEF Shares!TicketRefused, Shares!history, ShareInv, ShareTypes, ShareRow, ShareTicket, ShareAsk
  <2>2. Rest' /\ Shares!ExpiryHolds'
    BY <1>7
    DEF Shares!TicketRefused, Shares!history, ShareInv, ShareCounts, ShareExpiry, Shares!CapHolds,
        Shares!ExpiryHolds
  <2> QED
    BY <2>1, <2>2 DEF ShareInv
<1>8. ASSUME NEW c \in ShareClients, Shares!TicketDrops(c)
      PROVE  ShareInv'
  <2>1. asking' \in [ShareClients -> ShareAsk]
    BY <1>8, ShareIdle DEF Shares!TicketDrops, ShareInv, ShareTypes
  <2> QED
    BY <1>8, <2>1, ShareDropStep
    DEF Shares!TicketDrops, Shares!RepoDelete, Shares!Without, Shares!history, ShareInv, ShareTypes
<1>9. ASSUME NEW t \in tickets, Shares!PublicDownload(t) \/ Shares!PublicList(t)
      PROVE  ShareInv'
    BY <1>9, ShareDownloadStep DEF Shares!PublicList
<1>10. ASSUME Shares!FileComesOrGoes \/ Shares!Tick \/ Shares!getTicketSecret
       PROVE  ShareInv'
  <2>1. CASE Shares!getTicketSecret
    <3>1. asking' \in [ShareClients -> ShareAsk]
      BY <2>1, ShareIdle DEF Shares!getTicketSecret, ShareInv, ShareTypes
    <3>2. key' \in 1..MaxKeys /\ tickets' \subseteq ShareTicket'
      BY SMTT(30), <2>1 DEF Shares!getTicketSecret, ShareInv, ShareTypes, ShareTicket
    <3>3. ShareTypes'
      BY <2>1, <3>1, <3>2 DEF Shares!getTicketSecret, Shares!history, ShareInv, ShareTypes, ShareAsk
    <3>4. Rest' /\ Shares!ExpiryHolds'
      BY <2>1
      DEF Shares!getTicketSecret, Shares!history, ShareInv, ShareCounts, ShareExpiry, Shares!CapHolds,
          Shares!ExpiryHolds
    <3> QED
      BY <3>3, <3>4 DEF ShareInv
  <2>2. CASE Shares!FileComesOrGoes \/ Shares!Tick
    <3>1. ShareTypes'
      BY SMTT(30), <2>2
      DEF Shares!FileComesOrGoes, Shares!Tick, Shares!history, ShareInv, ShareTypes, ShareTicket, ShareAsk
    <3>2. Rest' /\ Shares!ExpiryHolds'
      BY <2>2
      DEF Shares!FileComesOrGoes, Shares!Tick, Shares!history, ShareInv, ShareCounts, ShareExpiry,
          Shares!CapHolds, Shares!ExpiryHolds
    <3> QED
      BY <3>1, <3>2 DEF ShareInv
  <2> QED
    BY <1>10, <2>1, <2>2
<1> QED
    BY <1>1, <1>2, <1>3, <1>4, <1>5, <1>6, <1>7, <1>8, <1>9, <1>10 DEF Shares!Next

(* The invariant holds on while the part does nothing.                      *)
LEMMA ShareStutter == ShareInv /\ UNCHANGED shareVars => ShareInv'
BY DEF shareVars, ShareInv, ShareTypes, ShareRow, ShareTicket, ShareAsk, ShareCounts, ShareExpiry,
       Shares!CapHolds, Shares!ExpiryHolds

(* What the invariant says of types.                                        *)
LEMMA ShareTypeOK == ShareInv => Shares!TypeOK
BY ShareAssumption
   DEF ShareInv, ShareTypes, ShareRow, ShareTicket, ShareAsk, Shares!TypeOK, Shares!ShareBounds

(* A ticket is counted in the statement that looks at the row.              *)
LEMMA ShareRevoked == ShareInv /\ Shares!Next => Shares!NoTicketAfterRevoke
<1> SUFFICES ASSUME ShareInv, Shares!Next, NEW id \in DOMAIN issued, issued'[id] > issued[id]
             PROVE  id \in DOMAIN shares
    BY DEF Shares!NoTicketAfterRevoke
<1>1. issued \in [1..shareLastId -> 0..MaxIssued] /\ shareLastId \in Nat
    BY ShareAssumption DEF ShareInv, ShareTypes, Shares!ShareBounds
<1>2. ASSUME NEW c \in ShareClients, Shares!TicketIssued(c)
      PROVE  id \in DOMAIN shares
    BY <1>1, <1>2 DEF Shares!TicketIssued, Shares!IncrementDownloadsIfUnderLimit
<1>3. ASSUME NEW x, issued' = Shares!With(issued, shareLastId + 1, x)
      PROVE  FALSE
    BY <1>1, <1>3 DEF Shares!With
<1>4. CASE UNCHANGED issued
    BY <1>1, <1>4
<1> QED
    BY <1>2, <1>3, <1>4
    DEF Shares!Next, Shares!CreateShare, Shares!UpdateShare, Shares!DeleteShare, Shares!CleanupExpired,
        Shares!GetTicket, Shares!TicketRefused, Shares!TicketDrops, Shares!PublicDownload,
        Shares!PublicList, Shares!FileComesOrGoes, Shares!Tick, Shares!getTicketSecret, Shares!history

-----------------------------------------------------------------------------
(* The parts together. The invariant keeps those of all parts, also of the  *)
(* parts that a behaviour does not move.                                    *)
IInv ==
    /\ part \in Parts
    /\ AuthInv /\ CredInv /\ QrInv /\ DirectInv /\ ConfInv /\ ShareInv

(* The invariant holds in the initial states.                               *)
LEMMA IInit == Init => IInv
BY AuthInit, CredInit, QrInit, DirectInit, ConfInit, ShareInit DEF Init, IInv

(* A step of one part keeps its invariant and leaves the other parts alone. *)
LEMMA IStep == IInv /\ [Next]_vars => IInv'
<1> SUFFICES ASSUME IInv, [Next]_vars PROVE IInv'
    OBVIOUS
<1>1. CASE /\ part = "auth" /\ Auth!Next
           /\ UNCHANGED <<part, credVars, qrVars, directVars, confVars, shareVars>>
  <2>1. AuthInv'
    BY <1>1, AuthStep DEF IInv
  <2>2. CredInv' /\ QrInv' /\ DirectInv' /\ ConfInv' /\ ShareInv'
    BY <1>1, CredStutter, QrStutter, DirectStutter, ConfStutter, ShareStutter DEF IInv
  <2> QED
    BY <1>1, <2>1, <2>2 DEF IInv
<1>2. CASE /\ part = "cred" /\ Cred!Next
           /\ UNCHANGED <<part, authVars, qrVars, directVars, confVars, shareVars>>
  <2>1. CredInv'
    BY <1>2, CredStep DEF IInv
  <2>2. AuthInv' /\ QrInv' /\ DirectInv' /\ ConfInv' /\ ShareInv'
    BY <1>2, AuthStutter, QrStutter, DirectStutter, ConfStutter, ShareStutter DEF IInv
  <2> QED
    BY <1>2, <2>1, <2>2 DEF IInv
<1>3. CASE /\ part = "qr" /\ Qr!Next
           /\ UNCHANGED <<part, authVars, credVars, directVars, confVars, shareVars>>
  <2>1. QrInv'
    BY <1>3, QrStep DEF IInv
  <2>2. AuthInv' /\ CredInv' /\ DirectInv' /\ ConfInv' /\ ShareInv'
    BY <1>3, AuthStutter, CredStutter, DirectStutter, ConfStutter, ShareStutter DEF IInv
  <2> QED
    BY <1>3, <2>1, <2>2 DEF IInv
<1>4. CASE /\ part = "direct" /\ Direct!Next
           /\ UNCHANGED <<part, authVars, credVars, qrVars, confVars, shareVars>>
  <2>1. DirectInv'
    BY <1>4, DirectStep DEF IInv
  <2>2. AuthInv' /\ CredInv' /\ QrInv' /\ ConfInv' /\ ShareInv'
    BY <1>4, AuthStutter, CredStutter, QrStutter, ConfStutter, ShareStutter DEF IInv
  <2> QED
    BY <1>4, <2>1, <2>2 DEF IInv
<1>5. CASE /\ part = "conf" /\ Conf!Next
           /\ UNCHANGED <<part, authVars, credVars, qrVars, directVars, shareVars>>
  <2>1. ConfInv'
    BY <1>5, ConfStep DEF IInv
  <2>2. AuthInv' /\ CredInv' /\ QrInv' /\ DirectInv' /\ ShareInv'
    BY <1>5, AuthStutter, CredStutter, QrStutter, DirectStutter, ShareStutter DEF IInv
  <2> QED
    BY <1>5, <2>1, <2>2 DEF IInv
<1>6. CASE /\ part = "share" /\ Shares!Next
           /\ UNCHANGED <<part, authVars, credVars, qrVars, directVars, confVars>>
  <2>1. ShareInv'
    BY <1>6, ShareStep DEF IInv
  <2>2. AuthInv' /\ CredInv' /\ QrInv' /\ DirectInv' /\ ConfInv'
    BY <1>6, AuthStutter, CredStutter, QrStutter, DirectStutter, ConfStutter DEF IInv
  <2> QED
    BY <1>6, <2>1, <2>2 DEF IInv
<1>7. CASE UNCHANGED vars
  <2>1. UNCHANGED <<part, authVars, credVars, qrVars, directVars, confVars, shareVars>>
    BY <1>7 DEF vars
  <2> QED
    BY <2>1, AuthStutter, CredStutter, QrStutter, DirectStutter, ConfStutter, ShareStutter DEF IInv
<1> QED
    BY <1>1, <1>2, <1>3, <1>4, <1>5, <1>6, <1>7 DEF Next

(* The invariant holds throughout.                                          *)
THEOREM Invariance == Spec => []IInv
BY IInit, IStep, PTL DEF Spec

(* Every variable keeps its type, in every part.                            *)
THEOREM TypeCorrect == Spec => []TypeOK
<1>1. IInv => TypeOK
    BY AuthTypeOK, CredTypeOK, QrTypeOK, DirectTypeOK, ConfTypeOK, ShareTypeOK DEF IInv, TypeOK
<1> QED
    BY <1>1, Invariance, PTL

(* However many requests overlap, a refresh token is exchanged at most once *)
(* (RefreshService.Rotate), a backup code lets in one login                 *)
(* (VerifyBackupCode), the token of a QR code goes to one poll (GetStatus)  *)
(* and a signed request of a device is served once (replayGuard).           *)
THEOREM OnceOnly == Spec => []UsedOnce
<1>1. IInv => UsedOnce
    BY AuthTypeOK, CredTypeOK, DirectTypeOK DEF IInv, QrInv, UsedOnce
<1> QED
    BY <1>1, Invariance, PTL

(* No refresh that is under way slips past RevokeFamily, a kick or a change *)
(* of the password.                                                         *)
THEOREM Revocation == Spec => []RevocationHolds
<1>1. IInv => RevocationHolds
    BY AuthTypeOK DEF IInv, RevocationHolds
<1> QED
    BY <1>1, Invariance, PTL

(* Requests that overlap get no further than the account's lock, the        *)
(* limiter of the second factor, the cap and the expiry of a link allow.    *)
THEOREM Limits == Spec => []LimitsHold
<1>1. IInv => LimitsHold
    BY CredTypeOK DEF IInv, ShareInv, LimitsHold
<1> QED
    BY <1>1, Invariance, PTL

(* What the settings pages show is what the listener serves and what the    *)
(* limiters, the address list and the monitor work by.                      *)
THEOREM InForce == Spec => []SettingsInForce
<1>1. IInv => SettingsInForce
    BY DirectTypeOK, ConfTypeOK DEF IInv, SettingsInForce
<1> QED
    BY <1>1, Invariance, PTL

(* A request that read the row of a link before its owner deleted it gets   *)
(* no ticket afterwards.                                                    *)
THEOREM NoLateTicket == Spec => NoTicketAfterRevoke
<1>1. IInv /\ [Next]_vars => [part = "share" => Shares!NoTicketAfterRevoke]_vars
  <2> SUFFICES ASSUME IInv, Next, part = "share" PROVE Shares!NoTicketAfterRevoke \/ UNCHANGED vars
    OBVIOUS
  <2>1. CASE Shares!Next
    BY <2>1, ShareRevoked DEF IInv
  <2>2. CASE UNCHANGED vars
    BY <2>2
  <2> QED
    BY <2>1, <2>2 DEF Next
<1> QED
    BY <1>1, Invariance, PTL DEF Spec, NoTicketAfterRevoke
=============================================================================
