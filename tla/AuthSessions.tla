---------------------------- MODULE AuthSessions ----------------------------
(***************************************************************************)
(* Sessions and refresh tokens of one user, internal/domain/auth           *)
(* (session.go, refresh.go) with the handlers that combine them,           *)
(* internal/domain/auth/http: login, refresh, logout, change of the        *)
(* password, kicking one session or all others.                            *)
(*                                                                         *)
(* Sessions are a map in memory under a lock; refresh tokens are rows of   *)
(* the database, which has one connection and immediate transactions, so   *)
(* each statement and each transaction is one step. A handler is several   *)
(* steps, and handlers overlap.                                            *)
(*                                                                         *)
(* An access token is a signed record of the user, the second in which it  *)
(* was issued and the second in which it expires: tokens of one second and *)
(* one time to live are equal. Sessions are keyed by the token.            *)
(***************************************************************************)
EXTENDS Naturals, Sequences

CONSTANTS Devices,            \* the mobile devices
          Requests,           \* the requests that may be under way together
          AllowMultiSession,  \* cfg.Auth.AllowMultiSession
          MaxRows,            \* bound on the refresh tokens issued
          MaxSessions,        \* bound on the sessions created
          MaxSeconds          \* bound on the clock

SessionBounds ==
  /\ AllowMultiSession \in BOOLEAN
  /\ MaxRows \in Nat /\ MaxSessions \in Nat /\ MaxSeconds \in Nat \ {0}
  /\ "none" \notin Devices

VARIABLES
  rows,      \* the table refresh_tokens, in the order of the inserts
  sessions,  \* SessionService.sessions
  lastId,    \* the session ids drawn so far
  req,       \* the requests: control point and local variables
  clock,     \* the current second
  ended,     \* devices that were kicked, with no login since
  changed    \* whether a change of the password revoked the tokens, with no login since

memory == <<sessions, lastId>>
history == <<ended, changed>>
vars == <<rows, memory, req, clock, history>>

NoDevice == "none"   \* a browser
NoToken == [at |-> 0, ttl |-> "none"]
Idle == [pc |-> "idle", dev |-> NoDevice, tok |-> NoToken, row |-> 0, id |-> 0,
         issue |-> FALSE, revoke |-> {}]

Device == Devices \cup {NoDevice}
Row == 1..Len(rows)
Token == [at : 1..MaxSeconds, ttl : {"session", "quarter"}]

TypeOK ==
  /\ rows \in Seq([family : 1..MaxRows, dev : Devices, from : 0..MaxRows,
                   rotated : BOOLEAN, revoked : BOOLEAN, expired : BOOLEAN])
  /\ Len(rows) <= MaxRows
  /\ sessions \subseteq [id : 1..MaxSessions, tok : Token, dev : Device]
  /\ \A s, t \in sessions : s.tok = t.tok \/ s.id = t.id => s = t
  /\ \A r \in Requests : /\ req[r].dev \in Device /\ req[r].row \in 0..MaxRows
                          /\ req[r].tok \in Token \cup {NoToken}
  /\ lastId \in 0..MaxSessions /\ clock \in 1..MaxSeconds
  /\ ended \subseteq Devices /\ changed \in BOOLEAN

Init ==
  /\ rows = <<>>
  /\ sessions = {} /\ lastId = 0
  /\ req = [r \in Requests |-> Idle]
  /\ clock = 1
  /\ ended = {} /\ changed = FALSE

At(r, label) == req[r].pc = label
Goto(r, label) == req' = [req EXCEPT ![r].pc = label]
Done(r) == req' = [req EXCEPT ![r] = Idle]
Begin(r, q) == At(r, "idle") /\ req' = [req EXCEPT ![r] = q]

Tick ==
  /\ clock < MaxSeconds
  /\ clock' = clock + 1
  /\ UNCHANGED <<rows, memory, req, history>>

\* The access tokens of this second: a login by password of a device gets one for a
\* quarter of an hour, everything else one for the configured time of a session.
GenerateToken(ttl) == [at |-> clock, ttl |-> ttl]

\* A row that Rotate accepts for a new token.
Usable(i) ==
  ~(rows[i].rotated \/ rows[i].revoked \/ rows[i].expired)
UsableRows(d) == {i \in Row : rows[i].dev = d /\ Usable(i)}
SessionsOf(d) == {s \in sessions : s.dev = d}
IdsOf(d) == {s.id : s \in SessionsOf(d)}

----------------------------------------------------------------------------
(* SessionService.                                                          *)

\* A map write: the session of that token, if there is one, is gone.
StoredBeside(tok, sess) == sessions \cup {sess}
Stored(tok, sess) == {s \in sessions : s.tok # tok} \cup {sess}

CreateSession(tok, dev) ==
  /\ lastId < MaxSessions
  /\ lastId' = lastId + 1
  /\ sessions' = Stored(tok, [id |-> lastId + 1, tok |-> tok, dev |-> dev])

\* The session of the old access token gets the new token and keeps its id and
\* device; if there is none a session is created.
ReplaceSession(old, tok, dev) ==
  LET found == {s \in sessions : s.tok = old}
  IN  IF found = {}
        THEN CreateSession(tok, dev)
        ELSE /\ sessions' = {s \in sessions : s.tok \notin {old, tok}}
                              \cup {[s EXCEPT !.tok = tok] : s \in found}
             /\ UNCHANGED lastId

\* A session expires or is idle too long: IsSessionValid refuses it from then on
\* and CleanupExpiredSessions deletes it.
SessionExpires(s) ==
  /\ sessions' = sessions \ {s}
  /\ UNCHANGED <<rows, lastId, req, clock, history>>

----------------------------------------------------------------------------
(* RefreshService.                                                          *)

NewRow(family, dev, from) ==
  [family |-> family, dev |-> dev, from |-> from,
   rotated |-> FALSE, revoked |-> FALSE, expired |-> FALSE]

\* RevokeFamily for some devices: their rows that are not revoked yet.
Revoked(D) ==
  [i \in Row |-> [rows[i] EXCEPT !.revoked = @ \/ rows[i].dev \in D]]

\* What Rotate writes when the row was rotated before: its family is revoked.
ReplayRevokesRow(i) == [rows EXCEPT ![i].revoked = TRUE]
ReplayRevokes(i) ==
  [j \in Row |-> [rows[j] EXCEPT !.revoked = @ \/ rows[j].family = rows[i].family]]

\* What it writes when the row is fresh: the row is marked and the next token of
\* the family, for the same device, is inserted.
RotatesUnmarked(i) ==
  Append(rows, NewRow(rows[i].family, rows[i].dev, i))
Rotates(i) ==
  Append([rows EXCEPT ![i].rotated = TRUE], NewRow(rows[i].family, rows[i].dev, i))

\* RefreshTTL has passed for a row; its predecessors are older.
RowExpires(i) ==
  /\ ~rows[i].expired
  /\ \A j \in 1..(i - 1) : rows[j].expired
  /\ rows' = [rows EXCEPT ![i].expired = TRUE]
  /\ UNCHANGED <<memory, req, clock, history>>

----------------------------------------------------------------------------
(* Login. The password and the second factor have been accepted.            *)

\* A device that logs in by its password gets a refresh token, one that needs a
\* second factor (VerifyTOTP, VerifyBackupCode) does not.
Login(r, dev, factors) ==
  /\ LET byPassword == dev # NoDevice /\ factors = 1
     IN  Begin(r, [Idle EXCEPT !.pc = IF AllowMultiSession THEN "create" ELSE "evict",
                               !.dev = dev, !.issue = byPassword,
                               !.tok = GenerateToken(IF byPassword THEN "quarter" ELSE "session")])
  /\ UNCHANGED <<rows, memory, clock, history>>

\* A change of the name ends all sessions, in either mode, and creates one for
\* the browser; the refresh tokens stay.
ChangeUsername(r) ==
  /\ sessions # {}
  /\ Begin(r, [Idle EXCEPT !.pc = "evict", !.tok = GenerateToken("session")])
  /\ UNCHANGED <<rows, memory, clock, history>>

\* Single-session mode: the user's other sessions are removed ...
EvictSessions(r) ==
  /\ At(r, "evict")
  /\ sessions' = {}
  /\ Goto(r, "create")
  /\ UNCHANGED <<rows, lastId, clock, history>>

\* What a login ends: the device is in again.
LoggedIn(dev) ==
  /\ ended' = ended \ {dev}
  /\ changed' = FALSE

\* ... the session is created ...
CreateLogin(r) ==
  /\ At(r, "create")
  /\ CreateSession(req[r].tok, req[r].dev)
  /\ LoggedIn(req[r].dev)
  /\ IF req[r].issue THEN Goto(r, "issue") ELSE Done(r)
  /\ UNCHANGED <<rows, clock>>

\* ... and a device gets a refresh token of a new family.
Issue(r) ==
  /\ At(r, "issue") /\ Len(rows) < MaxRows
  /\ rows' = Append(rows, NewRow(Len(rows) + 1, req[r].dev, 0))
  /\ LoggedIn(req[r].dev)
  /\ Done(r)
  /\ UNCHANGED <<memory, clock>>

----------------------------------------------------------------------------
(* The refresh endpoint. A client presents row i, for the device that it is *)
(* bound to, with the access token of a session or none; a refused row      *)
(* changes nothing.                                                         *)

Rotate(r, i, old) ==
  /\ Usable(i) /\ Len(rows) < MaxRows
  /\ rows' = Rotates(i)
  /\ Begin(r, [Idle EXCEPT !.pc = "replace", !.dev = rows[i].dev, !.tok = old, !.row = i])
  /\ UNCHANGED <<memory, clock, history>>

DetectReplay(r, i) ==
  /\ At(r, "idle")
  /\ rows[i].rotated /\ ~(rows[i].revoked \/ rows[i].expired)
  /\ rows' = ReplayRevokes(i)
  /\ UNCHANGED <<memory, req, clock, history>>

Replace(r) ==
  /\ At(r, "replace")
  /\ ReplaceSession(req[r].tok, GenerateToken("session"), req[r].dev)
  /\ Done(r)
  /\ UNCHANGED <<rows, clock, history>>

\* Identity does not find the row any more, or signing fails: the client gets an
\* error and not the new token.
RefreshFails(r) ==
  /\ At(r, "replace")
  /\ Done(r)
  /\ UNCHANGED <<rows, memory, clock, history>>

----------------------------------------------------------------------------
(* Logout, change of the password, kick.                                    *)

\* Logout removes the session of its token; the refresh tokens of the device stay.
Logout(s) ==
  /\ sessions' = sessions \ {s}
  /\ UNCHANGED <<rows, lastId, req, clock, history>>

\* ChangePassword: the new hash is stored, then all refresh tokens are revoked ...
ChangePassword(r) ==
  /\ sessions # {}
  /\ Begin(r, [Idle EXCEPT !.pc = "revokeAll"])
  /\ UNCHANGED <<rows, memory, clock, history>>

RevokeAll(r) ==
  /\ At(r, "revokeAll")
  /\ rows' = Revoked(Devices)
  /\ changed' = TRUE
  /\ Goto(r, "removeAll")
  /\ UNCHANGED <<memory, clock, ended>>

\* ... and then all sessions removed.
RemovedNone == sessions
RemovedAll == {}
RemoveAll(r) ==
  /\ At(r, "removeAll")
  /\ sessions' = RemovedAll
  /\ Done(r)
  /\ UNCHANGED <<rows, lastId, clock, history>>

\* KickSession removes the session with the id that it found in the list ...
Kick(r, s) ==
  /\ \E own \in sessions : own # s
  /\ Begin(r, [Idle EXCEPT !.pc = "kick", !.dev = s.dev, !.id = s.id])
  /\ UNCHANGED <<rows, memory, clock, history>>

RemoveSessionByID(r) ==
  /\ At(r, "kick")
  /\ sessions' = {s \in sessions : s.id # req[r].id}
  /\ req' = [req EXCEPT ![r].pc = "revoke", ![r].revoke = {req[r].dev} \ {NoDevice}]
  /\ UNCHANGED <<rows, lastId, clock, history>>

\* ... KickAllOtherSessions all but the caller's own, noting their devices.
KickAll(r, own) ==
  /\ sessions' = {own}
  /\ Begin(r, [Idle EXCEPT !.pc = "revoke",
                            !.revoke = {s.dev : s \in sessions \ {own}} \ {NoDevice}])
  /\ UNCHANGED <<rows, lastId, clock, history>>

\* Both then revoke the refresh tokens of the devices, one by one.
ChainKept(r, d) ==
  /\ At(r, "revoke") /\ d \in req[r].revoke
  /\ ended' = ended \cup {d}
  /\ req' = [req EXCEPT ![r].revoke = @ \ {d}]
  /\ UNCHANGED <<rows, memory, clock, changed>>
RevokeDevice(r, d) ==
  /\ At(r, "revoke") /\ d \in req[r].revoke
  /\ rows' = Revoked({d})
  /\ ended' = ended \cup {d}
  /\ req' = [req EXCEPT ![r].revoke = @ \ {d}]
  /\ UNCHANGED <<memory, clock, changed>>

KickDone(r) ==
  /\ At(r, "revoke") /\ req[r].revoke = {}
  /\ Done(r)
  /\ UNCHANGED <<rows, memory, clock, history>>

----------------------------------------------------------------------------
Next ==
  \/ \E s \in sessions : SessionExpires(s) \/ Logout(s)
  \/ \E i \in Row : RowExpires(i)
  \/ Tick
  \/ \E r \in Requests :
       \/ \E d \in Device, factors \in 1..2 : Login(r, d, factors)
       \/ ChangeUsername(r)
       \/ EvictSessions(r) \/ CreateLogin(r) \/ Issue(r)
       \/ \E i \in Row : DetectReplay(r, i) \/ \E old \in {s.tok : s \in sessions} \cup {NoToken} : Rotate(r, i, old)
       \/ Replace(r) \/ RefreshFails(r)
       \/ ChangePassword(r) \/ RevokeAll(r) \/ RemoveAll(r)
       \/ \E s \in sessions : Kick(r, s) \/ KickAll(r, s)
       \/ RemoveSessionByID(r) \/ KickDone(r)
       \/ \E d \in Devices : RevokeDevice(r, d)

Spec == Init /\ [][Next]_vars

----------------------------------------------------------------------------
\* However refreshes, replays and kicks overlap, a refresh token is
\* exchanged at most once, so a family never has two tokens that can be used.
ExchangedOnce ==
  \A i, j \in Row :
    /\ rows[i].from = rows[j].from /\ rows[i].from # 0 => i = j
    /\ rows[i].family = rows[j].family /\ Usable(i) /\ Usable(j) => i = j

\* A family is revoked as a whole: no rotation slips a token past the
\* revocation, whether a replay or a kick caused it.
FamilyRevokedTogether ==
  \A i, j \in Row :
    rows[i].family = rows[j].family => rows[i].revoked = rows[j].revoked

\* A kicked device has no usable refresh token until it logs in again, also when
\* its refresh was under way during the kick.
KickedCannotRefresh == \A d \in ended : UsableRows(d) = {}

\* After a change of the password no refresh token can be used, and when it has
\* returned no browser has a session, unless a login has created its session or
\* its refresh token since. A device may have a session: its refresh was
\* exchanged before the change and stored the session afterwards.
PasswordChangeRevokes ==
  changed =>
    /\ \A d \in Devices : UsableRows(d) = {}
    /\ (\A r \in Requests : ~At(r, "removeAll")) => \A s \in sessions : s.dev # NoDevice

\* What the comment in KickSession is about: the app of a kicked device does not
\* get a session back without a login. It holds for one request at a time; a
\* refresh that was rotated before the kick and stores its session after it
\* breaks it.
KickedStaysOut ==
  [][\A d \in ended \cap ended' : IdsOf(d)' \subseteq IdsOf(d)]_vars
=============================================================================
