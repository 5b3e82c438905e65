------------------------------- MODULE QrLogin -------------------------------
(* Scan-to-login (internal/domain/auth/service_qrlogin.go): a browser shows *)
(* a code and polls, a phone that is logged in confirms, and the next poll  *)
(* picks up the browser's session token.  Everything is in memory, under    *)
(* one mutex, except for the sweep over the map that a new code begins      *)
(* with: that one runs without the mutex, so that the writes of other       *)
(* requests fall into its iteration, which Go's runtime may answer by       *)
(* ending the process.                                                      *)
EXTENDS Naturals, FiniteSets

CONSTANTS
    Browsers,       \* requests for a new code that may be under way together
    PendingTTL,     \* pendingTTL
    MaxToken,       \* bound: codes ever made
    MaxClock        \* bound: the clock

QrBounds == PendingTTL \in Nat /\ MaxToken \in Nat /\ MaxClock \in Nat \ {0}

VARIABLES
    sessions,       \* qr token -> [status, exp]
    lastToken,
    sweeping,       \* browsers whose request is iterating over the map
    raced,          \* a write fell into an iteration
    clock,
    webTokens,      \* qr tokens for which a browser session was created
    given           \* qr token -> times the browser's token was handed out (history)

vars == <<sessions, lastToken, sweeping, raced, clock, webTokens, given>>

Without(f, S) == [y \in DOMAIN f \ S |-> f[y]]
With(f, x, v) == [y \in DOMAIN f \cup {x} |-> IF y = x THEN v ELSE f[y]]

(* Every change of the map's keys while some request iterates over it.      *)
Writes(f) ==
    /\ sessions' = f
    /\ raced' = (raced \/ (sweeping # {} /\ DOMAIN f # DOMAIN sessions))

----------------------------------------------------------------------------
(* The request for a new code arrives and starts its sweep.                 *)
CreateQRSession(b) ==
    /\ lastToken < MaxToken /\ b \notin sweeping
    /\ sweeping' = sweeping \cup {b}
    /\ UNCHANGED <<sessions, lastToken, raced, clock, webTokens, given>>

(* What the sweep leaves of the map.                                        *)
cleanupExpiredLocked ==
    Without(sessions, {t \in DOMAIN sessions : \/ sessions[t].exp < clock
                                               \/ sessions[t].status = "consumed"})

(* The sweep ends and the code is stored, under the mutex.  The deletes and *)
(* the store disturb another request's iteration; a delete in a request's   *)
(* own iteration is allowed.                                                *)
CreateSession(b) ==
    /\ b \in sweeping /\ lastToken < MaxToken
    /\ sessions' = With(cleanupExpiredLocked, lastToken + 1,
                        [status |-> "pending", exp |-> clock + PendingTTL])
    /\ raced' = (raced \/ sweeping # {b})
    /\ lastToken' = lastToken + 1
    /\ sweeping' = sweeping \ {b}
    /\ UNCHANGED <<clock, webTokens, given>>

(* Bug variant: a confirmed session stays as it is.                         *)
GetStatusKeeping(t) ==
    /\ t \in DOMAIN sessions /\ sessions[t].status = "confirmed"
    /\ given' = [given EXCEPT ![t] = @ + 1]
    /\ UNCHANGED <<sessions, lastToken, sweeping, raced, clock, webTokens>>

(* A poll; only one that finds the session confirmed changes anything.      *)
GetStatus(t) ==
    /\ t \in DOMAIN sessions /\ sessions[t].status = "confirmed"
    /\ sessions' = [sessions EXCEPT ![t].status = "consumed"]
    /\ given' = [given EXCEPT ![t] = @ + 1]
    /\ UNCHANGED <<lastToken, sweeping, raced, clock, webTokens>>

(* Bug variant: a code that was confirmed before is confirmed again.        *)
ConfirmAgain(t) ==
    /\ t \in DOMAIN sessions /\ sessions[t].exp >= clock
    /\ Writes([sessions EXCEPT ![t].status = "confirmed"])
    /\ webTokens' = webTokens \cup {t}
    /\ UNCHANGED <<lastToken, sweeping, clock, given>>

Confirm(t) ==
    /\ t \in DOMAIN sessions /\ sessions[t].status = "pending"
    /\ IF clock > sessions[t].exp
       THEN Writes(Without(sessions, {t})) /\ UNCHANGED webTokens
       ELSE /\ Writes([sessions EXCEPT ![t].status = "confirmed"])
            /\ webTokens' = webTokens \cup {t}
    /\ UNCHANGED <<lastToken, sweeping, clock, given>>

Cancel(t) ==
    /\ t \in DOMAIN sessions
    /\ Writes(Without(sessions, {t}))
    /\ UNCHANGED <<lastToken, sweeping, clock, webTokens, given>>

(* The process ends, by the race or otherwise, and systemd starts it again. *)
Restart ==
    /\ sessions' = Without(sessions, DOMAIN sessions)
    /\ sweeping' = {} /\ raced' = FALSE
    /\ UNCHANGED <<lastToken, clock, webTokens, given>>

Tick ==
    /\ clock < MaxClock /\ clock' = clock + 1
    /\ UNCHANGED <<sessions, lastToken, sweeping, raced, webTokens, given>>

----------------------------------------------------------------------------
GetQRStatus == \E t \in 1..lastToken : GetStatus(t)
ConfirmQRLogin == \E t \in 1..lastToken : Confirm(t)
CancelQRLogin == \E t \in 1..lastToken : Cancel(t)

Init ==
    /\ sessions = [t \in {} |-> 0] /\ lastToken = 0 /\ sweeping = {} /\ raced = FALSE
    /\ clock = 1 /\ webTokens = {} /\ given = [t \in 1..MaxToken |-> 0]

Next ==
    \/ \E b \in Browsers : CreateQRSession(b) \/ CreateSession(b)
    \/ GetQRStatus \/ ConfirmQRLogin \/ CancelQRLogin \/ Restart \/ Tick

Spec == Init /\ [][Next]_vars

----------------------------------------------------------------------------
TypeOK ==
    /\ DOMAIN sessions \subseteq 1..lastToken /\ lastToken \in 0..MaxToken
    /\ \A t \in DOMAIN sessions : sessions[t].status \in {"pending", "confirmed", "consumed"}
    /\ sweeping \subseteq Browsers /\ raced \in BOOLEAN /\ clock \in 1..MaxClock

(* The browser's token is handed out once at most, whatever polls, second   *)
(* confirmations and sweeps come in between, and only for a code that was   *)
(* confirmed (GetStatus, "can only be picked up by one poll").              *)
ClaimedOnce == \A t \in 1..MaxToken : given[t] <= IF t \in webTokens THEN 1 ELSE 0

(* The map is never written while another request iterates over it          *)
(* (cleanupExpiredLocked, "Caller must hold s.mu").                         *)
CallerHoldsLock == ~raced
=============================================================================
