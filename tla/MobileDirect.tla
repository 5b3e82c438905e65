---------------------------- MODULE MobileDirect ----------------------------
(* The direct channel of the mobile app (internal/mobiledirect): a listener *)
(* of its own that checks a device's signature, guards against a request    *)
(* sent twice, mints a short session for the device and forwards to the     *)
(* panel, minting anew once when the panel answers that the session is      *)
(* gone.  Requests overlap while their bodies are read and while they are   *)
(* forwarded.  time.Now() does not fall on a whole second: the clock is     *)
(* odd, the seconds that devices sign are even.                             *)
EXTENDS Integers, FiniteSets

CONSTANTS
    Users, Devices,
    Slots,          \* requests that may be under way together
    Signed,         \* signed requests, [device, key, nonce, at], at even
    ClockSkew,      \* cfg.ClockSkew
    TokenLife,      \* lifetime of a minted session
    Early,          \* how long before its end a cached token is replaced
    MaxKey,         \* bound: keys a device makes
    MaxToken,       \* bound: tokens ever minted
    MaxCert,        \* bound: certificates ever made
    MaxClock,       \* bound: the clock
    MaxFaults       \* bound: failing system calls

(* Devices sign whole seconds, which are even here, and the clock is odd:   *)
(* time.Now() is never exactly the skew away from a signed second.          *)
DirectBounds ==
    /\ ClockSkew \in Nat /\ ClockSkew % 2 = 0
    /\ \A m \in Signed : m.device \in Devices /\ m.at \in Nat /\ m.at % 2 = 0
    /\ TokenLife \in Nat /\ Early \in Nat
    /\ MaxKey \in Nat /\ MaxToken \in Nat /\ MaxCert \in Nat /\ MaxFaults \in Nat
    /\ MaxClock \in Nat /\ MaxClock % 2 = 1

VARIABLES
    devices,        \* device -> its row [user, key, revoked], user = NoUser for none
    srv,            \* the manager holds a server
    listening,      \* certificate the listener serves, 0 when nothing listens
    files,          \* [crt, key]: certificate files, 0 for absent
    certs,          \* certificates made so far
    seen,           \* replayGuard: request -> when its entry ends, 0 for none
    tokens,         \* device -> its cached token [tok, exp], tok = 0 for none
    minted,
    sessions,       \* rows of the panel's session table: [tok, device, exp]
    req,            \* slot -> request under way
    clock, faults,
    served,         \* request -> times the panel served it since the last Apply (history)
    regenFailed     \* the last regeneration failed (history)

vars == <<devices, srv, listening, files, certs, seen, tokens, minted, sessions, req,
          clock, faults, served, regenFailed>>

NoUser == "none"
NoToken == [tok |-> 0, exp |-> 0]
Idle == [phase |-> "idle"]
Charge(failed) == faults' = faults + (IF failed THEN 1 ELSE 0) /\ faults' <= MaxFaults
Elsewhere == <<srv, listening, files, certs, faults, regenFailed>>

----------------------------------------------------------------------------
(* Registered keys.                                                         *)
Register(u, d, k) ==
    /\ devices[d].user \in {NoUser, u}
    /\ devices' = [devices EXCEPT ![d] = [user |-> u, key |-> k, revoked |-> FALSE]]

Revoke(u, d) ==
    /\ devices[d].user = u /\ ~devices[d].revoked
    /\ devices' = [devices EXCEPT ![d].revoked = TRUE]

create(u, d, k) ==
    /\ Register(u, d, k)
    /\ UNCHANGED <<seen, tokens, minted, sessions, req, clock, served, Elsewhere>>

(* What it does to the refresh chain is in AuthSessions.                    *)
revoke(u, d) ==
    /\ Revoke(u, d)
    /\ UNCHANGED <<seen, tokens, minted, sessions, req, clock, served, Elsewhere>>

GetByDeviceID(d) == devices[d].user # NoUser /\ ~devices[d].revoked

----------------------------------------------------------------------------
(* The guard: a request's entry lasts twice the allowed skew from the time  *)
(* the request came in.                                                     *)
hasSeen(m, now) == now < seen[m]

(* Bug variant: an entry lasts as long as the skew.                         *)
seenForSkew(m, now) == [seen EXCEPT ![m] = now + ClockSkew]
seenBefore(m, now) == [seen EXCEPT ![m] = now + 2 * ClockSkew]

(* Tokens.  A row is replaced in place when the device's previous token is  *)
(* known, and made otherwise.                                               *)
invalidateToken(d) == [tokens EXCEPT ![d] = NoToken]

tokenForDevice(cache, d) ==
    IF cache[d].tok # 0 /\ clock < cache[d].exp - Early
    THEN tokens' = cache /\ UNCHANGED <<minted, sessions>>
    ELSE /\ minted < MaxToken /\ minted' = minted + 1
         /\ tokens' = [cache EXCEPT ![d] = [tok |-> minted + 1, exp |-> clock + TokenLife]]
         /\ sessions' = {s \in sessions : s.tok # cache[d].tok}
                          \cup {[tok |-> minted + 1, device |-> d, exp |-> clock + TokenLife]}

----------------------------------------------------------------------------
(* A signed request comes in.  Everything cheap is checked before the body  *)
(* is read, with the time and the key of now.                               *)
deviceAuth(s, m) ==
    /\ listening # 0 /\ req[s] = Idle
    /\ clock - m.at <= ClockSkew /\ m.at - clock <= ClockSkew
    /\ GetByDeviceID(m.device) /\ ~hasSeen(m, clock)
    /\ req' = [req EXCEPT ![s] = [phase |-> "body", m |-> m, now |-> clock, key |-> devices[m.device].key]]
    /\ UNCHANGED <<devices, seen, tokens, minted, sessions, clock, served, Elsewhere>>

(* Bug variant: the guard is not asked again after the body was read.       *)
bufferBodyOnly(s) ==
    /\ req[s].phase = "body"
    /\ IF req[s].key = req[s].m.key
       THEN /\ seen' = seenBefore(req[s].m, req[s].now)
            /\ tokenForDevice(tokens, req[s].m.device)
            /\ req' = [req EXCEPT ![s] = [phase |-> "sent", m |-> req[s].m, tok |-> tokens'[req[s].m.device].tok]]
       ELSE req' = [req EXCEPT ![s] = Idle] /\ UNCHANGED <<seen, tokens, minted, sessions>>
    /\ UNCHANGED <<devices, clock, served, Elsewhere>>

(* The body was read: the signature is checked, the guard takes the request *)
(* unless its twin came first, and it is forwarded with the device's token. *)
bufferBodyForHash(s) ==
    /\ req[s].phase = "body"
    /\ IF req[s].key = req[s].m.key /\ ~hasSeen(req[s].m, req[s].now)
       THEN /\ seen' = seenBefore(req[s].m, req[s].now)
            /\ tokenForDevice(tokens, req[s].m.device)
            /\ req' = [req EXCEPT ![s] = [phase |-> "sent", m |-> req[s].m, tok |-> tokens'[req[s].m.device].tok]]
       ELSE req' = [req EXCEPT ![s] = Idle] /\ UNCHANGED <<seen, tokens, minted, sessions>>
    /\ UNCHANGED <<devices, clock, served, Elsewhere>>

Serve(s) ==
    /\ served' = [served EXCEPT ![req[s].m] = @ + 1]
    /\ req' = [req EXCEPT ![s] = Idle]
    /\ UNCHANGED <<tokens, minted, sessions>>

(* The panel answers by what the session table says, with a token minted    *)
(* anew and a second try when the first was refused.                        *)
RoundTrip(s) ==
    /\ req[s].phase \in {"sent", "retried"}
    /\ IF \E r \in sessions : r.tok = req[s].tok /\ clock < r.exp THEN Serve(s)
       ELSE IF req[s].phase = "sent"
            THEN /\ tokenForDevice(invalidateToken(req[s].m.device), req[s].m.device)
                 /\ req' = [req EXCEPT ![s] = [phase |-> "retried", m |-> req[s].m, tok |-> minted']]
                 /\ UNCHANGED served
            ELSE req' = [req EXCEPT ![s] = Idle] /\ UNCHANGED <<tokens, minted, sessions, served>>
    /\ UNCHANGED <<devices, seen, clock, Elsewhere>>

----------------------------------------------------------------------------
(* The listener.  EnsureCert makes a pair when one of the files is missing; *)
(* the second write may fail, and the first.                                *)
EnsureCert(f, at) ==
    IF f.crt # 0 /\ f.key # 0 THEN f
    ELSE CASE at = "crt" -> f
           [] at = "key" -> [f EXCEPT !.crt = certs + 1]
           [] OTHER -> [crt |-> certs + 1, key |-> certs + 1]

RegenerateCert(at) == EnsureCert([crt |-> 0, key |-> 0], at)
NewServer == [m \in Signed |-> 0]

(* A new server starts with nothing in memory.  What the old one still has  *)
(* under way ends there, with the old server's guard and cache, and is not  *)
(* followed further.  The address is bound later, in a goroutine: whether   *)
(* that works is not reported.                                              *)
Start(f, bound) ==
    /\ srv' = TRUE
    /\ listening' = IF bound THEN f.crt ELSE 0
    /\ seen' = NewServer /\ served' = NewServer
    /\ tokens' = [d \in Devices |-> NoToken]

Stop ==
    /\ srv' = FALSE /\ listening' = 0
    /\ UNCHANGED <<seen, served, tokens>>

(* Bug variant: a server that runs is left alone.                           *)
ApplyOnce(on, f, ok, bound) ==
    IF on /\ srv THEN UNCHANGED <<srv, listening, seen, served, tokens>>
    ELSE IF on /\ ok THEN Start(f, bound) ELSE Stop

Apply(on, f, ok, bound) == IF on /\ ok THEN Start(f, bound) ELSE Stop

(* The settings request: regenerate if asked, then apply.  (One that cannot *)
(* save the configuration ends before.)                                     *)
UpdateMobileDirect(on, regen, at) ==
    LET f == IF regen THEN RegenerateCert(at) ELSE IF on THEN EnsureCert(files, at) ELSE files
        ok == at \notin {"crt", "key"}
    IN /\ at # "none" => on \/ regen
       /\ at \in {"crt", "key"} => regen \/ files.crt = 0 \/ files.key = 0
       /\ at = "bind" => on
       /\ Charge(at # "none")
       /\ files' = f
       /\ certs' = (IF f.crt \notin {0, files.crt} THEN certs + 1 ELSE certs) /\ certs' <= MaxCert
       /\ regenFailed' = (regen /\ ~ok)
       /\ IF regen /\ ~ok THEN UNCHANGED <<srv, listening, seen, served, tokens, req>>
          ELSE Apply(on, f, ok, at # "bind") /\ req' = [s \in Slots |-> Idle]
       /\ UNCHANGED <<devices, minted, sessions, clock>>

----------------------------------------------------------------------------
(* Elsewhere in the panel: a session is kicked; ended ones are cleaned up.  *)
Kick(r) ==
    /\ sessions' = sessions \ {r}
    /\ UNCHANGED <<devices, seen, tokens, minted, req, clock, served, Elsewhere>>

Tick ==
    /\ clock < MaxClock /\ clock' = clock + 2
    /\ sessions' = {r \in sessions : r.exp > clock'}
    /\ UNCHANGED <<devices, seen, tokens, minted, req, served, Elsewhere>>

Init ==
    /\ devices = [d \in Devices |-> [user |-> NoUser, key |-> 0, revoked |-> FALSE]]
    /\ srv = FALSE /\ listening = 0 /\ files = [crt |-> 0, key |-> 0] /\ certs = 0
    /\ seen = NewServer /\ tokens = [d \in Devices |-> NoToken] /\ minted = 0 /\ sessions = {}
    /\ req = [s \in Slots |-> Idle] /\ clock = 1 /\ faults = 0
    /\ served = NewServer /\ regenFailed = FALSE

Next ==
    \/ \E u \in Users, d \in Devices, k \in 1..MaxKey : create(u, d, k)
    \/ \E u \in Users, d \in Devices : revoke(u, d)
    \/ \E s \in Slots : bufferBodyForHash(s) \/ RoundTrip(s) \/ \E m \in Signed : deviceAuth(s, m)
    \/ \E on, regen \in BOOLEAN, at \in {"none", "crt", "key", "bind"} : UpdateMobileDirect(on, regen, at)
    \/ \E r \in sessions : Kick(r)
    \/ Tick

Spec == Init /\ [][Next]_vars

----------------------------------------------------------------------------
TypeOK ==
    /\ \A d \in Devices : devices[d].user \in Users \cup {NoUser} /\ devices[d].key \in 0..MaxKey
    /\ srv \in BOOLEAN /\ listening \in 0..MaxCert /\ files \in [crt : 0..MaxCert, key : 0..MaxCert]
    /\ \A m \in Signed : seen[m] \in 0..(MaxClock + 2 * ClockSkew)
    /\ \A r \in sessions : r.tok \in 1..minted /\ r.device \in Devices
    /\ \A s \in Slots : req[s].phase \in {"idle", "body", "sent", "retried"}
    /\ faults \in 0..MaxFaults

(* A signed request is served once at most while the listener runs, however *)
(* copies of it overlap and however late they come (replayGuard).           *)
NonceOnce == \A m \in Signed : served[m] <= 1

(* The certificate whose fingerprint the settings page shows is the one the *)
(* listener serves, so that a phone can pin it (Status, RegenerateCert and  *)
(* Apply), unless the last regeneration failed.                             *)
ShownIsServed == srv /\ listening # 0 /\ ~regenFailed => files.crt = listening

(* The session list has one row per device (tokenForDevice).                *)
OneRowPerDevice == \A r1, r2 \in sessions : r1.device = r2.device => r1 = r2

(* A server that the manager reports as running accepts connections         *)
(* (Start, "a failure is returned").                                        *)
RunningListens == srv => listening # 0
=============================================================================
