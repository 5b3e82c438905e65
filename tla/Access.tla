------------------------------ MODULE Access --------------------------------
(* Who gets in: login sessions and refresh tokens, passwords and second     *)
(* factors, QR-code logins, the direct channel of mobile devices, the       *)
(* settings that govern them, and links that share a file. The parts share  *)
(* no state, so a behaviour is one of a single part.                        *)
EXTENDS Integers, Sequences, TLC

(* The constants of the parts; one that several parts have carries the name *)
(* of its part.                                                             *)
CONSTANTS
    AuthDevices, Requests, AllowMultiSession, MaxRows, MaxSessions, MaxSeconds,
    CredClients, MaxAttempts, Lockout, MaxVerify, CoolDown, TempLife, MaxWrong,
    MaxBatch, CredMaxClock,
    Browsers, PendingTTL, QrMaxToken, QrMaxClock,
    DirectUsers, DirectDevices, Slots, Signed, ClockSkew, TokenLife, Early, MaxKey,
    DirectMaxToken, MaxCert, DirectMaxClock, DirectMaxFaults,
    Admins, Values, MaxEdits, ConfMaxFaults,
    ShareUsers, Files, ShareClients, Caps, Lives, Zone, TicketLife, MaxId,
    MaxIssued, ShareMaxClock, MaxKeys

VARIABLES
    part,
    rows, authSessions, authLastId, authReq, authClock, ended, changed,
    attempts, lockedUntil, totp, pending, limiter, temps, credReq, mutex, credClock,
    wrong, guesses, redeemed,
    qrSessions, lastToken, sweeping, raced, qrClock, webTokens, given,
    devices, srv, listening, directFiles, certs, seen, tokens, minted,
    directSessions, directReq, directClock, directFaults, served, regenFailed,
    mem, disk, live, pem, confReq, edits, confFaults,
    shareFiles, shares, shareLastId, shareClock, key, tickets, asking, got, issued,
    peak, due

Auth == INSTANCE AuthSessions WITH
    Devices <- AuthDevices, sessions <- authSessions, lastId <- authLastId,
    req <- authReq, clock <- authClock
Cred == INSTANCE Credentials WITH
    Clients <- CredClients, MaxClock <- CredMaxClock, req <- credReq,
    clock <- credClock
Qr == INSTANCE QrLogin WITH
    MaxToken <- QrMaxToken, MaxClock <- QrMaxClock, sessions <- qrSessions,
    clock <- qrClock
Direct == INSTANCE MobileDirect WITH
    Users <- DirectUsers, Devices <- DirectDevices, MaxToken <- DirectMaxToken,
    MaxClock <- DirectMaxClock, MaxFaults <- DirectMaxFaults, files <- directFiles,
    sessions <- directSessions, req <- directReq, clock <- directClock,
    faults <- directFaults
Conf == INSTANCE Settings WITH
    MaxFaults <- ConfMaxFaults, req <- confReq, faults <- confFaults
Shares == INSTANCE FileShares WITH
    Users <- ShareUsers, Clients <- ShareClients, MaxClock <- ShareMaxClock,
    files <- shareFiles, lastId <- shareLastId, clock <- shareClock

ASSUME AuthAssumption == Auth!SessionBounds
ASSUME CredAssumption == Cred!CredentialBounds
ASSUME QrAssumption == Qr!QrBounds
ASSUME DirectAssumption == Direct!DirectBounds
ASSUME ConfAssumption == Conf!SettingsBounds
ASSUME ShareAssumption == Shares!ShareBounds

authVars == <<rows, authSessions, authLastId, authReq, authClock, ended, changed>>
credVars == <<attempts, lockedUntil, totp, pending, limiter, temps, credReq, mutex, credClock,
    wrong, guesses, redeemed>>
qrVars == <<qrSessions, lastToken, sweeping, raced, qrClock, webTokens, given>>
directVars == <<devices, srv, listening, directFiles, certs, seen, tokens, minted,
    directSessions, directReq, directClock, directFaults, served, regenFailed>>
confVars == <<mem, disk, live, pem, confReq, edits, confFaults>>
shareVars == <<shareFiles, shares, shareLastId, shareClock, key, tickets, asking, got, issued,
    peak, due>>
vars == <<part, authVars, credVars, qrVars, directVars, confVars, shareVars>>

-----------------------------------------------------------------------------
Parts == {"auth", "cred", "qr", "direct", "conf", "share"}

Init ==
    /\ part \in Parts
    /\ Auth!Init
    /\ Cred!Init
    /\ Qr!Init
    /\ Direct!Init
    /\ Conf!Init
    /\ Shares!Init

(* The last disjunct: requests that only read, which are all that is left   *)
(* when the bounds of the part are reached.                                 *)
Next ==
    \/ /\ part = "auth" /\ Auth!Next
       /\ UNCHANGED <<part, credVars, qrVars, directVars, confVars, shareVars>>
    \/ /\ part = "cred" /\ Cred!Next
       /\ UNCHANGED <<part, authVars, qrVars, directVars, confVars, shareVars>>
    \/ /\ part = "qr" /\ Qr!Next
       /\ UNCHANGED <<part, authVars, credVars, directVars, confVars, shareVars>>
    \/ /\ part = "direct" /\ Direct!Next
       /\ UNCHANGED <<part, authVars, credVars, qrVars, confVars, shareVars>>
    \/ /\ part = "conf" /\ Conf!Next
       /\ UNCHANGED <<part, authVars, credVars, qrVars, directVars, shareVars>>
    \/ /\ part = "share" /\ Shares!Next
       /\ UNCHANGED <<part, authVars, credVars, qrVars, directVars, confVars>>
    \/ part \in {"auth", "cred", "share"} /\ UNCHANGED vars

Spec == Init /\ [][Next]_vars

-----------------------------------------------------------------------------
(* The variables of every part have their types.                            *)
TypeOK ==
    /\ part = "auth" => Auth!TypeOK
    /\ part = "cred" => Cred!TypeOK
    /\ part = "qr" => Qr!TypeOK
    /\ part = "direct" => Direct!TypeOK
    /\ part = "conf" => Conf!TypeOK
    /\ part = "share" => Shares!TypeOK

(* Whatever requests overlap, what may be used once is used once: a refresh *)
(* token is exchanged at most once (Rotate), a backup code of the current   *)
(* activation lets someone in once (VerifyBackupCode), the token of a       *)
(* confirmed QR code is handed out to one poll (GetStatus), and a signed    *)
(* request of a device is served once while the listener runs               *)
(* (replayGuard).                                                           *)
UsedOnce ==
    /\ part = "auth" => Auth!ExchangedOnce
    /\ part = "cred" => Cred!BackupCodeOnce
    /\ part = "qr" => Qr!ClaimedOnce
    /\ part = "direct" => Direct!NonceOnce

(* No exchange that is under way slips past a revocation: a family of       *)
(* refresh tokens is revoked as a whole, a kicked device has no usable      *)
(* refresh token until it logs in again, and after a change of the password *)
(* no refresh token can be used and no browser has a session unless a login *)
(* has created it since. A device may have a session, which its refresh     *)
(* stored after the change.                                                 *)
RevocationHolds == part = "auth" =>
          /\ Auth!FamilyRevokedTogether
          /\ Auth!KickedCannotRefresh
          /\ Auth!PasswordChangeRevokes

(* Requests that overlap get no further than a limit allows: every wrong    *)
(* password counts, so that the account is locked after MaxAttempts in a    *)
(* row; until the limiter of the second step opens there are no more wrong  *)
(* codes than it allows and the requests that had passed it before; a link  *)
(* issues no more tickets than the highest cap its owner ever set; and      *)
(* nothing is served from it after the moment it was meant to expire.       *)
LimitsHold ==
    /\ part = "cred" => Cred!EveryFailureCounts /\ Cred!GuessesBounded
    /\ part = "share" => Shares!CapHolds /\ Shares!ExpiryHolds

(* What the settings pages show is in force: the certificate whose          *)
(* fingerprint is shown is the one that the direct listener serves, unless  *)
(* its last regeneration failed; with one administrator the limiters, the   *)
(* address list and the monitor work by the configuration between requests, *)
(* also after a save that failed and after a restart; and a saved           *)
(* configuration that enables TLS finds both its files.                     *)
SettingsInForce ==
    /\ part = "direct" => Direct!ShownIsServed
    /\ part = "conf" => Conf!HotIsConfigured /\ Conf!EnabledHasFiles

(* No ticket is issued for a link that was revoked, not even to a request   *)
(* that read the row before the owner deleted it.                           *)
NoTicketAfterRevoke == [][part = "share" => Shares!NoTicketAfterRevoke]_vars

-----------------------------------------------------------------------------
(* Values of the constants for TLC (Access.cfg).                            *)

MCSigned == {[device |-> "d", key |-> 1, nonce |-> n, at |-> 2] : n \in {1, 2}}
(* Requests and clients are interchangeable.                                *)
Interchangeable == Permutations(Requests) \cup Permutations(ShareClients)

=============================================================================
