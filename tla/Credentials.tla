---------------------------- MODULE Credentials ----------------------------
(* The credentials of one account (internal/domain/auth: service.go,        *)
(* verify_limiter.go, http/handler.go): password with lockout, TOTP set-up, *)
(* the second step of a login with its limiter, backup codes.  A request    *)
(* reads, spends its time on a hash, and then writes: requests of several   *)
(* clients overlap there.  What a login creates is in AuthSessions.         *)
EXTENDS Integers, FiniteSets

CONSTANTS
    Clients,        \* requests that may be under way together
    MaxAttempts,    \* Auth.MaxLoginAttempts
    Lockout,        \* Auth.LockoutDuration
    MaxVerify,      \* failures the limiter of the second step allows
    CoolDown,       \* and how long it then refuses
    TempLife,       \* lifetime of the token between the two steps
    MaxWrong,       \* bound: wrong passwords in a row
    MaxBatch,       \* bound: TOTP activations
    MaxClock        \* bound: the clock

CredentialBounds ==
    /\ IsFiniteSet(Clients) /\ "none" \notin Clients
    /\ MaxAttempts \in Nat \ {0} /\ MaxVerify \in Nat \ {0} /\ CoolDown \in Nat \ {0}
    /\ Lockout \in Nat /\ TempLife \in Nat /\ MaxWrong \in Nat /\ MaxBatch \in Nat
    /\ MaxClock \in Nat \ {0}

VARIABLES
    attempts, lockedUntil,
    totp,           \* [on, secret, codes]; a code is a pair <<activation, n>>
    pending,        \* the secret of a set-up, 0 for none (in memory)
    limiter,        \* [count, until] (in memory)
    temps,          \* tokens between the steps, by the time they expire
    req,            \* client -> its request
    mutex,          \* client that holds the backup-code lock, or NoClient
    clock,
    wrong,          \* wrong passwords since the last reset (history)
    guesses,        \* failed second steps since the last success or lock's end (history)
    redeemed        \* code -> how often it let someone in (history)

vars == <<attempts, lockedUntil, totp, pending, limiter, temps, req, mutex, clock,
          wrong, guesses, redeemed>>

NoClient == "none"
Idle == [kind |-> "idle", right |-> FALSE, code |-> <<0, 0>>, codes |-> {}]
Off == [on |-> FALSE, secret |-> 0, codes |-> {}]
Codes == (1..MaxBatch) \X {1}
NoCode == <<0, 0>>
Now(c, r) == req' = [req EXCEPT ![c] = r]

----------------------------------------------------------------------------
(* Statements on the users table.                                           *)
IncrementLoginAttempts ==
    /\ attempts' = attempts + 1
    /\ lockedUntil' = IF attempts + 1 >= MaxAttempts THEN clock + Lockout ELSE lockedUntil
ResetLoginState == attempts' = 0 /\ lockedUntil' = 0
RepoEnableTOTP(secret, codes) == totp' = [on |-> TRUE, secret |-> secret, codes |-> codes]
RepoDisableTOTP == totp' = Off
GetBackupCodes == totp.codes
UpdateBackupCodes(codes) == totp' = [totp EXCEPT !.codes = codes]

(* The limiter of the second step.                                          *)
Allowed == clock >= limiter.until

(* Bug variant: the failure that reaches the limit is let go.               *)
RecordFailureBeyond ==
    limiter' = IF clock < limiter.until THEN limiter
               ELSE IF limiter.count + 1 > MaxVerify
                    THEN [count |-> 0, until |-> clock + CoolDown]
                    ELSE [limiter EXCEPT !.count = @ + 1]

RecordFailure ==
    limiter' = IF clock < limiter.until THEN limiter
               ELSE IF limiter.count + 1 >= MaxVerify
                    THEN [count |-> 0, until |-> clock + CoolDown]
                    ELSE [limiter EXCEPT !.count = @ + 1]
Reset == limiter' = [count |-> 0, until |-> 0]

----------------------------------------------------------------------------
(* First step.  The row is read, the hash compared, the outcome written.    *)
LoginWithInfo(c, right) ==
    /\ req[c] = Idle /\ lockedUntil <= clock
    /\ Now(c, [Idle EXCEPT !.kind = "password", !.right = right])
    /\ UNCHANGED <<attempts, lockedUntil, totp, pending, limiter, temps, mutex, clock,
                   wrong, guesses, redeemed>>

(* Bug variant: the count is written from what the request had read, so     *)
(* that requests that overlap count once.                                   *)
LoginFailsFromSnapshot(c) ==
    /\ req[c].kind = "password" /\ ~req[c].right /\ wrong < MaxWrong
    /\ attempts' = 1 /\ lockedUntil' = IF MaxAttempts = 1 THEN clock + Lockout ELSE lockedUntil
    /\ wrong' = wrong + 1
    /\ Now(c, Idle)
    /\ UNCHANGED <<totp, pending, limiter, temps, mutex, clock, guesses, redeemed>>

LoginFails(c) ==
    /\ req[c].kind = "password" /\ ~req[c].right /\ wrong < MaxWrong
    /\ IncrementLoginAttempts
    /\ wrong' = wrong + 1
    /\ Now(c, Idle)
    /\ UNCHANGED <<totp, pending, limiter, temps, mutex, clock, guesses, redeemed>>

GenerateTOTPTempToken == temps' = temps \cup {clock + TempLife}

Login(c) ==
    /\ req[c].kind = "password" /\ req[c].right
    /\ ResetLoginState /\ wrong' = 0
    /\ IF totp.on THEN GenerateTOTPTempToken ELSE UNCHANGED temps
    /\ Now(c, Idle)
    /\ UNCHANGED <<totp, pending, limiter, mutex, clock, guesses, redeemed>>

----------------------------------------------------------------------------
(* Second step.  A token is good until it expires.                          *)
ValidateTOTPTempToken(t) == clock <= t

SecondStep(c, t, r) ==
    /\ req[c] = Idle /\ ValidateTOTPTempToken(t) /\ Allowed
    /\ Now(c, r)
    /\ UNCHANGED <<attempts, lockedUntil, totp, pending, limiter, temps, mutex, clock,
                   wrong, guesses, redeemed>>
PostTOTP(c, t, right) == SecondStep(c, t, [Idle EXCEPT !.kind = "totp", !.right = right])
PostBackup(c, t, code) == SecondStep(c, t, [Idle EXCEPT !.kind = "backup", !.code = code])

Succeeds(c) == Reset /\ guesses' = 0 /\ Now(c, Idle)
Fails(c) ==
    /\ RecordFailure /\ guesses' = guesses + 1 /\ Now(c, Idle)

VerifyTOTP(c) ==
    /\ req[c].kind = "totp"
    /\ IF ~totp.on THEN Now(c, Idle) /\ UNCHANGED <<limiter, guesses>>
       ELSE IF req[c].right THEN Succeeds(c) ELSE Fails(c)
    /\ UNCHANGED <<attempts, lockedUntil, totp, pending, temps, mutex, clock, wrong, redeemed>>

(* Bug variant: as it was before, without the lock around read and write.   *)
LockCodesNever(c) ==
    /\ req[c].kind = "backup"
    /\ IF totp.on THEN Now(c, [req[c] EXCEPT !.kind = "compare", !.codes = GetBackupCodes])
                  ELSE Now(c, Idle)
    /\ UNCHANGED <<attempts, lockedUntil, totp, pending, limiter, temps, mutex, clock,
                   wrong, guesses, redeemed>>

LockCodes(c) ==
    /\ req[c].kind = "backup" /\ mutex = NoClient
    /\ IF totp.on THEN mutex' = c /\ Now(c, [req[c] EXCEPT !.kind = "compare", !.codes = GetBackupCodes])
                  ELSE mutex' = mutex /\ Now(c, Idle)
    /\ UNCHANGED <<attempts, lockedUntil, totp, pending, limiter, temps, clock,
                   wrong, guesses, redeemed>>

VerifyBackupCode(c) ==
    /\ req[c].kind = "compare"
    /\ mutex' = NoClient
    /\ IF req[c].code \in req[c].codes
       THEN /\ UpdateBackupCodes(req[c].codes \ {req[c].code})
            /\ redeemed' = [redeemed EXCEPT ![req[c].code] = @ + 1]
            /\ Succeeds(c)
       ELSE Fails(c) /\ UNCHANGED <<totp, redeemed>>
    /\ UNCHANGED <<attempts, lockedUntil, pending, temps, clock, wrong>>

----------------------------------------------------------------------------
(* Requests of the owner, who is logged in.                                 *)
LastBatch == Cardinality({b \in 1..MaxBatch : redeemed[<<b, 1>>] >= 0})
SetupTOTP ==
    /\ ~totp.on
    /\ pending' = 1
    /\ UNCHANGED <<attempts, lockedUntil, totp, limiter, temps, req, mutex, clock,
                   wrong, guesses, redeemed>>

(* The secret of the set-up is kept: with it TOTP can be enabled again, and *)
(* every activation makes new codes.  redeemed is -1 for codes to come.     *)
EnableTOTP ==
    /\ pending # 0 /\ LastBatch < MaxBatch
    /\ RepoEnableTOTP(pending, {<<LastBatch + 1, 1>>})
    /\ redeemed' = [redeemed EXCEPT ![<<LastBatch + 1, 1>>] = 0]
    /\ UNCHANGED <<attempts, lockedUntil, pending, limiter, temps, req, mutex, clock, wrong, guesses>>

DisableTOTP ==
    /\ totp.on /\ RepoDisableTOTP
    /\ UNCHANGED <<attempts, lockedUntil, pending, limiter, temps, req, mutex, clock,
                   wrong, guesses, redeemed>>

(* The administrator's commands on the host.                                *)
UnlockUser ==
    /\ lockedUntil # 0
    /\ ResetLoginState /\ wrong' = 0
    /\ UNCHANGED <<totp, pending, limiter, temps, req, mutex, clock, guesses, redeemed>>

Tick ==
    /\ clock < MaxClock /\ clock' = clock + 1
    /\ guesses' = IF clock < limiter.until /\ clock' >= limiter.until THEN 0 ELSE guesses
    /\ temps' = {t \in temps : t >= clock'}
    /\ UNCHANGED <<attempts, lockedUntil, totp, pending, limiter, req, mutex, wrong, redeemed>>

----------------------------------------------------------------------------
Init ==
    /\ attempts = 0 /\ lockedUntil = 0 /\ totp = Off /\ pending = 0
    /\ limiter = [count |-> 0, until |-> 0] /\ temps = {}
    /\ req = [c \in Clients |-> Idle] /\ mutex = NoClient /\ clock = 1
    /\ wrong = 0 /\ guesses = 0 /\ redeemed = [x \in Codes |-> -1]

Next ==
    \/ \E c \in Clients, right \in BOOLEAN : LoginWithInfo(c, right)
    \/ \E c \in Clients : LoginFails(c) \/ Login(c) \/ VerifyTOTP(c) \/ LockCodes(c) \/ VerifyBackupCode(c)
    \/ \E c \in Clients, t \in temps, right \in BOOLEAN : PostTOTP(c, t, right)
    \/ \E c \in Clients, t \in temps, code \in Codes \cup {NoCode} : PostBackup(c, t, code)
    \/ SetupTOTP \/ EnableTOTP \/ DisableTOTP \/ UnlockUser \/ Tick

Spec == Init /\ [][Next]_vars

----------------------------------------------------------------------------
TypeOK ==
    /\ attempts \in 0..MaxWrong /\ lockedUntil \in 0..(MaxClock + Lockout)
    /\ totp.on \in BOOLEAN /\ totp.codes \subseteq Codes /\ pending \in 0..1
    /\ limiter.count \in Nat /\ limiter.until \in 0..(MaxClock + CoolDown)
    /\ \A c \in Clients : req[c].kind \in {"idle", "password", "totp", "backup", "compare"}
    /\ mutex \in Clients \cup {NoClient} /\ clock \in 1..MaxClock

(* Every wrong password counts, also when requests overlap: after           *)
(* MaxAttempts of them in a row the account has been locked                 *)
(* (IncrementLoginAttempts adds in the statement itself).                   *)
EveryFailureCounts ==
    attempts = wrong /\ (wrong >= MaxAttempts => lockedUntil > 0)

(* A backup code lets someone in once, whatever requests for it overlap     *)
(* (VerifyBackupCode, which holds a lock from the read to the write), while *)
(* its activation is the current one.                                       *)
BackupCodeOnce ==
    \A x \in Codes : redeemed[x] >= 1 /\ x[1] = LastBatch => redeemed[x] = 1 /\ x \notin totp.codes

(* Until the limiter opens again there are no more wrong second steps than  *)
(* it allows and the requests that had passed it before.                    *)
GuessesBounded == guesses <= MaxVerify + Cardinality(Clients) - 1

(* The limiter locks after MaxVerify failures in a row                      *)
(* (VerifyAttemptLimiter).                                                  *)
GuessesExact == guesses <= MaxVerify
=============================================================================
