----------------------------- MODULE FileShares -----------------------------
(* Share links of files (internal/domain/filemanager/http/share_handler.go):*)
(* the rows of the owners, the public requests that turn a link into a      *)
(* ticket and a ticket into a download.  A request for a ticket reads the   *)
(* row, decides, and then counts or deletes: other requests go on between   *)
(* those statements.  Tickets are signed with a key that a panel start      *)
(* makes anew, and nothing about them is stored.                            *)
EXTENDS Integers, FiniteSets

CONSTANTS
    Users, Files,
    Clients,      \* public requests for a ticket that may be under way
    Caps,         \* download caps owners ask for, 0 for none
    Lives,        \* lifetimes owners ask for, 0 for none
    Zone,         \* the server's local time is UTC + Zone
    TicketLife,   \* lifetime of a ticket (6 hours)
    MaxId,        \* bound: shares ever created
    MaxIssued,    \* bound: tickets issued for one share
    MaxClock,     \* bound: the clock
    MaxKeys       \* bound: panel starts

(* No time that is written down is before the epoch.                        *)
ShareBounds ==
    /\ Caps \subseteq Nat /\ Lives \subseteq Nat /\ Zone \in Int /\ Zone >= -1
    /\ TicketLife \in Nat /\ MaxId \in Nat /\ MaxIssued \in Nat
    /\ MaxClock \in Nat \ {0} /\ MaxKeys \in Nat \ {0}

VARIABLES
    files,        \* files that exist
    shares,       \* id -> [by, file, secret, exp, cap, count]
    lastId,       \* AUTOINCREMENT
    clock,        \* UTC
    key,          \* the ticket key of this panel start
    tickets,      \* tickets that clients hold, [id, exp, key]
    asking,       \* client -> its request for a ticket, with what it read, [step, id, file, exp]
    got,          \* shares the last request was served from
    issued,       \* id -> tickets issued (history)
    peak,         \* id -> highest cap the owner ever set, 0 for no cap (history)
    due           \* id -> when the owner meant the link to expire (history)

vars == <<files, shares, lastId, clock, key, tickets, asking, got, issued, peak, due>>
history == <<issued, peak, due>>

NoRow == [by |-> "", file |-> "", secret |-> FALSE, exp |-> 0, cap |-> 0, count |-> 0]
Idle == [step |-> "idle", id |-> 0, file |-> "", exp |-> 0]
With(f, x, v) == [y \in DOMAIN f \cup {x} |-> IF y = x THEN v ELSE f[y]]
Without(f, x) == [y \in DOMAIN f \ {x} |-> f[y]]

----------------------------------------------------------------------------
(* Statements on the table of shares.                                       *)
GetByID(id) == IF id \in DOMAIN shares THEN shares[id] ELSE NoRow
GetByToken(id) == GetByID(id)            \* every share has a token of its own
Create(row) == shares' = With(shares, lastId + 1, row) /\ lastId' = lastId + 1
RepoDelete(id) == Without(shares, id)
DeleteExpired ==
    [id \in {i \in DOMAIN shares : /\ shares[i].exp = 0 \/ shares[i].exp > clock
                                   /\ shares[i].cap = 0 \/ shares[i].count < shares[i].cap}
        |-> shares[id]]

(* Bug variants: the cap itself is let through; the count of changed rows   *)
(* is not looked at.                                                        *)
IncrementUpToLimit(id) ==
    id \in DOMAIN shares /\ (shares[id].cap = 0 \/ shares[id].count <= shares[id].cap)
IncrementIgnoringRows(id) ==
    id \in DOMAIN shares => shares[id].cap = 0 \/ shares[id].count < shares[id].cap

IncrementDownloadsIfUnderLimit(id) ==
    id \in DOMAIN shares /\ (shares[id].cap = 0 \/ shares[id].count < shares[id].cap)
Counted(id) == IF id \in DOMAIN shares THEN [shares EXCEPT ![id].count = @ + 1] ELSE shares

(* A lifetime is written down as local time; read back, it is taken for UTC.*)
parseExpiresAt(life) == IF life = 0 THEN 0 ELSE clock + life + Zone
Past(exp) == exp # 0 /\ clock > exp

----------------------------------------------------------------------------
(* Requests of owners.                                                      *)
CreateShare(u, f, secret, life, cap) ==
    /\ lastId < MaxId /\ f \in files
    /\ Create([by |-> u, file |-> f, secret |-> secret, exp |-> parseExpiresAt(life), cap |-> cap, count |-> 0])
    /\ issued' = With(issued, lastId + 1, 0) /\ peak' = With(peak, lastId + 1, cap)
    /\ due' = With(due, lastId + 1, IF life = 0 THEN 0 ELSE clock + life)
    /\ got' = {} /\ UNCHANGED <<files, clock, key, tickets, asking>>

(* A lifetime of 0 clears the expiry, a cap of 0 lifts the cap, and Keep    *)
(* leaves either as it is.                                                  *)
Keep == -1
Update(id, life, cap) ==
    shares' = [shares EXCEPT ![id].exp = IF life = Keep THEN @ ELSE parseExpiresAt(life),
                             ![id].cap = IF cap = Keep THEN @ ELSE cap]
UpdateShare(u, id, life, cap) ==
    /\ GetByID(id).by = u
    /\ Update(id, life, cap)
    /\ peak' = [peak EXCEPT ![id] = IF cap = Keep THEN @ ELSE IF @ = 0 \/ cap = 0 THEN 0 ELSE IF cap > @ THEN cap ELSE @]
    /\ due' = [due EXCEPT ![id] = IF life = Keep THEN @ ELSE IF life = 0 THEN 0 ELSE clock + life]
    /\ got' = {} /\ UNCHANGED <<files, lastId, clock, key, tickets, asking, issued>>

DeleteShare(u, id) ==
    /\ GetByID(id).by = u
    /\ shares' = RepoDelete(id)
    /\ got' = {} /\ UNCHANGED <<files, lastId, clock, key, tickets, asking, history>>

CleanupExpired ==
    /\ shares' = DeleteExpired
    /\ got' = {} /\ UNCHANGED <<files, lastId, clock, key, tickets, asking, history>>

----------------------------------------------------------------------------
(* The public requests.                                                     *)
verifySharePassword(row, knows) == row.secret => knows

GetTicket(c, id, knows) ==
    /\ asking[c] = Idle /\ id \in DOMAIN shares
    /\ verifySharePassword(GetByToken(id), knows)
    /\ asking' = [asking EXCEPT ![c] = [step |-> "check", id |-> id,
                                              file |-> GetByToken(id).file, exp |-> GetByToken(id).exp]]
    /\ got' = {} /\ UNCHANGED <<files, shares, lastId, clock, key, tickets, history>>

Sign(id) == [id |-> id, exp |-> clock + TicketLife, key |-> key]

TicketIssued(c) ==
    LET q == asking[c]
    IN /\ q.step = "check" /\ issued[q.id] < MaxIssued /\ ~Past(q.exp) /\ q.file \in files
       /\ IncrementDownloadsIfUnderLimit(q.id)
       /\ shares' = Counted(q.id)
       /\ tickets' = tickets \cup {Sign(q.id)}
       /\ issued' = [issued EXCEPT ![q.id] = @ + 1]
       /\ asking' = [asking EXCEPT ![c] = Idle]
       /\ got' = {} /\ UNCHANGED <<files, lastId, clock, key, peak, due>>

(* Expired, its file gone or used up: the row is deleted on the way out.    *)
TicketRefused(c) ==
    LET q == asking[c]
    IN /\ q.step = "check"
       /\ Past(q.exp) \/ q.file \notin files \/ ~IncrementDownloadsIfUnderLimit(q.id)
       /\ asking' = [asking EXCEPT ![c].step = "drop"]
       /\ got' = {} /\ UNCHANGED <<files, shares, lastId, clock, key, tickets, history>>
TicketDrops(c) ==
    /\ asking[c].step = "drop"
    /\ shares' = RepoDelete(asking[c].id)
    /\ asking' = [asking EXCEPT ![c] = Idle]
    /\ got' = {} /\ UNCHANGED <<files, lastId, clock, key, tickets, history>>

validateTicket(id, t) == t.id = id /\ clock <= t.exp /\ t.key = key

(* Bug variant: as it was before, only the request for a ticket looks.      *)
checkShareUsableByCount(row) == row.cap = 0 \/ row.count < row.cap

checkShareUsable(row) == ~Past(row.exp) /\ (row.cap = 0 \/ row.count < row.cap)

PublicDownload(t) ==
    /\ t.id \in DOMAIN shares
    /\ validateTicket(t.id, t) /\ checkShareUsable(shares[t.id])
    /\ shares[t.id].file \in files
    /\ got' = {t.id}
    /\ UNCHANGED <<files, shares, lastId, clock, key, tickets, asking, history>>
(* A listing asks for the same, of a directory.                             *)
PublicList(t) == PublicDownload(t)

----------------------------------------------------------------------------
(* The world around.                                                        *)
FileComesOrGoes ==
    /\ \E f \in Files : files' = IF f \in files THEN files \ {f} ELSE files \cup {f}
    /\ got' = {} /\ UNCHANGED <<shares, lastId, clock, key, tickets, asking, history>>
Tick ==
    /\ clock < MaxClock /\ clock' = clock + 1
    /\ got' = {} /\ UNCHANGED <<files, shares, lastId, key, tickets, asking, history>>
getTicketSecret ==
    /\ key < MaxKeys /\ key' = key + 1
    /\ asking' = [c \in Clients |-> Idle]
    /\ got' = {} /\ UNCHANGED <<files, shares, lastId, clock, tickets, history>>

----------------------------------------------------------------------------
Init ==
    /\ files = Files /\ shares = [id \in {} |-> NoRow] /\ lastId = 0
    /\ clock = 1 /\ key = 1 /\ tickets = {}
    /\ asking = [c \in Clients |-> Idle] /\ got = {}
    /\ issued = [id \in {} |-> 0] /\ peak = [id \in {} |-> 0] /\ due = [id \in {} |-> 0]

Next ==
    \/ \E u \in Users, f \in Files, s \in BOOLEAN, l \in Lives, n \in Caps : CreateShare(u, f, s, l, n)
    \/ \E u \in Users, id \in DOMAIN shares, l \in Lives \cup {Keep}, n \in Caps \cup {Keep} :
          UpdateShare(u, id, l, n)
    \/ \E u \in Users, id \in DOMAIN shares : DeleteShare(u, id)
    \/ CleanupExpired
    \/ \E c \in Clients, id \in DOMAIN shares, knows \in BOOLEAN : GetTicket(c, id, knows)
    \/ \E c \in Clients : TicketIssued(c) \/ TicketRefused(c) \/ TicketDrops(c)
    \/ \E t \in tickets : PublicDownload(t) \/ PublicList(t)
    \/ FileComesOrGoes \/ Tick \/ getTicketSecret

Spec == Init /\ [][Next]_vars

----------------------------------------------------------------------------
TypeOK ==
    /\ files \subseteq Files /\ DOMAIN shares \subseteq 1..lastId /\ lastId \in 0..MaxId
    /\ \A id \in DOMAIN shares : shares[id].by \in Users /\ shares[id].file \in Files
    /\ clock \in 1..MaxClock /\ key \in 1..MaxKeys
    /\ \A id \in DOMAIN issued : issued[id] \in 0..MaxIssued
    /\ \A t \in tickets : t.id \in 1..lastId /\ t.key \in 1..key
    /\ \A c \in Clients : asking[c].step \in {"idle", "check", "drop"}
    /\ got \subseteq 1..lastId

(* Requests that overlap never draw more tickets from a link than the       *)
(* highest cap its owner ever set                                           *)
(* (IncrementDownloadsIfUnderLimit, "atomically increments only when under  *)
(* the cap").                                                               *)
CapHolds == \A id \in DOMAIN issued : peak[id] # 0 => issued[id] <= peak[id]

(* No ticket is issued for a link that was revoked, not even to a request   *)
(* that read the row before the owner deleted it.                           *)
NoTicketAfterRevoke ==
    \A id \in DOMAIN issued : issued'[id] > issued[id] => id \in DOMAIN shares

(* Nothing is served from a link after the moment its owner meant it to     *)
(* expire, or as much later as the local time is ahead of UTC, whatever     *)
(* tickets are still around (checkShareUsable, parseExpiresAt).             *)
ExpiryHolds == \A id \in got : due[id] = 0 \/ clock <= due[id] + Zone

(* Whoever was given a ticket can download with it, as long as the ticket   *)
(* is valid, the link neither expired nor changed and the file there:       *)
(* the cap was already counted down for it (GetTicket, "the ONLY place      *)
(* where download counts are incremented").                                 *)
TicketHonoured ==
    \A t \in tickets :
        /\ t.id \in DOMAIN shares /\ validateTicket(t.id, t)
        /\ ~Past(shares[t.id].exp) /\ shares[t.id].cap = peak[t.id]
        => checkShareUsable(shares[t.id])

(* A request for a ticket deletes a link only when it is of no use any      *)
(* more: expired, used up or without its file.                              *)
OnlyDeadDropped ==
    \A c \in Clients : TicketDrops(c) =>
        LET id == asking[c].id
        IN id \in DOMAIN shares =>
             shares[id].file \notin files \/ ~checkShareUsable(shares[id])
=============================================================================
