----------------------------- MODULE StreamHub -----------------------------
(* The hub behind the monitor's event stream (internal/domain/monitor,      *)
(* MonitorHub and HandleSSE; NotificationHub is the same code).  The        *)
(* collecting loop sends each snapshot to every registered client; the      *)
(* request of a client that leaves takes it out and closes its channel.     *)
EXTENDS Integers

CONSTANTS
    Clients,
    None,
    SendSize        \* buffer of a client's channel

VARIABLES
    clients,        \* the hub's map
    closed,         \* clients whose channel is closed
    queue,          \* client -> messages in its channel
    request,        \* client -> "none" | "streams" | "found" | "deleted" | "over"
    todo,           \* clients that the broadcast under way has still to visit
    at,             \* client whose entry it has read and to which it is to send
    panicked        \* a send on a closed channel ended the panel

vars == <<clients, closed, queue, request, todo, at, panicked>>

----------------------------------------------------------------------------
Register(c) == clients' = clients \cup {c}

(* Load, Delete and close are three steps.                                  *)
Unregister(c) ==
    \/ /\ request[c] = "found" /\ clients' = clients \ {c}
       /\ request' = [request EXCEPT ![c] = "deleted"] /\ UNCHANGED closed
    \/ /\ request[c] = "deleted" /\ closed' = closed \cup {c}
       /\ request' = [request EXCEPT ![c] = "over"] /\ UNCHANGED clients

(* The loop of the map visits entries that are there when it comes to them  *)
(* and hands the client to the function that sends, without waiting.        *)
Broadcast ==
    /\ ~panicked
    /\ \/ at = None /\ todo = {} /\ todo' = clients /\ UNCHANGED <<at, queue, panicked>>
       \/ /\ at = None
          /\ \E c \in todo : todo' = todo \ {c} /\ at' = IF c \in clients THEN c ELSE None
          /\ UNCHANGED <<queue, panicked>>
       \/ /\ at # None /\ at' = None
          /\ panicked' = (at \in closed)
          /\ queue' = [queue EXCEPT ![at] = IF @ < SendSize /\ at \notin closed THEN @ + 1 ELSE @]
          /\ UNCHANGED todo
    /\ UNCHANGED <<clients, closed, request>>

(* A streaming request: register, write what comes, leave when the browser  *)
(* does.                                                                    *)
HandleSSE(c) ==
    /\ \/ request[c] = "none" /\ Register(c) /\ request' = [request EXCEPT ![c] = "streams"]
          /\ UNCHANGED <<closed, queue>>
       \/ request[c] = "streams" /\ queue[c] > 0 /\ queue' = [queue EXCEPT ![c] = @ - 1]
          /\ UNCHANGED <<clients, closed, request>>
       \/ request[c] = "streams" /\ c \in clients /\ request' = [request EXCEPT ![c] = "found"]
          /\ UNCHANGED <<clients, closed, queue>>
       \/ Unregister(c) /\ UNCHANGED queue
    /\ UNCHANGED <<todo, at, panicked>>

----------------------------------------------------------------------------
Init ==
    /\ clients = {} /\ closed = {} /\ queue = [c \in Clients |-> 0]
    /\ request = [c \in Clients |-> "none"] /\ todo = {} /\ at = None /\ panicked = FALSE

Next == Broadcast \/ \E c \in Clients : HandleSSE(c)
Spec == Init /\ [][Next]_vars

----------------------------------------------------------------------------
(* The collecting loop never sends on a channel that is closed (Unregister; *)
(* the terminal's Close says why it does not close its channel: "closing a  *)
(* channel that a sender is writing to panics").                            *)
NeverSendsOnClosed == ~panicked
=============================================================================
