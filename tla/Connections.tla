---------------------------- MODULE Connections ----------------------------
(***************************************************************************)
(* The browsers' side of the two web servers of hw3, and the list of       *)
(* connections the kernel keeps for their acceptor.  A browser connects    *)
(* and sends one request, before or after it is accepted.                  *)
(***************************************************************************)
CONSTANTS
    Browser,
    Request,    \* what browsers ask for
    Nothing,    \* no request yet
    Leaves      \* the browser closes the connection instead

VARIABLES
    conn,       \* conn[b]: "away", "backlog", "open" (accepted) or "closed" (by the server)
    request     \* request[b]

Asked(b) == request[b] \in Request

NoConnections ==
    /\ conn = [b \in Browser |-> "away"]
    /\ request = [b \in Browser |-> Nothing]

Connects(b) ==
    /\ conn[b] = "away"
    /\ conn' = [conn EXCEPT ![b] = "backlog"]
    /\ UNCHANGED request

Sends(b, r) ==
    /\ conn[b] \in {"backlog", "open"} /\ request[b] = Nothing
    /\ request' = [request EXCEPT ![b] = r]
    /\ UNCHANGED conn

Visits(b) == Connects(b) \/ \E r \in Request \cup {Leaves} : Sends(b, r)

(* What the server does to a connection. *)
Opened(b) == conn' = [conn EXCEPT ![b] = "open"]
Closed(b) == conn' = [conn EXCEPT ![b] = "closed"]
=============================================================================
