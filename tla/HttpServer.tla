----------------------------- MODULE HttpServer -----------------------------
(***************************************************************************)
(* http_server of hw3 (echo_server.cpp, env.cpp, exe.cpp): one thread      *)
(* accepts browsers and reads their requests; for each it sets its own     *)
(* environment and forks a child that becomes the CGI program, with the    *)
(* browser's socket as its output.  Each action is one completion handler  *)
(* of the server, or a step of a child.                                    *)
(* A fork copies every open socket and nothing closes the copies on exec:  *)
(* a browser sees the end of its page when the last process that has its   *)
(* socket ends.  Programs are named as the assignment says, /name.cgi:     *)
(* they exist, and exec succeeds.                                          *)
(***************************************************************************)
EXTENDS Connections, FiniteSets, Integers, Sequences

CONSTANTS
    MaxProc,    \* children that can exist at one time, zombies included
    Length,     \* pieces a program prints
    NoOne

ASSUME HttpAssumption ==
    /\ MaxProc \in Nat \ {0} /\ Length \in Nat
    /\ NoOne \notin Browser
    /\ Request = {"ends", "stays"}    \* programs that end, and a console that waits for ever
    /\ Nothing \notin Request /\ Leaves \notin Request

VARIABLES
    client,     \* client_addr, client_port: the browser accepted last
    environ,    \* the server's environment: whose query and whose address it has
    forking,    \* the browser whose handler waits to fork, or NoOne
    proc,       \* proc[b]: the child for b's request
    page,       \* what b's socket has received
    overtaken   \* auxiliary: another browser was accepted before b's request was read

server == <<client, environ, forking, overtaken>>
vars == <<conn, request, server, proc, page>>

Piece(b, s, k) == [whose |-> b, from |-> s, nth |-> k]
NoChild == [state |-> "none", environ |-> [query |-> NoOne, peer |-> NoOne], has |-> {}]

Init ==
    /\ NoConnections
    /\ client = NoOne
    /\ environ = [query |-> NoOne, peer |-> NoOne]
    /\ forking = NoOne
    /\ proc = [b \in Browser |-> NoChild]
    /\ page = [b \in Browser |-> <<>>]
    /\ overtaken = {}
-----------------------------------------------------------------------------
Unread == {b \in Browser : conn[b] = "open"}
Children == {b \in Browser : proc[b].state \in {"forked", "runs", "zombie"}}

Visit(b) == Visits(b) /\ UNCHANGED <<server, proc, page>>

(* do_accept: the peer goes to the globals; the session starts to read. *)
Accept(b) ==
    /\ forking = NoOne /\ conn[b] = "backlog"
    /\ Opened(b)
    /\ client' = b
    /\ overtaken' = overtaken \cup Unread
    /\ UNCHANGED <<request, environ, forking, proc, page>>

(* Mutant of EnvFor: variables that are set already stay. *)
EnvOfFirst(b) == [query |-> b, peer |-> IF environ.peer = NoOne THEN client ELSE environ.peer]

(* ENV: the query of the request, the address in the globals. *)
EnvFor(b) == [query |-> b, peer |-> client]

(* Mutant of Forks: the loop goes on. *)
ForksAgain(b, e, children) ==
    /\ proc' = [children EXCEPT ![b] = [state |-> "forked", environ |-> e, has |-> Unread]]
    /\ Closed(b)
    /\ forking' = b

(* The fork succeeds: the child has what the server has.  The server closes *)
(* its own copy of the socket; its write fails and the session is gone.     *)
Forks(b, e, children) ==
    /\ proc' = [children EXCEPT ![b] = [state |-> "forked", environ |-> e, has |-> Unread]]
    /\ Closed(b)
    /\ forking' = NoOne

(* Mutant of ForkFails: the request is dropped. *)
Drops(b) == Closed(b) /\ UNCHANGED <<forking, proc>>

ForkFails(b) == forking' = b /\ UNCHANGED <<conn, proc>>

ReadDone(b) ==
    /\ forking = NoOne /\ conn[b] = "open" /\ Asked(b)
    /\ environ' = EnvFor(b)
    /\ \/ Cardinality(Children) < MaxProc /\ Forks(b, environ', proc)
       \/ Cardinality(Children) >= MaxProc /\ ForkFails(b)
    /\ UNCHANGED <<request, client, overtaken, page>>

(* while (pid < 0): waitpid(-1) returns with child c and fork is tried again. *)
Reap(c) ==
    /\ forking # NoOne /\ proc[c].state = "zombie"
    /\ Forks(forking, environ, [proc EXCEPT ![c].state = "gone"])
    /\ UNCHANGED <<request, client, environ, overtaken, page>>

(* The browser has gone: the session ends without a word. *)
ReadFails(b) ==
    /\ forking = NoOne /\ conn[b] = "open" /\ request[b] = Leaves
    /\ Closed(b)
    /\ UNCHANGED <<request, server, proc, page>>
-----------------------------------------------------------------------------
(* The child for b's request: dup2, the status line, exec. *)
Exec(b) ==
    /\ proc[b].state = "forked"
    /\ proc' = [proc EXCEPT ![b].state = "runs"]
    /\ page' = [page EXCEPT ![b] = Append(@, Piece(b, "status", 1))]
    /\ UNCHANGED <<conn, request, server>>

(* Mutant of QueryOf: what the server's environment holds now. *)
QueryNow(b) == environ.query

QueryOf(b) == proc[b].environ.query

(* The program prints the next piece of the page its query asks for. *)
Output(b) ==
    /\ proc[b].state = "runs" /\ Len(page[b]) <= Length
    /\ page' = [page EXCEPT ![b] = Append(@, Piece(QueryOf(b), "program", Len(@)))]
    /\ UNCHANGED <<conn, request, server, proc>>

End(b) ==
    /\ proc[b].state = "runs" /\ Len(page[b]) > Length /\ request[b] = "ends"
    /\ proc' = [proc EXCEPT ![b].state = "zombie", ![b].has = {}]
    /\ UNCHANGED <<conn, request, server, page>>

Child(b) == Exec(b) \/ Output(b) \/ End(b)

Next == \E b \in Browser :
            Visit(b) \/ Accept(b) \/ ReadDone(b) \/ ReadFails(b) \/ Reap(b) \/ Child(b)

(* io_context.run() calls every handler that is ready, waitpid returns when *)
(* a child has ended, children run.  Browsers do as they like.              *)
Fairness ==
    /\ \A b \in Browser : WF_vars(Accept(b)) /\ WF_vars(ReadDone(b)) /\ WF_vars(ReadFails(b))
    /\ WF_vars(\E c \in Browser : Reap(c))
    /\ \A b \in Browser : WF_vars(Child(b))

Spec == Init /\ [][Next]_vars /\ Fairness
-----------------------------------------------------------------------------
States == {"none", "forked", "runs", "zombie", "gone"}
Sources == {"status", "program"}
PagePieces == [whose : Browser \cup {NoOne}, from : Sources, nth : 1..Length + 1]
Environment == [query : Browser \cup {NoOne}, peer : Browser \cup {NoOne}]

(* The values each variable can have; there are never more children than    *)
(* the system lets the server have, and who has been closed is in nobody's  *)
(* hands but those of children.                                             *)
TypeOK ==
    /\ conn \in [Browser -> {"away", "backlog", "open", "closed"}]
    /\ request \in [Browser -> Request \cup {Nothing, Leaves}]
    /\ client \in Browser \cup {NoOne} /\ environ \in Environment
    /\ forking \in Unread \cup {NoOne}
    /\ proc \in [Browser -> [state : States, environ : Environment, has : SUBSET Browser]]
    /\ page \in [Browser -> Seq(PagePieces)]
    /\ overtaken \subseteq Browser
    /\ Cardinality(Children) <= MaxProc

Answered(b) == Asked(b) /\ proc[b].state # "none"
Holders(b)  == {c \in Browser : b \in proc[c].has}
Over(b)     == Answered(b) /\ conn[b] = "closed" /\ Holders(b) = {}

AnswerTo(b) ==
    IF Asked(b) THEN [s \in Sources |-> IF s = "status" THEN 1 ELSE Length]
                ELSE [s \in Sources |-> 0]

(* Each browser gets the page of its own query, the status line first,      *)
(* whatever the other children print meanwhile and whatever the server's    *)
(* environment has become since; and no end of it before it is complete.    *)
Owed == INSTANCE Answers
            WITH Source <- Sources, First <- "status",
                 answer <- [b \in Browser |-> AnswerTo(b)],
                 over <- [b \in Browser |-> Over(b)]
AnswersSpec == Owed!Spec

(* REMOTE_ADDR and REMOTE_PORT of a program are its own browser's, unless    *)
(* another browser was accepted before the request was read: then they are  *)
(* somebody else's.                                                         *)
PeerUnlessOvertaken ==
    \A b \in Browser : Answered(b) /\ b \notin overtaken => proc[b].environ.peer = b

(* Children are waited for only when fork fails, and that is enough: every  *)
(* request gets its whole page as long as not every place for a child is    *)
(* taken by a program that never ends.  The page then also ends, unless one *)
(* of those was started while the browser's connection was open, and has a  *)
(* copy of it.                                                              *)
Staying == {b \in Browser : request[b] = "stays"}
EveryoneAnswered ==
    \A b \in Browser :
        Asked(b) ~> \/ Cardinality(Staying) >= MaxProc
                    \/ Owed!Complete(b) /\ (Over(b) \/ Holders(b) \cap Staying # {})
=============================================================================
