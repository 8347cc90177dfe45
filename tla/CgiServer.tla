----------------------------- MODULE CgiServer ------------------------------
(***************************************************************************)
(* cgi_server of hw3 (main.cpp: classes server, session and the side of    *)
(* shell_connect that faces the browser; the side that faces the shells is *)
(* Console).  One thread does everything.  The page is sent by            *)
(* asynchronous writes that nobody waits for, from arrays that the next    *)
(* piece overwrites: data_ of the session, data_b of each console session. *)
(* A write is taken by the system at once, or, from a browser that reads   *)
(* slowly, later, and then as the array is by then.  do_console runs the   *)
(* sessions of a console in a loop inside the handler of the request: until *)
(* the last has ended no other handler runs.  Errors of writes to a browser *)
(* are ignored, so one that has gone changes nothing here.                 *)
(***************************************************************************)
EXTENDS Connections, FiniteSets, Integers, SequencesExt

CONSTANTS
    Slow,       \* browsers whose connection may be full when a piece is sent
    Session,    \* sessions of a console
    NoOne

(* A request names a page; for a console, how many pieces each session will *)
(* show before it ends, or whether one of them never ends.                 *)
ASSUME CgiAssumption ==
    /\ Request \subseteq [page : {"panel", "console", "other"}, shows : [Session -> Nat], stays : BOOLEAN]
    /\ \A r \in Request : r.page # "console" => r.shows = [i \in Session |-> 0] /\ ~r.stays
    /\ Slow \subseteq Browser /\ NoOne \notin Browser /\ "data_" \notin Session
    /\ Nothing \notin Request /\ Leaves \notin Request

VARIABLES
    busy,       \* the browser whose console runs inside its handler, or NoOne
    buffer,     \* buffer[b][s]: the piece in data_ of b's session, in data_b of session s
    sent,       \* the pieces written to b's socket, in that order
    page        \* what the system has taken of them

vars == <<conn, request, busy, buffer, sent, page>>

Source == Session \cup {"data_"}
Piece(b, s, k) == [whose |-> b, from |-> s, nth |-> k]
Empty(b, s) == Piece(b, s, 0)

Init ==
    /\ NoConnections
    /\ busy = NoOne
    /\ buffer = [b \in Browser |-> [s \in Source |-> Empty(b, s)]]
    /\ sent = [b \in Browser |-> <<>>] /\ page = [b \in Browser |-> <<>>]
-----------------------------------------------------------------------------
IsConsole(b) == Asked(b) /\ request[b].page = "console"
Pending(b) == Len(page[b]) < Len(sent[b])

(* Mutant of Array: all pieces of a browser go through one array. *)
OneArray(p) == "data_"

(* The array a piece is written from. *)
Array(p) == p.from

(* async_write_some of these pieces, one after the other, of which the      *)
(* system takes n at once.  Writes to a socket are taken in their order.    *)
Writes(b, pieces, n) ==
    /\ n \in 0..Len(pieces)
    /\ b \notin Slow => n = Len(pieces)
    /\ Pending(b) => n = 0
    /\ buffer' = [buffer EXCEPT ![b][Array(Last(pieces))] = Last(pieces)]
    /\ sent' = [sent EXCEPT ![b] = @ \o pieces]
    /\ page' = [page EXCEPT ![b] = @ \o SubSeq(pieces, 1, n)]

(* The system takes the next write of b, with what its array holds now. *)
Taken(b) ==
    /\ conn[b] = "open" /\ Pending(b)
    /\ page' = [page EXCEPT ![b] = Append(@, buffer[b][Array(sent[b][Len(@) + 1])])]
    /\ UNCHANGED <<conn, request, busy, buffer, sent>>
-----------------------------------------------------------------------------
Visit(b) == Visits(b) /\ UNCHANGED <<busy, buffer, sent, page>>

(* Mutant of Accepting: do_accept is not called again. *)
AcceptingOnce == busy = NoOne /\ \A b \in Browser : conn[b] # "closed"

Accepting == busy = NoOne

Accept(b) ==
    /\ Accepting /\ conn[b] = "backlog"
    /\ Opened(b)
    /\ UNCHANGED <<request, busy, buffer, sent, page>>

(* The status line; for the panel and a console also the type and the text. *)
Heading(b) ==
    [k \in 1..(IF request[b].page = "other" THEN 1 ELSE 3) |-> Piece(b, "data_", k)]

(* do_http_response: the session ends with its handler, and its socket is   *)
(* closed with it; writes that have not been taken are cancelled.  A console *)
(* goes on inside the handler.                                              *)
ReadDone(b, n) ==
    /\ busy = NoOne /\ conn[b] = "open" /\ Asked(b)
    /\ Writes(b, Heading(b), n)
    /\ \/ IsConsole(b) /\ busy' = b /\ UNCHANGED conn
       \/ ~IsConsole(b) /\ Closed(b) /\ UNCHANGED busy
    /\ UNCHANGED request

ReadFails(b) ==
    /\ busy = NoOne /\ conn[b] = "open" /\ request[b] = Leaves
    /\ Closed(b)
    /\ UNCHANGED <<request, busy, buffer, sent, page>>

Count(b, s) == Cardinality({k \in DOMAIN sent[b] : sent[b][k].from = s})

(* Mutant of HasMore: one piece more. *)
HasOneMore(b, s) == Count(b, s) <= request[b].shows[s]

HasMore(b, s) == Count(b, s) < request[b].shows[s]

(* output_host, output_shell, output_command: session s shows its next piece. *)
Output(b, s, n) ==
    /\ busy = b /\ HasMore(b, s)
    /\ Writes(b, <<Piece(b, s, Count(b, s) + 1)>>, n)
    /\ UNCHANGED <<conn, request, busy>>

(* Mutant of AllEnded: the loop runs until one session has ended. *)
OneEnded(b) == \E s \in Session : ~HasMore(b, s)

AllEnded(b) == ~request[b].stays /\ \A s \in Session : ~HasMore(b, s)

(* io_context_test.run() returns, and do_console with it. *)
ConsoleEnds(b) ==
    /\ busy = b /\ AllEnded(b)
    /\ Closed(b)
    /\ busy' = NoOne
    /\ UNCHANGED <<request, buffer, sent, page>>

Handler(b) ==
    \/ Accept(b)
    \/ \E n \in 0..3 : ReadDone(b, n) \/ \E s \in Session : Output(b, s, n)
    \/ ReadFails(b)
    \/ ConsoleEnds(b)

Next == \E b \in Browser : Visit(b) \/ Handler(b) \/ Taken(b)

(* The loops call every handler that is ready, the shells of sessions that  *)
(* end do end.  Nothing makes a browser read or ask.                        *)
Fairness == \A b \in Browser : WF_vars(Handler(b))

Spec == Init /\ [][Next]_vars /\ Fairness
-----------------------------------------------------------------------------
AnswerTo(b) ==
    [s \in Source |-> CASE ~Asked(b) -> 0
                        [] Asked(b) /\ s = "data_" -> Len(Heading(b))
                        [] Asked(b) /\ s # "data_" -> request[b].shows[s]]
PiecesOf(b) == UNION {{Piece(b, s, k) : k \in 1..AnswerTo(b)[s]} : s \in Source}

(* The values each variable can have. *)
TypeOK ==
    /\ conn \in [Browser -> {"away", "backlog", "open", "closed"}]
    /\ request \in [Browser -> Request \cup {Nothing, Leaves}]
    /\ busy \in {b \in Browser : conn[b] = "open" /\ IsConsole(b)} \cup {NoOne}
    /\ \A b \in Browser :
          /\ sent[b] \in Seq(PiecesOf(b)) /\ page[b] \in Seq(PiecesOf(b))
          /\ \A s \in Source : buffer[b][s] \in PiecesOf(b) \cup {Empty(b, s)}

(* Browsers whose connections are never full get their own page, in order   *)
(* and complete before it ends, whatever slow ones do beside them.          *)
Over(b) == Asked(b) /\ conn[b] = "closed"
Quick == Browser \ Slow
Owed == INSTANCE Answers
            WITH Browser <- Quick, First <- "data_",
                 answer <- [b \in Quick |-> AnswerTo(b)],
                 page <- [b \in Quick |-> page[b]],
                 over <- [b \in Quick |-> Over(b)]
AnswersSpec == Owed!Spec

(* A write that is taken late still shows a piece of the session it was     *)
(* for, in the place it was sent, and never an older one: only a later one  *)
(* of that session can have replaced it.                                    *)
LateWrites ==
    \A b \in Browser :
        /\ Len(page[b]) <= Len(sent[b])
        /\ \A i \in DOMAIN page[b] :
              /\ page[b][i].from = sent[b][i].from
              /\ page[b][i].nth >= sent[b][i].nth

(* Every request is served, also those that come while a console holds the  *)
(* only thread, unless that console never ends.                             *)
Staying == {b \in Browser : IsConsole(b) /\ request[b].stays}
ServedInTurn == \A b \in Browser : Asked(b) ~> Over(b) \/ busy \in Staying
=============================================================================
