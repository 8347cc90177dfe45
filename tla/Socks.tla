------------------------------- MODULE Socks -------------------------------
(***************************************************************************)
(* One session of the SOCKS server of hw4: the child process that         *)
(* init_server forks for a connection, with its class server (CONNECT)    *)
(* and class bind_session (BIND).  The process is a set of asynchronous   *)
(* operations in flight; each action is the completion of one of them     *)
(* together with its handler.  When none is left io_service.run() returns *)
(* and the process ends.  Direction "up" is client to destination, "down" *)
(* the other one; byte i of a direction is <<d, i>>.                      *)
(***************************************************************************)
EXTENDS Firewall

CONSTANTS
    Bytes,      \* bound on the bytes each side sends
    Room,       \* max_length, the size of a buffer (15000 in the code)
    ShortWrite, \* may async_write_some write less than it was given
    Rules,      \* socks.conf
    NoAddress,  \* a lookup found nothing
    Lookups     \* what the two name lookups of one session find, as a set of pairs:
                \* the address the first finds, and whether the second finds one

Dir == {"up", "down"}
Opposite(d) == CHOOSE e \in Dir : e # d

ASSUME SocksAssumption ==
    /\ Bytes \in Nat /\ Room \in Nat \ {0} /\ ShortWrite \in BOOLEAN
    /\ Rules \in File /\ NoAddress \notin Address
    /\ Lookups \subseteq (Address \cup {NoAddress}) \X BOOLEAN

VARIABLES
    up,         \* the process runs
    flight,     \* the operations in flight
    kind,       \* the object that serves: "server" or "bind_session"
    lookup,     \* what this session's name lookups will find
    buf,        \* the data arrays: buf[d] is filled by reads of direction d
    linked,     \* the socket to the destination is connected
    closed,     \* bind_session has closed its sockets
    replies,    \* the codes of the SOCKS4 replies sent
    (* the peers *)
    sent,       \* sent[d]: bytes its sender has sent
    over,       \* over[d]: its sender has shut the direction down
    taken,      \* taken[d]: bytes the session has read
    got,        \* got[d]: the bytes the receiver has got
    (* auxiliary *)
    verdict,    \* what the rules said of the destination: "none", "permit", "deny"
    endOf       \* the direction whose end the session saw first, or "none"

peers == <<sent, over, taken, got>>
vars == <<up, flight, kind, lookup, buf, linked, closed, replies, peers, verdict, endOf>>

Read(d)  == <<"read", d>>
Write(d) == <<"write", d>>
Header   == <<"header">>
Check    == <<"check">>
Resolve  == <<"resolve">>
Connect  == <<"connect">>
Reply    == <<"reply">>
Accept   == <<"accept">>
Reads == {Read(d) : d \in Dir}
Operations == Reads \cup {Write(d) : d \in Dir} \cup {Header, Check, Resolve, Connect, Reply, Accept}

Init ==
    /\ up = TRUE /\ flight = {Header} /\ kind = "server"
    /\ lookup = <<NoAddress, FALSE>>
    /\ buf = [d \in Dir |-> <<>>]
    /\ linked = FALSE /\ closed = FALSE /\ replies = <<>>
    /\ sent = [d \in Dir |-> 0] /\ over = [d \in Dir |-> FALSE]
    /\ taken = [d \in Dir |-> 0] /\ got = [d \in Dir |-> <<>>]
    /\ verdict = "none" /\ endOf = "none"
-----------------------------------------------------------------------------
(* The peers.  The client speaks once it has a reply, the destination once *)
(* it is connected; the client may leave at any time.                      *)
MaySpeak(d) == up /\ ~over[d] /\ IF d = "up" THEN replies # <<>> ELSE linked

Send(d) ==
    /\ MaySpeak(d) /\ sent[d] < Bytes
    /\ sent' = [sent EXCEPT ![d] = @ + 1]
    /\ UNCHANGED <<up, flight, kind, lookup, buf, linked, closed, replies, over, taken, got, verdict, endOf>>

ShutDown(d) ==
    /\ MaySpeak(d) \/ (up /\ ~over[d] /\ d = "up")
    /\ over' = [over EXCEPT ![d] = TRUE]
    /\ UNCHANGED <<up, flight, kind, lookup, buf, linked, closed, replies, sent, taken, got, verdict, endOf>>
-----------------------------------------------------------------------------
(* These operations are in flight now; the process ends when none is left. *)
Flying(operations) == flight' = operations /\ up' = (operations # {})

(* exit(0) *)
Quit == flight' = {} /\ up' = FALSE

Relaying == UNCHANGED <<kind, lookup, linked, replies, sent, over, verdict>>
Requesting == UNCHANGED <<buf, closed, peers, endOf>>

Verdict(command, address) == IF firewall(command, address, Rules) THEN "permit" ELSE "deny"

(* The request is read: CONNECT to an address, CONNECT to a name (the       *)
(* firewall's lookup and the one of do_connect are started together), BIND, *)
(* or something else, which no branch answers.  An address with "0.0.0." in *)
(* it, 10.0.0.1 for one, is taken for a name.                               *)
ConnectAddress(address) ==
    /\ lookup' = <<NoAddress, TRUE>> /\ verdict' = Verdict("c", address)
    /\ IF verdict' = "permit" THEN Flying({Resolve}) ELSE Quit
    /\ UNCHANGED kind

ConnectName(found) ==
    /\ lookup' = found /\ Flying({Check, Resolve})
    /\ UNCHANGED <<kind, verdict>>

Bind(address) ==
    /\ verdict' = Verdict("b", address)
    /\ IF verdict' = "permit" THEN kind' = "bind_session" /\ Flying({Reply})
                              ELSE UNCHANGED kind /\ Quit
    /\ UNCHANGED lookup

Other == Flying({}) /\ UNCHANGED <<kind, lookup, verdict>>

receive_sock_header ==
    /\ Header \in flight
    /\ \/ \E address \in Address : ConnectAddress(address) \/ Bind(address)
       \/ \E found \in Lookups : ConnectName(found)
       \/ Other
    /\ UNCHANGED <<linked, replies>> /\ Requesting

(* Mutant of Checked: a denied name does not end the session. *)
CheckedAnyway(answer) == Flying(flight \ {Check})

(* The first lookup has an answer, and the rules with it. *)
Checked(answer) == IF answer = "deny" THEN Quit ELSE Flying(flight \ {Check})

CheckDone ==
    LET answer == IF lookup[1] = NoAddress THEN "none" ELSE Verdict("c", Looked(lookup[1])) IN
    /\ Check \in flight
    /\ Checked(answer)
    /\ verdict' = answer
    /\ UNCHANGED <<kind, lookup, linked, replies>> /\ Requesting

(* do_connect.  One resolver answers its lookups in the order they were asked. *)
ResolveDone ==
    /\ Resolve \in flight /\ Check \notin flight
    /\ Flying((flight \ {Resolve}) \cup IF lookup[2] THEN {Connect} ELSE {})
    /\ UNCHANGED <<kind, lookup, linked, replies, verdict>> /\ Requesting

(* Mutant of AfterConnect: the client is told 90 in any case. *)
AfterConnectAnyway(ok) == {Reply}

(* Only a connection is reported; without one nothing is left to do. *)
AfterConnect(ok) == IF ok THEN {Reply} ELSE {}

ConnectDone(ok) ==
    /\ Connect \in flight
    /\ Flying(AfterConnect(ok))
    /\ linked' = ok
    /\ UNCHANGED <<kind, lookup, replies, verdict>> /\ Requesting

(* send_sock_header: reply 90; it fails only when the client has left. *)
ReplyDone(ok) ==
    /\ Reply \in flight /\ (ok \/ over["up"])
    /\ replies' = IF ok THEN Append(replies, 90) ELSE replies
    /\ Flying(CASE ~ok -> {}
                [] ok /\ kind = "server" -> Reads
                [] ok /\ kind = "bind_session" -> {Accept})
    /\ UNCHANGED <<kind, lookup, linked, verdict>> /\ Requesting

(* bind_session::do_accept: the destination has connected. *)
AcceptDone(ok) ==
    /\ Accept \in flight
    /\ Flying(IF ok THEN Reads ELSE {})
    /\ linked' = ok
    /\ UNCHANGED <<kind, lookup, replies, verdict>> /\ Requesting
-----------------------------------------------------------------------------
(* Mutant of BufferOf: one array for both directions. *)
BufferShared(d) == "up"

(* The array a direction uses: source_data or des_data, to_server_data or *)
(* to_client_data.                                                        *)
BufferOf(d) == d

(* Mutant of AfterRead: the next read does not wait for the write. *)
AfterReadBoth(d) == flight \cup {Write(d)}

(* The read is over, the write of what it read is started. *)
AfterRead(d) == (flight \ {Read(d)}) \cup {Write(d)}

(* do_read_from_client, do_read_from_server: some of what was sent is read *)
(* and the write of just that is started.                                  *)
ReadDone(d, n) ==
    /\ Read(d) \in flight /\ ~closed
    /\ n <= sent[d] - taken[d]
    /\ buf' = [buf EXCEPT ![BufferOf(d)] = [i \in 1..n |-> <<d, taken[d] + i>>]]
    /\ taken' = [taken EXCEPT ![d] = @ + n]
    /\ Flying(AfterRead(d))
    /\ UNCHANGED <<got, closed, endOf>> /\ Relaying

(* Mutant of ReadEnds: the read is started again. *)
ReadAgain(d) == Flying(flight) /\ UNCHANGED closed

(* A read fails: class server exits, bind_session closes both sockets. *)
ReadEnds(d) ==
    IF kind = "server" THEN Quit /\ UNCHANGED closed
    ELSE Flying(flight \ {Read(d)}) /\ closed' = TRUE

EndRead(d) ==
    /\ Read(d) \in flight /\ ~closed
    /\ over[d] /\ taken[d] = sent[d]
    /\ ReadEnds(d)
    /\ endOf' = IF endOf = "none" THEN d ELSE endOf
    /\ UNCHANGED <<buf, taken, got>> /\ Relaying

(* do_write_to_server, do_write_to_client: the first n bytes are written,  *)
(* what is left of the array is forgotten and the next read started.       *)
WriteDone(d, n) ==
    LET bytes == buf[BufferOf(d)] IN
    /\ Write(d) \in flight /\ ~closed
    /\ n <= Len(bytes) /\ (ShortWrite \/ n = Len(bytes))
    /\ got' = [got EXCEPT ![d] = @ \o SubSeq(bytes, 1, n)]
    /\ Flying((flight \ {Write(d)}) \cup {Read(d)})
    /\ UNCHANGED <<buf, taken, closed, endOf>> /\ Relaying

(* The receiver has gone: class server goes on with the other direction, *)
(* bind_session closes both sockets.                                     *)
WriteFails(d) ==
    /\ Write(d) \in flight /\ ~closed
    /\ over[Opposite(d)]
    /\ Flying(flight \ {Write(d)})
    /\ closed' = (kind = "bind_session")
    /\ UNCHANGED <<buf, taken, got, endOf>> /\ Relaying

(* What was in flight on a closed socket fails, and closes it again. *)
Aborted(op) ==
    /\ closed /\ op \in flight
    /\ Flying(flight \ {op})
    /\ UNCHANGED <<buf, taken, got, closed, endOf>> /\ Relaying

Handler ==
    \/ receive_sock_header \/ CheckDone \/ ResolveDone
    \/ \E ok \in BOOLEAN : ConnectDone(ok) \/ ReplyDone(ok) \/ AcceptDone(ok)
    \/ \E d \in Dir :
          \/ EndRead(d) \/ WriteFails(d)
          \/ \E n \in 1..Room : ReadDone(d, n) \/ WriteDone(d, n)
          \/ Aborted(Read(d)) \/ Aborted(Write(d))

Next == Handler \/ \E d \in Dir : Send(d) \/ ShutDown(d)

Spec == Init /\ [][Next]_vars /\ WF_vars(Handler)
-----------------------------------------------------------------------------
(* The values each variable can have; a direction is never read and written *)
(* at the same time, as it has one array.                                    *)
TypeOK ==
    /\ \A d \in Dir : Read(d) \notin flight \/ Write(d) \notin flight
    /\ up \in BOOLEAN /\ flight \subseteq Operations /\ kind \in {"server", "bind_session"}
    /\ lookup \in (Address \cup {NoAddress}) \X BOOLEAN
    /\ buf \in [Dir -> Seq(Dir \X (1..Bytes))]
    /\ linked \in BOOLEAN /\ closed \in BOOLEAN /\ replies \in Seq({90})
    /\ sent \in [Dir -> 0..Bytes] /\ over \in [Dir -> BOOLEAN] /\ taken \in [Dir -> 0..Bytes]
    /\ got \in [Dir -> Seq(Dir \X (1..Bytes))]
    /\ verdict \in {"none", "permit", "deny"} /\ endOf \in Dir \cup {"none"}

(* With writes that write everything: the session is two byte streams.      *)
Sources == [d \in Dir |-> [i \in 1..sent[d] |-> <<d, i>>]]
Streams == INSTANCE ByteStreams WITH source <- Sources, sink <- got
StreamsSpec == Streams!Spec

(* When the session ends because a sender has ended, everything that sender *)
(* sent has been passed on.                                                 *)
CompleteAtEnd == \A d \in Dir : endOf = d => Len(got[d]) = sent[d]

(* A destination is connected only after the rules permitted it, also when  *)
(* it was named and the lookups of the name run beside each other.          *)
PermittedOnly == linked => verdict = "permit"

(* What a client is told is true: of a CONNECT it hears 90 only when the     *)
(* destination is connected, of a refused request never; it hears it once,  *)
(* and before any byte of the destination.  A client that is refused, or    *)
(* whose destination cannot be reached, is told nothing but the end of the  *)
(* connection.                                                              *)
RepliesAreTrue ==
    /\ Len(replies) <= 1
    /\ replies # <<>> => verdict # "deny" /\ (kind = "server" => linked)
    /\ replies = <<>> => got["down"] = <<>> /\ flight \cap Reads = {}

(* The rules decide on the request that is about to be read, whatever it is *)
(* and whatever the file (Firewall says how).                               *)
RulesDecide == Header \in flight => AcceptsByRules

(* A session that relays ends once both sides have shut down. *)
EndsAfterBoth == linked /\ over["up"] /\ over["down"] ~> ~up
=============================================================================
