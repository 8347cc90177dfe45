---------------------------- MODULE SocksProofs ----------------------------
(***************************************************************************)
(* Theorems about Socks for every firewall file, every outcome of the      *)
(* lookups, every size of the buffers and any number of bytes.  They rest  *)
(* on which operations can be in flight together: one that prepares the    *)
(* session, or those of the relay, at most one for each direction; that    *)
(* the firewall decides by its rules rests on what its loop has decided    *)
(* after each line of the file.                                            *)
(***************************************************************************)
EXTENDS Socks, Induction

Writing == {Write(d) : d \in Dir}
Relays  == Reads \cup Writing

(* One operation prepares the session, or the two lookups of a name do.     *)
PhaseInv ==
    \/ flight \in {{Header}, {Check, Resolve}, {Resolve}, {Connect}, {Reply}, {Accept}}
    \/ flight \subseteq Relays

(* What has been said to the client, by the operation the session waits for. *)
ReplyInv ==
    /\ kind \in {"server", "bind_session"}
    /\ {Header, Check, Resolve, Connect} \cap flight # {} =>
          kind = "server" /\ replies = <<>> /\ got["down"] = <<>>
    /\ Reply \in flight => replies = <<>> /\ got["down"] = <<>> /\ (kind = "server" => linked)
    /\ Accept \in flight => kind = "bind_session" /\ replies = <<90>>
    /\ flight \cap Relays # {} => replies = <<90>>
    /\ verdict = "deny" => flight = {} /\ replies = <<>>
    /\ RepliesAreTrue

SessionInv == PhaseInv /\ ReplyInv
-----------------------------------------------------------------------------
LEMMA OperationsDiffer ==
    /\ Header \notin {Check, Resolve, Connect, Reply, Accept} \cup Relays
    /\ Check \notin {Resolve, Connect, Reply, Accept} \cup Relays
    /\ Resolve \notin {Connect, Reply, Accept} \cup Relays
    /\ Connect \notin {Reply, Accept} \cup Relays
    /\ Reply \notin {Accept} \cup Relays
    /\ Accept \notin Relays
  BY DEF Header, Check, Resolve, Connect, Reply, Accept, Relays, Reads, Writing, Read, Write

LEMMA RelaysDiffer ==
    ASSUME NEW d \in Dir, NEW e \in Dir
    PROVE  /\ Read(d) \in Reads /\ Write(d) \in Writing /\ Read(d) # Write(e)
           /\ d # e => Read(d) # Read(e) /\ Write(d) # Write(e)
  BY DEF Reads, Writing, Read, Write

(* The handlers of the relay start operations of the relay only.            *)
RelayHandler(d) ==
    \/ EndRead(d) \/ WriteFails(d)
    \/ \E n \in 1..Room : ReadDone(d, n) \/ WriteDone(d, n)
    \/ Aborted(Read(d)) \/ Aborted(Write(d))

LEMMA RelayStep ==
    ASSUME PhaseInv, NEW d \in Dir, RelayHandler(d)
    PROVE  /\ flight \subseteq Relays /\ flight # {} /\ flight' \subseteq Relays
           /\ UNCHANGED <<kind, lookup, linked, replies, sent, over, verdict>>
<1>1. Read(d) \in Relays /\ Write(d) \in Relays
  BY RelaysDiffer DEF Relays
<1>2. Read(d) \in flight \/ Write(d) \in flight
  BY DEF RelayHandler, EndRead, WriteFails, ReadDone, WriteDone, Aborted
<1>3. flight \subseteq Relays
  BY <1>1, <1>2, OperationsDiffer DEF PhaseInv
<1>4. flight' \subseteq Relays
  BY <1>1, <1>3 DEF RelayHandler, EndRead, ReadEnds, WriteFails, ReadDone, AfterRead, WriteDone,
                    Aborted, Flying, Quit
<1>5. UNCHANGED <<kind, lookup, linked, replies, sent, over, verdict>>
  BY DEF RelayHandler, EndRead, WriteFails, ReadDone, WriteDone, Aborted, Relaying
<1> QED
  BY <1>2, <1>3, <1>4, <1>5

(* The steps of the session, by what they read and start.                   *)
LEMMA Steps ==
    ASSUME Next
    PROVE  \/ receive_sock_header \/ CheckDone \/ ResolveDone
           \/ \E ok \in BOOLEAN : ConnectDone(ok) \/ ReplyDone(ok) \/ AcceptDone(ok)
           \/ \E d \in Dir : RelayHandler(d)
           \/ \E d \in Dir : Send(d) \/ ShutDown(d)
  BY DEF Next, Handler, RelayHandler

LEMMA ReplyStarts ==
    ASSUME ReplyInv, NEW ok \in BOOLEAN, ReplyDone(ok)
    PROVE  /\ ~ok => flight' = {} /\ replies' = replies
           /\ ok /\ kind = "server" => flight' = Reads /\ replies' = Append(replies, 90)
           /\ ok /\ kind # "server" => flight' = {Accept} /\ replies' = Append(replies, 90)
<1>1. kind \in {"server", "bind_session"}
  BY DEF ReplyInv
<1>2. CASE ~ok
  BY <1>2 DEF ReplyDone, Flying
<1>3. CASE ok /\ kind = "server"
  BY <1>3 DEF ReplyDone, Flying
<1>4. CASE ok /\ kind = "bind_session"
  BY <1>4 DEF ReplyDone, Flying
<1> QED
  BY <1>1, <1>2, <1>3, <1>4

LEMMA PhaseStep ==
    ASSUME PhaseInv, ReplyInv, Next
    PROVE  PhaseInv'
<1> USE OperationsDiffer
<1>1. CASE receive_sock_header
  BY <1>1 DEF PhaseInv, receive_sock_header, ConnectAddress, ConnectName, Bind, Other, Flying, Quit
<1>2. CASE CheckDone
  BY <1>2 DEF PhaseInv, CheckDone, Checked, Flying, Quit
<1>3. CASE ResolveDone
  BY <1>3 DEF PhaseInv, ResolveDone, Flying
<1>4. ASSUME NEW ok \in BOOLEAN, ConnectDone(ok) \/ ReplyDone(ok) \/ AcceptDone(ok)
      PROVE  PhaseInv'
  <2>1. flight' \in {{}, {Reply}, {Accept}, Reads}
    <3>1. CASE ConnectDone(ok)
      BY <3>1 DEF ConnectDone, AfterConnect, Flying
    <3>2. CASE AcceptDone(ok)
      BY <3>2 DEF AcceptDone, Flying
    <3>3. CASE ReplyDone(ok)
      BY <3>3, ReplyStarts
    <3> QED
      BY <1>4, <3>1, <3>2, <3>3
  <2> QED
    BY <2>1 DEF PhaseInv, Relays
<1>5. ASSUME NEW d \in Dir, RelayHandler(d)
      PROVE  PhaseInv'
  BY <1>5, RelayStep DEF PhaseInv
<1>6. ASSUME NEW d \in Dir, Send(d) \/ ShutDown(d)
      PROVE  PhaseInv'
  BY <1>6 DEF PhaseInv, Send, ShutDown
<1> QED
  BY <1>1, <1>2, <1>3, <1>4, <1>5, <1>6, Steps

LEMMA OneReply == Append(<<>>, 90) = <<90>> /\ <<90>> # <<>> /\ Len(<<90>>) = 1 /\ Len(<<>>) = 0
  OBVIOUS

LEMMA ReplyStep ==
    ASSUME PhaseInv, ReplyInv, Next
    PROVE  ReplyInv'
<1> USE OperationsDiffer, OneReply
<1>0. flight \subseteq Relays \/ flight \cap Relays = {}
  BY DEF PhaseInv
<1>1. CASE receive_sock_header
  <2>1. Header \in flight /\ UNCHANGED <<linked, replies, got>>
    BY <1>1 DEF receive_sock_header, Requesting, peers
  <2>2. kind = "server" /\ replies = <<>> /\ got["down"] = <<>>
    BY <2>1 DEF ReplyInv
  <2>3. \/ flight' \in {{}, {Resolve}, {Check, Resolve}} /\ kind' = kind
        \/ flight' = {Reply} /\ kind' = "bind_session"
    BY <1>1 DEF receive_sock_header, ConnectAddress, ConnectName, Bind, Other, Flying, Quit
  <2>4. verdict' = "deny" => flight' = {} \/ verdict = "deny"
    BY <1>1 DEF receive_sock_header, ConnectAddress, ConnectName, Bind, Other, Flying, Quit
  <2> QED
    BY <2>1, <2>2, <2>3, <2>4 DEF ReplyInv, RepliesAreTrue, Relays
<1>2. CASE CheckDone \/ ResolveDone
  <2>1. /\ Check \in flight \/ Resolve \in flight
        /\ UNCHANGED <<kind, linked, replies, got>>
    BY <1>2 DEF CheckDone, ResolveDone, Requesting, peers
  <2>2. kind = "server" /\ replies = <<>> /\ got["down"] = <<>>
    BY <2>1 DEF ReplyInv
  <2>3. flight' \subseteq {Resolve, Connect}
    BY <1>2 DEF CheckDone, Checked, ResolveDone, Flying, Quit, PhaseInv
  <2>4. verdict' = "deny" => flight' = {}
    BY <1>2 DEF CheckDone, Checked, ResolveDone, Flying, Quit, ReplyInv
  <2> QED
    BY <2>1, <2>2, <2>3, <2>4 DEF ReplyInv, RepliesAreTrue, Relays
<1>3. ASSUME NEW ok \in BOOLEAN, ConnectDone(ok)
      PROVE  ReplyInv'
  <2>1. /\ Connect \in flight /\ flight' = AfterConnect(ok) /\ linked' = ok
        /\ UNCHANGED <<kind, replies, got, verdict>>
    BY <1>3 DEF ConnectDone, Flying, Requesting, peers
  <2>2. kind = "server" /\ replies = <<>> /\ got["down"] = <<>> /\ verdict # "deny"
    BY <2>1 DEF ReplyInv
  <2> QED
    BY <2>1, <2>2 DEF ReplyInv, RepliesAreTrue, AfterConnect, Relays
<1>4. ASSUME NEW ok \in BOOLEAN, ReplyDone(ok)
      PROVE  ReplyInv'
  <2>1. /\ Reply \in flight /\ UNCHANGED <<kind, linked, got, verdict>>
    BY <1>4 DEF ReplyDone, Requesting, peers
  <2>2. /\ replies = <<>> /\ got["down"] = <<>> /\ (kind = "server" => linked) /\ verdict # "deny"
        /\ kind \in {"server", "bind_session"}
    BY <2>1 DEF ReplyInv
  <2>3. CASE ~ok
    BY <1>4, <2>1, <2>2, <2>3, ReplyStarts DEF ReplyInv, RepliesAreTrue
  <2>4. CASE ok /\ kind = "server"
    <3>1. replies' = <<90>> /\ flight' = Reads
      BY <1>4, <2>2, <2>4, ReplyStarts
    <3>2. flight' \subseteq Relays
      BY <3>1 DEF Relays
    <3> QED
      BY <2>1, <2>2, <2>4, <3>1, <3>2 DEF ReplyInv, RepliesAreTrue
  <2>5. CASE ok /\ kind = "bind_session"
    <3>1. replies' = <<90>> /\ flight' = {Accept}
      BY <1>4, <2>2, <2>5, ReplyStarts
    <3> QED
      BY <2>1, <2>2, <2>5, <3>1 DEF ReplyInv, RepliesAreTrue
  <2> QED
    BY <2>2, <2>3, <2>4, <2>5
<1>5. ASSUME NEW ok \in BOOLEAN, AcceptDone(ok)
      PROVE  ReplyInv'
  <2>1. /\ Accept \in flight /\ flight' = (IF ok THEN Reads ELSE {})
        /\ UNCHANGED <<kind, replies, got, verdict>>
    BY <1>5 DEF AcceptDone, Flying, Requesting, peers
  <2>2. replies = <<90>> /\ verdict # "deny" /\ kind = "bind_session"
    BY <2>1 DEF ReplyInv
  <2>3. flight' \subseteq Relays
    BY <2>1 DEF Relays
  <2> QED
    BY <2>1, <2>2, <2>3 DEF ReplyInv, RepliesAreTrue
<1>6. ASSUME NEW d \in Dir, RelayHandler(d)
      PROVE  ReplyInv'
  <2>1. /\ flight \subseteq Relays /\ flight # {} /\ flight' \subseteq Relays
        /\ UNCHANGED <<kind, linked, replies, verdict>>
    BY <1>6, RelayStep
  <2>2. replies = <<90>> /\ verdict # "deny"
    BY <2>1 DEF ReplyInv
  <2> QED
    BY <2>1, <2>2 DEF ReplyInv, RepliesAreTrue
<1>7. ASSUME NEW d \in Dir, Send(d) \/ ShutDown(d)
      PROVE  ReplyInv'
  BY <1>7 DEF ReplyInv, RepliesAreTrue, Send, ShutDown
<1> QED
  BY <1>1, <1>2, <1>3, <1>4, <1>5, <1>6, <1>7, Steps

LEMMA SessionAlways == Spec => []SessionInv
<1>1. Init => SessionInv
  BY OperationsDiffer, OneReply
  DEF Init, SessionInv, PhaseInv, ReplyInv, RepliesAreTrue, Relays, Dir
<1>2. SessionInv /\ [Next]_vars => SessionInv'
  <2>1. SessionInv /\ UNCHANGED vars => SessionInv'
    BY DEF vars, peers, SessionInv, PhaseInv, ReplyInv, RepliesAreTrue
  <2> QED
    BY <2>1, PhaseStep, ReplyStep DEF SessionInv
<1> QED
  BY <1>1, <1>2, PTL DEF Spec

(* Whatever the file, the lookups and the buffers: a client hears 90 once,  *)
(* only when what it asked for was not denied and, of a CONNECT, connected, *)
(* and before any byte (send_sock_header after do_connect).                 *)
THEOREM RepliesAlwaysTrue == Spec => []RepliesAreTrue
<1>1. SessionInv => RepliesAreTrue
  BY DEF SessionInv, ReplyInv
<1> QED
  BY <1>1, SessionAlways, PTL
-----------------------------------------------------------------------------
(* A destination whose name is found is also found for the rules.           *)
LookupsAgree == \A found \in Lookups : found[2] => found[1] # NoAddress

PermitInv ==
    /\ Check \in flight => (lookup[2] => lookup[1] # NoAddress)
    /\ Resolve \in flight /\ Check \notin flight => (lookup[2] => verdict = "permit")
    /\ {Connect, Reply, Accept} \cap flight # {} => verdict = "permit"
    /\ {Header, Check, Resolve, Connect} \cap flight # {} => ~linked
    /\ PermittedOnly

LEMMA PermitStep ==
    ASSUME LookupsAgree, SessionInv, PermitInv, Next
    PROVE  PermitInv'
<1> USE OperationsDiffer DEF SessionInv, PermitInv, PermittedOnly
<1>1. CASE receive_sock_header
  <2>1. Header \in flight /\ ~linked /\ linked' = linked
    BY <1>1 DEF receive_sock_header
  <2>2. ASSUME NEW address \in Address, ConnectAddress(address)
        PROVE  PermitInv'
    BY <2>1, <2>2 DEF ConnectAddress, Flying, Quit
  <2>3. ASSUME NEW address \in Address, Bind(address)
        PROVE  PermitInv'
    BY <2>1, <2>3 DEF Bind, Flying, Quit
  <2>4. ASSUME NEW found \in Lookups, ConnectName(found)
        PROVE  PermitInv'
    BY <2>1, <2>4 DEF ConnectName, Flying, LookupsAgree
  <2>5. ASSUME Other PROVE PermitInv'
    BY <2>1, <2>5 DEF Other, Flying
  <2> QED
    BY <1>1, <2>2, <2>3, <2>4, <2>5 DEF receive_sock_header
<1>2. CASE CheckDone
  <2>1. Check \in flight /\ ~linked /\ linked' = linked /\ lookup' = lookup
    BY <1>2 DEF CheckDone
  <2>2. flight' \subseteq {Resolve}
    BY <1>2 DEF CheckDone, Checked, Flying, Quit, PhaseInv
  <2>3. flight' = {} \/ (lookup[1] # NoAddress => verdict' = "permit")
    BY <1>2 DEF CheckDone, Checked, Quit, Flying, Verdict
  <2> QED
    BY <2>1, <2>2, <2>3
<1>3. CASE ResolveDone
  <2>1. /\ Resolve \in flight /\ Check \notin flight /\ ~linked
        /\ UNCHANGED <<lookup, linked, verdict>>
    BY <1>3 DEF ResolveDone
  <2>2. flight = {Resolve}
    BY <2>1 DEF PhaseInv
  <2>3. flight' = {} \/ (lookup[2] /\ flight' = {Connect})
    BY <1>3, <2>2 DEF ResolveDone, Flying
  <2> QED
    BY <2>1, <2>3
<1>4. ASSUME NEW ok \in BOOLEAN, ConnectDone(ok)
      PROVE  PermitInv'
  <2>1. /\ verdict = "permit" /\ verdict' = "permit" /\ flight' \subseteq {Reply}
    BY <1>4 DEF ConnectDone, AfterConnect, Flying
  <2> QED
    BY <2>1
<1>5. ASSUME NEW ok \in BOOLEAN, ReplyDone(ok)
      PROVE  PermitInv'
  <2>1. verdict = "permit" /\ UNCHANGED <<verdict, linked>>
    BY <1>5 DEF ReplyDone
  <2>2. flight' \in {{}, {Accept}, Reads}
    BY <1>5, ReplyStarts
  <2> QED
    BY <2>1, <2>2 DEF Relays
<1>6. ASSUME NEW ok \in BOOLEAN, AcceptDone(ok)
      PROVE  PermitInv'
  <2>1. verdict = "permit" /\ UNCHANGED verdict /\ flight' \subseteq Relays
    BY <1>6 DEF AcceptDone, Flying, Relays
  <2> QED
    BY <2>1
<1>7. ASSUME NEW d \in Dir, RelayHandler(d)
      PROVE  PermitInv'
  BY <1>7, RelayStep
<1>8. ASSUME NEW d \in Dir, Send(d) \/ ShutDown(d)
      PROVE  PermitInv'
  BY <1>8 DEF Send, ShutDown
<1> QED
  BY <1>1, <1>2, <1>3, <1>4, <1>5, <1>6, <1>7, <1>8, Steps

(* No destination is connected that the rules did not permit, whatever the  *)
(* file and however the lookups of a name run beside each other - provided  *)
(* that both find the name or neither does: do_connect does not know what   *)
(* the firewall's lookup found.                                             *)
THEOREM OnlyPermittedConnected ==
    ASSUME LookupsAgree
    PROVE  Spec => []PermittedOnly
<1>1. Init => PermitInv
  BY OperationsDiffer DEF Init, PermitInv, PermittedOnly
<1>2. SessionInv /\ PermitInv /\ [Next]_vars => PermitInv'
  <2>1. PermitInv /\ UNCHANGED vars => PermitInv'
    BY DEF vars, PermitInv, PermittedOnly
  <2> QED
    BY <2>1, PermitStep
<1>3. PermitInv => PermittedOnly
  BY DEF PermitInv
<1> QED
  BY <1>1, <1>2, <1>3, SessionAlways, PTL DEF Spec
-----------------------------------------------------------------------------
(* The data: what is read was sent, and each direction is read or written. *)
Data == Seq(Dir \X (1..Bytes))

DataInv ==
    /\ \A d \in Dir : Read(d) \notin flight \/ Write(d) \notin flight
    /\ \A d \in Dir : taken[d] <= sent[d]
    /\ buf \in [Dir -> Data] /\ got \in [Dir -> Data]
    /\ sent \in [Dir -> 0..Bytes] /\ taken \in [Dir -> 0..Bytes] /\ over \in [Dir -> BOOLEAN]
    /\ up \in BOOLEAN /\ linked \in BOOLEAN /\ closed \in BOOLEAN
    /\ lookup \in (Address \cup {NoAddress}) \X BOOLEAN
    /\ verdict \in {"none", "permit", "deny"}
    /\ replies \in Seq({90})
    /\ endOf \in Dir \cup {"none"}

LEMMA DataAtStart == ASSUME Init PROVE DataInv
<1>1. <<>> \in Data /\ <<>> \in Seq({90})
  BY DEF Data
<1>2. \A d \in Dir : Read(d) \notin flight
  BY OperationsDiffer, RelaysDiffer DEF Init, Relays
<1>3. lookup \in (Address \cup {NoAddress}) \X BOOLEAN
  BY DEF Init
<1>4. \A d \in Dir : taken[d] = 0 /\ sent[d] = 0 /\ buf[d] = <<>> /\ got[d] = <<>>
  BY DEF Init
<1>5. /\ buf \in [Dir -> Data] /\ got \in [Dir -> Data] /\ over \in [Dir -> BOOLEAN]
  BY <1>1 DEF Init
<1>6. /\ sent \in [Dir -> 0..Bytes] /\ taken \in [Dir -> 0..Bytes]
  BY SocksAssumption DEF Init
<1>7. /\ up \in BOOLEAN /\ linked \in BOOLEAN /\ closed \in BOOLEAN
      /\ verdict \in {"none", "permit", "deny"} /\ replies \in Seq({90})
      /\ endOf \in Dir \cup {"none"}
  BY <1>1 DEF Init
<1>8. \A d \in Dir : taken[d] <= sent[d]
  BY <1>4
<1> QED
  BY <1>2, <1>3, <1>5, <1>6, <1>7, <1>8 DEF DataInv

(* What the next n bytes of direction d are when k have been taken.         *)
Chunk(d, k, n) == [i \in 1..n |-> <<d, k + i>>]

LEMMA ChunkIsData ==
    ASSUME NEW d \in Dir, NEW k \in Nat, NEW n \in Nat, k + n <= Bytes
    PROVE  Chunk(d, k, n) \in Data /\ Len(Chunk(d, k, n)) = n
<1>1. \A i \in 1..n : k + i \in 1..Bytes
  BY SocksAssumption
<1>2. Chunk(d, k, n) \in [1..n -> Dir \X (1..Bytes)]
  BY <1>1 DEF Chunk
<1> QED
  BY <1>2 DEF Data

LEMMA DataStep ==
    ASSUME SessionInv, DataInv, Next
    PROVE  DataInv'
<1> USE OperationsDiffer, SocksAssumption DEF SessionInv
<1>1. \A d, e \in Dir : /\ Read(d) \in Relays /\ Write(d) \in Relays /\ Read(d) \in Reads
                        /\ Read(d) # Write(e) /\ Write(d) \notin Reads
                        /\ d # e => Read(d) # Read(e) /\ Write(d) # Write(e)
  BY RelaysDiffer DEF Relays, Reads
<1>2. ASSUME \/ receive_sock_header \/ CheckDone \/ ResolveDone
             \/ \E ok \in BOOLEAN : ConnectDone(ok) \/ ReplyDone(ok) \/ AcceptDone(ok)
      PROVE  DataInv'
  <2>1. UNCHANGED <<buf, closed, sent, over, taken, got, endOf>>
    BY <1>2 DEF receive_sock_header, CheckDone, ResolveDone, ConnectDone, ReplyDone, AcceptDone,
                Requesting, peers
  <2>2. up' \in BOOLEAN /\ linked' \in BOOLEAN
    BY <1>2 DEF receive_sock_header, ConnectAddress, ConnectName, Bind, Other, CheckDone, Checked,
                ResolveDone, ConnectDone, ReplyDone, AcceptDone, Flying, Quit, DataInv
  <2>3. lookup' \in (Address \cup {NoAddress}) \X BOOLEAN
    <3>1. \A found \in Lookups : found \in (Address \cup {NoAddress}) \X BOOLEAN
      OBVIOUS
    <3>2. lookup' = lookup \/ lookup' \in Lookups \/ lookup' = <<NoAddress, TRUE>>
      BY <1>2 DEF receive_sock_header, ConnectAddress, ConnectName, Bind, Other, CheckDone,
                  ResolveDone, ConnectDone, ReplyDone, AcceptDone
    <3>3. <<NoAddress, TRUE>> \in (Address \cup {NoAddress}) \X BOOLEAN
      OBVIOUS
    <3>4. lookup \in (Address \cup {NoAddress}) \X BOOLEAN
      BY DEF DataInv
    <3> QED
      BY <3>1, <3>2, <3>3, <3>4
  <2>4. verdict' \in {"none", "permit", "deny"}
    BY <1>2 DEF receive_sock_header, ConnectAddress, ConnectName, Bind, Other, CheckDone, Verdict,
                ResolveDone, ConnectDone, ReplyDone, AcceptDone, DataInv
  <2>5. replies' \in Seq({90})
    <3>1. replies' = replies \/ replies' = Append(replies, 90)
      BY <1>2 DEF receive_sock_header, CheckDone, ResolveDone, ConnectDone, ReplyDone, AcceptDone
    <3>2. replies \in Seq({90}) /\ 90 \in {90}
      BY DEF DataInv
    <3>3. Append(replies, 90) \in Seq({90})
      BY <3>2
    <3> QED
      BY <3>1, <3>2, <3>3
  <2>6. \A d \in Dir : Write(d) \notin flight'
    <3>1. CASE \E ok \in BOOLEAN : ReplyDone(ok)
      <4>1. flight' \in {{}, Reads, {Accept}}
        BY <3>1, ReplyStarts
      <4> QED
        BY <1>1, <4>1
    <3>2. CASE \E ok \in BOOLEAN : ConnectDone(ok) \/ AcceptDone(ok)
      BY <1>1, <3>2 DEF ConnectDone, AfterConnect, AcceptDone, Flying
    <3>3. CASE receive_sock_header \/ CheckDone \/ ResolveDone
      <4>1. flight' \cap Relays = {}
        BY <3>3 DEF receive_sock_header, ConnectAddress, ConnectName, Bind, Other, CheckDone,
                    Checked, ResolveDone, Flying, Quit, PhaseInv
      <4> QED
        BY <1>1, <4>1
    <3> QED
      BY <1>2, <3>1, <3>2, <3>3
  <2> QED
    BY <2>1, <2>2, <2>3, <2>4, <2>5, <2>6 DEF DataInv
<1>3. ASSUME NEW d \in Dir, RelayHandler(d)
      PROVE  DataInv'
  <2>1. UNCHANGED <<kind, lookup, linked, replies, sent, over, verdict>>
    BY <1>3, RelayStep
  <2>2. up' \in BOOLEAN /\ closed' \in BOOLEAN /\ endOf' \in Dir \cup {"none"}
    BY <1>3 DEF RelayHandler, EndRead, ReadEnds, WriteFails, ReadDone, WriteDone, Aborted, Flying,
                Quit, DataInv
  <2>3. \A e \in Dir : Read(e) \notin flight' \/ Write(e) \notin flight'
    BY <1>1, <1>3 DEF RelayHandler, EndRead, ReadEnds, WriteFails, ReadDone, AfterRead, WriteDone,
                      Aborted, Flying, Quit, DataInv
  <2>4. ASSUME NEW n \in 1..Room, ReadDone(d, n)
        PROVE  DataInv'
    <3>1. /\ buf' = [buf EXCEPT ![d] = Chunk(d, taken[d], n)]
          /\ taken' = [taken EXCEPT ![d] = @ + n] /\ got' = got
          /\ n <= sent[d] - taken[d]
      BY <2>4 DEF ReadDone, BufferOf, Chunk
    <3>2. taken[d] \in Nat /\ n \in Nat /\ taken[d] + n <= sent[d] /\ sent[d] <= Bytes
      BY <3>1 DEF DataInv
    <3>3. Chunk(d, taken[d], n) \in Data
      <4>1. taken[d] + n <= Bytes
        BY <3>2 DEF DataInv
      <4> QED
        BY <3>2, <4>1, ChunkIsData
    <3> QED
      BY <2>1, <2>2, <2>3, <3>1, <3>2, <3>3 DEF DataInv
  <2>5. ASSUME NEW n \in 1..Room, WriteDone(d, n)
        PROVE  DataInv'
    <3>1. /\ got' = [got EXCEPT ![d] = @ \o SubSeq(buf[d], 1, n)]
          /\ n <= Len(buf[d]) /\ UNCHANGED <<buf, taken>>
      BY <2>5 DEF WriteDone, BufferOf
    <3>2. got[d] \o SubSeq(buf[d], 1, n) \in Data
      <4>1. got[d] \in Data /\ buf[d] \in Data
        BY DEF DataInv
      <4>2. SubSeq(buf[d], 1, n) \in Data
        BY <3>1, <4>1 DEF Data
      <4> QED
        BY <4>1, <4>2 DEF Data
    <3> QED
      BY <2>1, <2>2, <2>3, <3>1, <3>2 DEF DataInv
  <2>6. CASE EndRead(d) \/ WriteFails(d) \/ Aborted(Read(d)) \/ Aborted(Write(d))
    <3>1. UNCHANGED <<buf, taken, got>>
      BY <2>6 DEF EndRead, WriteFails, Aborted
    <3> QED
      BY <2>1, <2>2, <2>3, <3>1 DEF DataInv
  <2> QED
    BY <1>3, <2>4, <2>5, <2>6 DEF RelayHandler
<1>4. ASSUME NEW d \in Dir, Send(d) \/ ShutDown(d)
      PROVE  DataInv'
  <2>1. CASE Send(d)
    <3>1. /\ sent[d] < Bytes /\ sent' = [sent EXCEPT ![d] = @ + 1]
          /\ UNCHANGED <<up, flight, lookup, buf, linked, closed, replies, over, taken, got, verdict, endOf>>
      BY <2>1 DEF Send
    <3> QED
      BY <3>1 DEF DataInv
  <2>2. CASE ShutDown(d)
    <3>1. /\ over' = [over EXCEPT ![d] = TRUE]
          /\ UNCHANGED <<up, flight, lookup, buf, linked, closed, replies, sent, taken, got, verdict, endOf>>
      BY <2>2 DEF ShutDown
    <3> QED
      BY <3>1 DEF DataInv
  <2> QED
    BY <1>4, <2>1, <2>2
<1> QED
  BY <1>2, <1>3, <1>4, Steps

LEMMA DataAlways == Spec => [](SessionInv /\ DataInv)
<1>1. SessionInv /\ DataInv /\ [Next]_vars => DataInv'
  <2>1. DataInv /\ UNCHANGED vars => DataInv'
    BY DEF vars, peers, DataInv
  <2> QED
    BY <2>1, DataStep
<1> QED
  BY <1>1, DataAtStart, SessionAlways, PTL DEF Spec

(* Every variable keeps its type, and a direction's one array is never read *)
(* into and written from at the same time.                                  *)
THEOREM AlwaysTyped == Spec => []TypeOK
<1>1. SessionInv /\ DataInv => TypeOK
  BY DEF SessionInv, PhaseInv, ReplyInv, DataInv, Data, TypeOK, Operations, Relays, Writing
<1> QED
  BY <1>1, DataAlways, PTL
-----------------------------------------------------------------------------
(* The streams, when writes write everything.  While a direction is read,   *)
(* all that was taken has been got; while it is written, the array holds    *)
(* just what has been taken and not been got.                               *)
StreamInv(d) ==
    /\ \A i \in 1..Len(got[d]) : got[d][i] = <<d, i>>
    /\ Len(got[d]) <= taken[d]
    /\ Read(d) \in flight => Len(got[d]) = taken[d]
    /\ Write(d) \in flight =>
          /\ Len(got[d]) + Len(buf[d]) = taken[d]
          /\ \A i \in 1..Len(buf[d]) : buf[d][i] = <<d, Len(got[d]) + i>>
    /\ flight \cap Relays = {} /\ flight # {} => taken[d] = 0
    /\ endOf = d =>
          /\ over[d] /\ taken[d] = sent[d] /\ Len(got[d]) = sent[d]
          /\ flight \subseteq Relays \ {Read(d), Write(d)}

StreamsInv == \A d \in Dir : StreamInv(d)

LEMMA StreamsAtStart == ASSUME Init PROVE StreamsInv
<1>1. ASSUME NEW d \in Dir PROVE StreamInv(d)
  <2>1. got[d] = <<>> /\ taken[d] = 0 /\ flight = {Header} /\ endOf = "none" /\ Len(<<>>) = 0
    BY DEF Init
  <2>2. Read(d) # Header /\ Write(d) # Header /\ endOf # d
    BY <2>1, OperationsDiffer, RelaysDiffer DEF Relays, Dir
  <2> QED
    BY <2>1, <2>2 DEF StreamInv
<1> QED
  BY <1>1 DEF StreamsInv

(* A direction whose data and operations a step leaves alone.               *)
LEMMA SameStream ==
    ASSUME NEW d \in Dir, StreamInv(d), flight \subseteq Relays, flight' \subseteq Relays,
           buf'[d] = buf[d], got'[d] = got[d], taken'[d] = taken[d],
           endOf' = d => endOf = d, UNCHANGED <<sent, over>>,
           Read(d) \in flight' => Read(d) \in flight,
           Write(d) \in flight' => Write(d) \in flight
    PROVE  StreamInv(d)'
  BY DEF StreamInv

(* What a whole write appends.                                              *)
LEMMA Glued ==
    ASSUME NEW d \in Dir, NEW s \in Data, NEW t \in Data,
           \A i \in 1..Len(s) : s[i] = <<d, i>>,
           \A i \in 1..Len(t) : t[i] = <<d, Len(s) + i>>
    PROVE  LET whole == s \o SubSeq(t, 1, Len(t)) IN
           /\ Len(whole) = Len(s) + Len(t)
           /\ \A i \in 1..Len(whole) : whole[i] = <<d, i>>
<1> DEFINE whole == s \o t
<1>1. SubSeq(t, 1, Len(t)) = t
  BY DEF Data
<1>2. Len(whole) = Len(s) + Len(t)
  BY DEF Data
<1>3. ASSUME NEW i \in 1..Len(whole) PROVE whole[i] = <<d, i>>
  <2>1. CASE i \in 1..Len(s)
    <3>1. whole[i] = s[i]
      BY <2>1 DEF Data
    <3> QED
      BY <2>1, <3>1
  <2>2. CASE i > Len(s)
    <3>1. i - Len(s) \in 1..Len(t) /\ whole[i] = t[i - Len(s)] /\ Len(s) + (i - Len(s)) = i
      BY <1>2, <2>2 DEF Data
    <3> HIDE DEF whole
    <3> QED
      BY <3>1
  <2> QED
    BY <2>1, <2>2 DEF Data
<1> QED
  BY <1>1, <1>2, <1>3

LEMMA RelayStreams ==
    ASSUME ~ShortWrite, SessionInv, DataInv, StreamsInv, NEW d \in Dir, RelayHandler(d)
    PROVE  StreamsInv'
<1> USE SocksAssumption DEF SessionInv
<1>1. /\ flight \subseteq Relays /\ flight # {} /\ flight' \subseteq Relays
      /\ UNCHANGED <<kind, sent, over>> /\ ~(flight' \cap Relays = {} /\ flight' # {})
  BY RelayStep
<1>2. /\ Read(d) \in Relays /\ Write(d) \in Relays
      /\ \A e \in Dir : Read(d) # Write(e) /\ Read(e) # Write(d)
      /\ \A e \in Dir \ {d} : Read(d) # Read(e) /\ Write(d) # Write(e)
  BY RelaysDiffer DEF Relays
<1>3. StreamInv(d) /\ (Read(d) \notin flight \/ Write(d) \notin flight)
  BY DEF StreamsInv, DataInv
<1>4. /\ got \in [Dir -> Data] /\ buf \in [Dir -> Data]
      /\ taken \in [Dir -> 0..Bytes] /\ sent \in [Dir -> 0..Bytes]
  BY DEF DataInv
<1>5. ASSUME NEW e \in Dir \ {d} PROVE StreamInv(e)'
  <2>1. buf'[e] = buf[e] /\ got'[e] = got[e] /\ taken'[e] = taken[e]
    BY <1>4 DEF RelayHandler, EndRead, WriteFails, ReadDone, WriteDone, Aborted, BufferOf
  <2>2. endOf' = e => endOf = e
    BY DEF RelayHandler, EndRead, WriteFails, ReadDone, WriteDone, Aborted
  <2>3. /\ Read(e) \in flight' => Read(e) \in flight
        /\ Write(e) \in flight' => Write(e) \in flight
    BY <1>2 DEF RelayHandler, EndRead, ReadEnds, WriteFails, ReadDone, AfterRead, WriteDone,
                Aborted, Flying, Quit
  <2> QED
    BY <1>1, <2>1, <2>2, <2>3, SameStream DEF StreamsInv
<1>6. ASSUME NEW n \in 1..Room, ReadDone(d, n)
      PROVE  StreamInv(d)'
  <2>1. /\ Read(d) \in flight /\ flight' = (flight \ {Read(d)}) \cup {Write(d)}
        /\ buf'[d] = Chunk(d, taken[d], n) /\ taken'[d] = taken[d] + n
        /\ got' = got /\ endOf' = endOf
    BY <1>4, <1>6 DEF ReadDone, AfterRead, BufferOf, Flying, Chunk
  <2>2. Len(got[d]) = taken[d] /\ endOf # d /\ taken[d] \in Nat /\ n \in Nat
    BY <1>3, <1>4, <2>1 DEF StreamInv
  <2>3. Len(buf'[d]) = n /\ \A i \in 1..n : buf'[d][i] = <<d, taken[d] + i>>
    BY <2>1, <2>2 DEF Chunk
  <2>4. Read(d) \notin flight'
    BY <1>2, <2>1
  <2> QED
    BY <1>1, <1>3, <2>1, <2>2, <2>3, <2>4 DEF StreamInv
<1>7. ASSUME NEW n \in 1..Room, WriteDone(d, n)
      PROVE  StreamInv(d)'
  <2>1. /\ Write(d) \in flight /\ flight' = (flight \ {Write(d)}) \cup {Read(d)}
        /\ n = Len(buf[d]) /\ got'[d] = got[d] \o SubSeq(buf[d], 1, Len(buf[d]))
        /\ UNCHANGED <<buf, taken, endOf>>
    BY <1>4, <1>7 DEF WriteDone, BufferOf, Flying
  <2>2. /\ Len(got[d]) + Len(buf[d]) = taken[d] /\ endOf # d
        /\ \A i \in 1..Len(got[d]) : got[d][i] = <<d, i>>
        /\ \A i \in 1..Len(buf[d]) : buf[d][i] = <<d, Len(got[d]) + i>>
    BY <1>3, <2>1 DEF StreamInv
  <2>3. /\ Len(got'[d]) = taken[d]
        /\ \A i \in 1..Len(got'[d]) : got'[d][i] = <<d, i>>
    BY <1>4, <2>1, <2>2, Glued
  <2>4. Write(d) \notin flight' /\ taken[d] \in Nat
    BY <1>2, <1>4, <2>1
  <2> QED
    <3>1. buf'[d] = buf[d] /\ taken'[d] = taken[d] /\ endOf' = endOf
      BY <2>1
    <3>2. Len(got'[d]) <= taken'[d]
      BY <2>3, <2>4, <3>1
    <3> QED
      BY <1>1, <2>2, <2>3, <2>4, <3>1, <3>2 DEF StreamInv
<1>8. ASSUME EndRead(d)
      PROVE  StreamInv(d)'
  <2>1. /\ Read(d) \in flight /\ over[d] /\ taken[d] = sent[d]
        /\ UNCHANGED <<buf, taken, got>> /\ Read(d) \notin flight' /\ flight' \subseteq flight
    BY <1>8 DEF EndRead, ReadEnds, Flying, Quit
  <2>2. Write(d) \notin flight' /\ Len(got[d]) = taken[d]
    BY <1>3, <2>1 DEF StreamInv
  <2>3. /\ over'[d] /\ taken'[d] = sent'[d] /\ Len(got'[d]) = sent'[d]
        /\ flight' \subseteq Relays \ {Read(d), Write(d)}
    BY <1>1, <2>1, <2>2
  <2>4. /\ \A i \in 1..Len(got'[d]) : got'[d][i] = <<d, i>>
        /\ Len(got'[d]) <= taken'[d]
    BY <1>3, <2>1 DEF StreamInv
  <2> QED
    BY <1>1, <2>1, <2>2, <2>3, <2>4 DEF StreamInv
<1>9. ASSUME WriteFails(d) \/ Aborted(Read(d)) \/ Aborted(Write(d))
      PROVE  StreamInv(d)'
  <2>1. UNCHANGED <<buf, taken, got, endOf>> /\ flight' \subseteq flight
    BY <1>9 DEF WriteFails, Aborted, Flying
  <2>2. /\ buf'[d] = buf[d] /\ got'[d] = got[d] /\ taken'[d] = taken[d]
        /\ endOf' = d => endOf = d
        /\ Read(d) \in flight' => Read(d) \in flight
        /\ Write(d) \in flight' => Write(d) \in flight
    BY <2>1
  <2> QED
    BY <1>1, <1>3, <2>2, SameStream
<1> QED
  BY <1>5, <1>6, <1>7, <1>8, <1>9 DEF StreamsInv, RelayHandler

LEMMA StreamsStep ==
    ASSUME ~ShortWrite, SessionInv, DataInv, StreamsInv, Next
    PROVE  StreamsInv'
<1> USE SocksAssumption DEF SessionInv
<1>1. ASSUME \/ receive_sock_header \/ CheckDone \/ ResolveDone
             \/ \E ok \in BOOLEAN : ConnectDone(ok) \/ ReplyDone(ok) \/ AcceptDone(ok)
      PROVE  StreamsInv'
  <2>1. UNCHANGED <<buf, sent, over, taken, got, endOf>>
    BY <1>1 DEF receive_sock_header, CheckDone, ResolveDone, ConnectDone, ReplyDone, AcceptDone,
                Requesting, peers
  <2>2. flight # {} /\ ~(flight \subseteq Relays) /\ flight \cap Relays = {}
    BY <1>1, OperationsDiffer DEF receive_sock_header, CheckDone, ResolveDone, ConnectDone,
                                  ReplyDone, AcceptDone, PhaseInv
  <2>3. flight' \cap Writing = {}
    <3>1. CASE \E ok \in BOOLEAN : ReplyDone(ok)
      <4>1. flight' \in {{}, Reads, {Accept}}
        BY <3>1, ReplyStarts
      <4> QED
        BY <4>1, OperationsDiffer, RelaysDiffer DEF Relays, Reads, Writing
    <3>2. CASE \E ok \in BOOLEAN : ConnectDone(ok) \/ AcceptDone(ok)
      <4>1. flight' \in {{}, Reads, {Reply}}
        BY <3>2 DEF ConnectDone, AfterConnect, AcceptDone, Flying
      <4> QED
        BY <4>1, OperationsDiffer, RelaysDiffer DEF Relays, Reads, Writing
    <3>3. CASE receive_sock_header \/ CheckDone \/ ResolveDone
      BY <3>3, OperationsDiffer
      DEF receive_sock_header, ConnectAddress, ConnectName, Bind, Other, CheckDone,
          Checked, ResolveDone, Flying, Quit, PhaseInv, Relays
    <3> QED
      BY <1>1, <3>1, <3>2, <3>3
  <2>4. ASSUME NEW d \in Dir PROVE StreamInv(d)'
    <3>1. StreamInv(d) /\ got[d] \in Data
      BY DEF StreamsInv, DataInv
    <3>2. taken[d] = 0 /\ Len(got[d]) = 0 /\ endOf # d
      BY <2>2, <3>1 DEF StreamInv, Data
    <3>3. Write(d) \notin flight'
      BY <2>3, RelaysDiffer
    <3> QED
      BY <2>1, <3>1, <3>2, <3>3 DEF StreamInv
  <2> QED
    BY <2>4 DEF StreamsInv
<1>2. ASSUME NEW d \in Dir, Send(d) \/ ShutDown(d)
      PROVE  StreamsInv'
  <2>1. UNCHANGED <<flight, buf, taken, got, endOf>>
    BY <1>2 DEF Send, ShutDown
  <2>2. /\ over \in [Dir -> BOOLEAN] /\ sent \in [Dir -> 0..Bytes]
    BY DEF DataInv
  <2>3. ASSUME NEW e \in Dir, over[e] PROVE over'[e] /\ sent'[e] = sent[e]
    BY <1>2, <2>2, <2>3 DEF Send, ShutDown, MaySpeak
  <2>4. ASSUME NEW e \in Dir PROVE StreamInv(e)'
    <3>1. StreamInv(e)
      BY DEF StreamsInv
    <3>2. /\ flight' = flight /\ buf'[e] = buf[e] /\ taken'[e] = taken[e] /\ got'[e] = got[e]
          /\ endOf' = endOf
      BY <2>1
    <3> QED
      BY <2>3, <3>1, <3>2 DEF StreamInv
  <2> QED
    BY <2>4 DEF StreamsInv
<1> QED
  BY <1>1, <1>2, RelayStreams, Steps

LEMMA StreamsAlways ==
    ASSUME ~ShortWrite
    PROVE  Spec => [](SessionInv /\ DataInv /\ StreamsInv)
<1>1. SessionInv /\ DataInv /\ StreamsInv /\ [Next]_vars => StreamsInv'
  <2>1. ASSUME StreamsInv, UNCHANGED vars PROVE StreamsInv'
    <3>1. UNCHANGED <<flight, buf, taken, got, sent, over, endOf>>
      BY <2>1 DEF vars, peers
    <3>2. ASSUME NEW d \in Dir PROVE StreamInv(d)'
      BY <2>1, <3>1, <3>2 DEF StreamsInv, StreamInv
    <3> QED
      BY <3>2 DEF StreamsInv
  <2> QED
    BY <2>1, StreamsStep
<1> QED
  BY <1>1, StreamsAtStart, DataAlways, PTL DEF Spec

(* When a session ends because a sender has ended, all of it has been       *)
(* passed on, for streams of any length and buffers of any size, as long as *)
(* async_write_some writes everything.                                      *)
THEOREM AlwaysComplete ==
    ASSUME ~ShortWrite
    PROVE  Spec => []CompleteAtEnd
<1>1. StreamsInv => CompleteAtEnd
  BY DEF StreamsInv, StreamInv, CompleteAtEnd
<1> QED
  BY <1>1, StreamsAlways, PTL

-----------------------------------------------------------------------------
(* The refinement: the first bytes of a direction, and more of them.        *)
LEMMA FirstBytes ==
    ASSUME NEW d \in Dir, NEW s \in Data, NEW t \in Data,
           \A i \in 1..Len(s) : s[i] = <<d, i>>,
           \A i \in 1..Len(t) : t[i] = <<d, i>>,
           Len(s) <= Len(t)
    PROVE  /\ IsPrefix(s, t)
           /\ Len(s) # Len(t) => IsStrictPrefix(s, t)
<1>1. SubSeq(s, 1, Len(s)) = s
  BY DEF Data
<1>2. SubSeq(t, 1, Len(s)) = s
  <2>1. SubSeq(t, 1, Len(s)) = [i \in 1..Len(s) |-> t[i]]
    BY DEF Data
  <2>2. s = [i \in 1..Len(s) |-> s[i]]
    BY DEF Data
  <2>3. ASSUME NEW i \in 1..Len(s) PROVE t[i] = s[i]
    <3>1. i \in 1..Len(t)
      BY DEF Data
    <3> QED
      BY <3>1
  <2> QED
    BY <2>1, <2>2, <2>3
<1> QED
  BY <1>1, <1>2 DEF IsPrefix, IsStrictPrefix

LEMMA SourceBytes ==
    ASSUME DataInv, NEW d \in Dir
    PROVE  /\ Sources[d] \in Data /\ Len(Sources[d]) = sent[d]
           /\ \A i \in 1..Len(Sources[d]) : Sources[d][i] = <<d, i>>
<1>1. sent[d] \in Nat /\ sent[d] <= Bytes
  BY SocksAssumption DEF DataInv
<1>2. Sources[d] \in [1..sent[d] -> Dir \X (1..Bytes)]
  BY <1>1, SocksAssumption DEF Sources
<1>3. Sources[d] \in Data /\ Len(Sources[d]) = sent[d]
  BY <1>1, <1>2 DEF Data
<1> QED
  BY <1>3 DEF Sources

(* A write passes on the next bytes of what was sent.                       *)
LEMMA WriteDelivers ==
    ASSUME ~ShortWrite, SessionInv, DataInv, StreamsInv, StreamsInv', DataInv',
           NEW d \in Dir, NEW n \in 1..Room, WriteDone(d, n)
    PROVE  Streams!Deliver(d)
<1>1. /\ n = Len(buf[d]) /\ UNCHANGED sent
      /\ got' = [got EXCEPT ![d] = @ \o SubSeq(buf[d], 1, Len(buf[d]))]
  BY DEF WriteDone, BufferOf, Relaying
<1>2. /\ got \in [Dir -> Data] /\ got'[d] \in Data /\ buf[d] \in Data
      /\ taken'[d] <= sent'[d] /\ taken'[d] \in Nat /\ sent'[d] \in Nat
  BY SocksAssumption DEF DataInv
<1>3. /\ \A i \in 1..Len(got[d]) : got[d][i] = <<d, i>>
      /\ \A i \in 1..Len(got'[d]) : got'[d][i] = <<d, i>>
      /\ Len(got'[d]) <= taken'[d]
  BY DEF StreamsInv, StreamInv
<1>4. Len(got'[d]) = Len(got[d]) + n
  BY <1>1, <1>2 DEF Data
<1>5. IsStrictPrefix(got[d], got'[d])
  <2>1. Len(got[d]) \in Nat /\ n \in Nat /\ n > 0
    BY <1>2 DEF Data
  <2> QED
    BY <1>2, <1>3, <1>4, <2>1, FirstBytes
<1>6. IsPrefix(got'[d], Sources[d])
  <2>1. Len(got'[d]) <= sent[d]
    BY <1>1, <1>2, <1>3 DEF Data
  <2> QED
    BY <1>2, <1>3, <2>1, SourceBytes, FirstBytes
<1>7. \A e \in Dir \ {d} : got'[e] = got[e]
  BY <1>1, <1>2
<1>8. UNCHANGED Sources
  BY <1>1 DEF Sources
<1> QED
  BY <1>5, <1>6, <1>7, <1>8
  DEF Streams!Deliver, Streams!IsPrefix, Streams!IsStrictPrefix, IsPrefix, IsStrictPrefix

LEMMA SendSends ==
    ASSUME DataInv, DataInv', NEW d \in Dir, Send(d)
    PROVE  Streams!Send(d)
<1>1. sent' = [sent EXCEPT ![d] = @ + 1] /\ UNCHANGED got /\ sent \in [Dir -> 0..Bytes]
  BY DEF Send, DataInv
<1>2. /\ Sources[d] \in Data /\ Len(Sources[d]) = sent[d]
      /\ \A i \in 1..Len(Sources[d]) : Sources[d][i] = <<d, i>>
  BY SourceBytes
<1>3. /\ Sources'[d] \in Data /\ Len(Sources'[d]) = sent[d] + 1
      /\ \A i \in 1..Len(Sources'[d]) : Sources'[d][i] = <<d, i>>
  <2>1. sent'[d] = sent[d] + 1 /\ sent'[d] \in Nat /\ sent'[d] <= Bytes
    BY <1>1, SocksAssumption DEF DataInv
  <2>2. Sources'[d] \in [1..sent'[d] -> Dir \X (1..Bytes)]
    BY <2>1, SocksAssumption DEF Sources
  <2>3. Sources'[d] \in Data /\ Len(Sources'[d]) = sent'[d]
    BY <2>1, <2>2 DEF Data
  <2> QED
    BY <2>1, <2>3 DEF Sources
<1>4. IsStrictPrefix(Sources[d], Sources'[d])
  <2>1. sent[d] \in Nat
    BY <1>1
  <2> QED
    BY <1>2, <1>3, <2>1, FirstBytes
<1>5. \A e \in Dir \ {d} : Sources'[e] = Sources[e]
  BY <1>1 DEF Sources
<1> QED
  BY <1>1, <1>4, <1>5
  DEF Streams!Send, Streams!IsPrefix, Streams!IsStrictPrefix, IsPrefix, IsStrictPrefix

(* For streams of any length and buffers of any size: in both directions of *)
(* CONNECT and of BIND the receiver always has the first bytes its sender   *)
(* sent, as long as writes write everything.                                *)
THEOREM RelayIsStreams ==
    ASSUME ~ShortWrite
    PROVE  Spec => StreamsSpec
<1>1. Init => Streams!Init
  <2> SUFFICES ASSUME Init PROVE Streams!Init
    OBVIOUS
  <2>1. ASSUME NEW d \in Dir PROVE [i \in 1..sent[d] |-> <<d, i>>] = <<>>
    BY DEF Init
  <2> QED
    BY <2>1 DEF Init, Sources, Streams!Init
<1> DEFINE I == SessionInv /\ DataInv /\ StreamsInv
<1>2. I /\ I' /\ [Next]_vars => [Streams!Next]_<<Sources, got>>
  <2> SUFFICES ASSUME I, I', [Next]_vars
               PROVE  [Streams!Next]_<<Sources, got>>
    OBVIOUS
  <2>1. CASE UNCHANGED <<sent, got>>
    BY <2>1 DEF Sources
  <2>2. CASE UNCHANGED vars
    BY <2>1, <2>2 DEF vars, peers
  <2>3. ASSUME \/ receive_sock_header \/ CheckDone \/ ResolveDone
               \/ \E ok \in BOOLEAN : ConnectDone(ok) \/ ReplyDone(ok) \/ AcceptDone(ok)
        PROVE  UNCHANGED <<sent, got>>
    BY <2>3 DEF receive_sock_header, CheckDone, ResolveDone, ConnectDone, ReplyDone, AcceptDone,
                Requesting, peers
  <2>4. ASSUME NEW d \in Dir, RelayHandler(d)
        PROVE  UNCHANGED <<sent, got>> \/ Streams!Next
    <3>1. CASE \E n \in 1..Room : WriteDone(d, n)
      BY <3>1, WriteDelivers DEF Streams!Next
    <3>2. CASE ~\E n \in 1..Room : WriteDone(d, n)
      BY <2>4, <3>2 DEF RelayHandler, EndRead, WriteFails, ReadDone, Aborted, Relaying
    <3> QED
      BY <3>1, <3>2
  <2>5. ASSUME NEW d \in Dir, Send(d)
        PROVE  Streams!Next
    BY <2>5, SendSends DEF Streams!Next
  <2>6. ASSUME NEW d \in Dir, ShutDown(d)
        PROVE  UNCHANGED <<sent, got>>
    BY <2>6 DEF ShutDown
  <2> QED
    BY <2>1, <2>2, <2>3, <2>4, <2>5, <2>6, Steps
<1> QED
  BY <1>1, <1>2, StreamsAlways, PTL DEF Spec, StreamsSpec, Streams!Spec
-----------------------------------------------------------------------------
Undecided == [re |-> TRUE, returned |-> FALSE]
Decision  == [re : BOOLEAN, returned : BOOLEAN]

LEMMA ConsiderIs ==
    ASSUME NEW kind0, NEW a, NEW acc \in Decision, NEW rule
    PROVE  /\ Consider(kind0, a, acc, rule) \in Decision
           /\ acc.returned => Consider(kind0, a, acc, rule) = acc
           /\ rule.kind # kind0 => Consider(kind0, a, acc, rule) = acc
           /\ ~acc.returned /\ rule.kind = kind0 =>
                 /\ Consider(kind0, a, acc, rule).re = Matches(rule.octets, a)
                 /\ Consider(kind0, a, acc, rule).returned = Matches(rule.octets, a)
<1>1. Matches(rule.octets, a) \in BOOLEAN
  BY DEF Matches
<1> QED
  BY <1>1 DEF Consider, Decision

(* w has what the loop has decided after the first lines, up to all.        *)
WalksRules(w, kind0, a, lines) ==
    /\ w \in [0..Len(lines) -> Decision]
    /\ w[0] = Undecided
    /\ \A i \in 1..Len(lines) : w[i] = Consider(kind0, a, w[i - 1], lines[i])
    /\ w[Len(lines)].re = firewall(kind0, a, lines)

LEMMA FirewallWalks ==
    ASSUME NEW S, NEW kind0, NEW a, NEW lines \in Seq(S)
    PROVE  \E w : WalksRules(w, kind0, a, lines)
<1> DEFINE N == Len(lines)
           step == [x \in Decision \X (1..N) |-> Consider(kind0, a, x[1], lines[x[2]])]
           Loop(f) == f = [s \in SUBSET DOMAIN lines |->
                             IF s = {} THEN Undecided
                             ELSE Consider(kind0, a, f[s \ {Max(s)}], lines[Max(s)])]
           iter == CHOOSE f : Loop(f)
<1>1. N \in Nat /\ DOMAIN lines = 1..N
  OBVIOUS
<1>2. Undecided \in Decision
  BY DEF Undecided, Decision
<1>3. step \in [Decision \X (1..N) -> Decision]
  BY ConsiderIs
<1>4. \E f : Loop(f)
  <2>1. PICK f \in [SUBSET (1..N) -> Decision] : Folding(N, Undecided, step, f)
    <3> HIDE DEF step, N
    <3> QED
      BY <1>1, <1>2, <1>3, FoldingExists
  <2>2. ASSUME NEW s \in SUBSET (1..N), s # {}
        PROVE  f[s] = Consider(kind0, a, f[s \ {Max(s)}], lines[Max(s)])
    <3>1. Max(s) \in s
      BY <2>2, <1>1, MaxIsIn
    <3>2. <<f[s \ {Max(s)}], Max(s)>> \in Decision \X (1..N)
      BY <3>1, <2>1
    <3>3. f[s] = step[<<f[s \ {Max(s)}], Max(s)>>]
      BY <2>2, <2>1 DEF Folding
    <3> QED
      BY <3>2, <3>3
  <2>3. f[{}] = Undecided
    BY <2>1 DEF Folding
  <2>4. Loop(f)
    BY <2>1, <2>2, <2>3, <1>1
  <2> QED
    BY <2>4
<1>5. Loop(iter)
  <2> HIDE DEF Loop
  <2> QED
    BY <1>4, Zenon
<1>6. firewall(kind0, a, lines) = iter[DOMAIN lines].re
  BY Zenon DEF firewall, FoldLeft, MapThenFoldSet, Undecided
<1> HIDE DEF iter
<1>7. iter[{}] = Undecided
  BY <1>5
<1>8. ASSUME NEW i \in 1..N, iter[1..i - 1] \in Decision
      PROVE  iter[1..i] = step[<<iter[1..i - 1], i>>]
  <2>1. Max(1..i) = i /\ (1..i) \ {i} = 1..i - 1 /\ 1..i # {}
    BY <1>1, MaxUpTo
  <2>2. 1..i \in SUBSET DOMAIN lines
    BY <1>1
  <2>3. iter[1..i] = Consider(kind0, a, iter[(1..i) \ {Max(1..i)}], lines[Max(1..i)])
    BY <1>5, <2>1, <2>2
  <2>4. step[<<iter[1..i - 1], i>>] = Consider(kind0, a, iter[1..i - 1], lines[i])
    BY <1>8
  <2> HIDE DEF step
  <2> QED
    BY <2>1, <2>3, <2>4
<1>9. PICK w : WalksBy(w, N, Decision, Undecided, step, iter[1..N])
  <2> HIDE DEF step, N
  <2> QED
    BY <1>1, <1>2, <1>3, <1>7, <1>8, FoldingWalks
<1>10. w \in [0..N -> Decision] /\ w[0] = Undecided /\ w[N] = iter[1..N]
  BY <1>9 DEF WalksBy
<1>11. ASSUME NEW i \in 1..N
       PROVE  w[i] = Consider(kind0, a, w[i - 1], lines[i])
  <2>1. i - 1 \in 0..N
    BY <1>1
  <2>2. <<w[i - 1], i>> \in Decision \X (1..N)
    BY <1>10, <2>1
  <2>3. w[i] = step[<<w[i - 1], i>>]
    BY <1>9 DEF WalksBy
  <2> QED
    BY <2>2, <2>3
<1>12. w[N].re = firewall(kind0, a, lines)
  BY <1>1, <1>6, <1>10
<1> HIDE DEF step, Loop
<1>13. WalksRules(w, kind0, a, lines)
  BY <1>10, <1>11, <1>12 DEF WalksRules
<1> QED
  BY <1>13

(* Of the first n lines: the loop is left at a rule of the kind that        *)
(* matches, and re is the answer unless there was no rule of the kind.      *)
Own(lines, kind0, n)      == {i \in 1..n : lines[i].kind = kind0}
Matching(lines, kind0, a, n) == {i \in Own(lines, kind0, n) : Matches(lines[i].octets, a)}

Decided(acc, lines, kind0, a, n) ==
    /\ acc.returned <=> Matching(lines, kind0, a, n) # {}
    /\ acc.re <=> Matching(lines, kind0, a, n) # {} \/ Own(lines, kind0, n) = {}

LEMMA DecidedStep ==
    ASSUME NEW kind0, NEW a, NEW lines, NEW n \in Nat,
           NEW acc \in Decision, Decided(acc, lines, kind0, a, n)
    PROVE  Decided(Consider(kind0, a, acc, lines[n + 1]), lines, kind0, a, n + 1)
<1> DEFINE rule == lines[n + 1]
           hit  == Matches(rule.octets, a)
<1>0. \A i : i \in 1..n + 1 <=> i \in 1..n \/ i = n + 1
  OBVIOUS
<1>1. CASE rule.kind # kind0
  <2>1. Own(lines, kind0, n + 1) = Own(lines, kind0, n)
    BY <1>0, <1>1 DEF Own
  <2>2. Matching(lines, kind0, a, n + 1) = Matching(lines, kind0, a, n)
    BY <2>1 DEF Matching
  <2> QED
    BY <1>1, <2>1, <2>2, ConsiderIs DEF Decided
<1>2. CASE rule.kind = kind0
  <2>1. Own(lines, kind0, n + 1) = Own(lines, kind0, n) \cup {n + 1}
    BY <1>0, <1>2 DEF Own
  <2>2. Matching(lines, kind0, a, n + 1) =
           Matching(lines, kind0, a, n) \cup (IF hit THEN {n + 1} ELSE {})
    BY <2>1 DEF Matching
  <2>3. CASE acc.returned
    <3>1. Matching(lines, kind0, a, n) # {} /\ acc.re
      BY <2>3 DEF Decided
    <3>2. Consider(kind0, a, acc, rule) = acc
      BY <2>3, ConsiderIs
    <3> QED
      BY <2>2, <2>3, <3>1, <3>2 DEF Decided
  <2>4. CASE ~acc.returned
    <3>1. Matching(lines, kind0, a, n) = {}
      BY <2>4 DEF Decided
    <3>2. /\ Consider(kind0, a, acc, rule).re = hit
          /\ Consider(kind0, a, acc, rule).returned = hit
      BY <1>2, <2>4, ConsiderIs
    <3>3. Matching(lines, kind0, a, n + 1) # {} <=> hit
      BY <2>2, <3>1
    <3> HIDE DEF hit, rule
    <3> QED
      BY <2>1, <3>2, <3>3 DEF Decided, rule
  <2> QED
    BY <2>3, <2>4
<1> QED
  BY <1>1, <1>2

(* For every file: the loop's answer.                                       *)
LEMMA FirewallDecides ==
    ASSUME NEW S, NEW kind0, NEW a, NEW lines \in Seq(S)
    PROVE  firewall(kind0, a, lines) <=>
              Matching(lines, kind0, a, Len(lines)) # {} \/ Own(lines, kind0, Len(lines)) = {}
<1> DEFINE N == Len(lines)
<1>1. PICK w : WalksRules(w, kind0, a, lines)
  BY FirewallWalks
<1>2. /\ \A n \in 0..N : w[n] \in Decision
      /\ w[0] = Undecided
      /\ \A n \in 1..N : w[n] = Consider(kind0, a, w[n - 1], lines[n])
      /\ w[N].re = firewall(kind0, a, lines)
  BY <1>1 DEF WalksRules
<1>3. N \in Nat
  OBVIOUS
<1> HIDE DEF N
<1> DEFINE T == {n \in 0..N : Decided(w[n], lines, kind0, a, n)}
<1>4. 0 \in T
  <2>1. Own(lines, kind0, 0) = {} /\ Matching(lines, kind0, a, 0) = {}
    BY DEF Own, Matching
  <2>2. w[0].re /\ ~w[0].returned
    BY <1>2 DEF Undecided
  <2>3. 0 \in 0..N
    BY <1>3
  <2> QED
    BY <2>1, <2>2, <2>3 DEF Decided
<1>5. ASSUME NEW n \in 0..N, n < N, n \in T
      PROVE  n + 1 \in T
  <2>1. n \in Nat /\ n + 1 \in 1..N /\ n + 1 \in 0..N /\ (n + 1) - 1 = n
    BY <1>3, <1>5
  <2>2. w[n + 1] = Consider(kind0, a, w[n], lines[n + 1])
    BY <1>2, <2>1
  <2>3. Decided(Consider(kind0, a, w[n], lines[n + 1]), lines, kind0, a, n + 1)
    BY <1>2, <1>5, <2>1, DecidedStep
  <2> QED
    BY <2>1, <2>2, <2>3
<1>6. 0..N \subseteq T
  <2> HIDE DEF T
  <2> QED
    BY <1>3, <1>4, <1>5, UpTo
<1>7. Decided(w[N], lines, kind0, a, N)
  BY <1>3, <1>6
<1> QED
  BY <1>2, <1>7 DEF Decided, N

LEMMA RulesAccept == AcceptsByRules
<1> SUFFICES ASSUME NEW lines \in File, NEW kind0 \in Kind, NEW a \in Address,
                    {i \in DOMAIN lines : lines[i].kind = kind0} # {}
             PROVE  firewall(kind0, a, lines) <=>
                       \E i \in {i \in DOMAIN lines : lines[i].kind = kind0} :
                          \A k \in 1..4 : lines[i].octets[k] \in {Wild, a[k]}
  BY DEF AcceptsByRules
<1>1. PICK n \in 0..MaxRule : lines \in [1..n -> [kind : Kind, octets : Pattern]]
  BY DEF File
<1>2. n \in Nat
  BY FirewallAssumption
<1> DEFINE R == [kind : Kind, octets : Pattern]
<1>3. lines \in Seq(R) /\ DOMAIN lines = 1..Len(lines)
  <2> HIDE DEF R
  <2>1. lines \in [1..n -> R]
    BY <1>1 DEF R
  <2>2. lines \in Seq(R)
    BY <1>2, <2>1
  <2> QED
    BY <2>2
<1>4. Own(lines, kind0, Len(lines)) = {i \in DOMAIN lines : lines[i].kind = kind0}
  BY <1>3 DEF Own
<1>5. firewall(kind0, a, lines) <=> Matching(lines, kind0, a, Len(lines)) # {}
  BY <1>3, <1>4, FirewallDecides
<1> QED
  BY <1>4, <1>5 DEF Matching, Matches

(* For every socks.conf, whatever the order of its lines: when it has rules *)
(* for the request that is about to be read, firewall() lets the request    *)
(* through if and only if one of them matches.                              *)
THEOREM RulesAlwaysDecide == Spec => []RulesDecide
<1>1. RulesDecide
  BY RulesAccept DEF RulesDecide
<1> QED
  BY <1>1, PTL
=============================================================================
