------------------------- MODULE HttpServerProofs -------------------------
(***************************************************************************)
(* Theorems about HttpServer for every set of browsers, every limit on     *)
(* children and every length of a page.  They rest on an inductive         *)
(* invariant in four parts: types, what belongs to a connection, whose     *)
(* address the globals hold, and what a page looks like.                   *)
(***************************************************************************)
EXTENDS HttpServer, FiniteSetTheorems, TLAPS

Processes == [state : States, environ : Environment, has : SUBSET Browser]

TypesInv ==
    /\ conn \in [Browser -> {"away", "backlog", "open", "closed"}]
    /\ request \in [Browser -> Request \cup {Nothing, Leaves}]
    /\ client \in Browser \cup {NoOne}
    /\ environ \in Environment
    /\ proc \in [Browser -> Processes]
    /\ page \in [Browser -> Seq(PagePieces)]
    /\ overtaken \subseteq Browser

(* A child exists only for a request that was read; a handler that waits to *)
(* fork still has its connection, and the environment of its request.       *)
LinksInv ==
    /\ \A b \in Browser : proc[b].state # "none" => conn[b] = "closed" /\ Asked(b)
    /\ forking # NoOne =>
          /\ forking \in Browser /\ conn[forking] = "open" /\ Asked(forking)
          /\ environ = [query |-> forking, peer |-> client]

PeersInv ==
    /\ \A b \in Browser : conn[b] = "open" /\ b \notin overtaken => client = b
    /\ PeerUnlessOvertaken

(* A page is the status line and then pieces of the browser's own program;  *)
(* only a program that has ended or has all its pieces behind it may stop,  *)
(* and until then its process has the browser's socket.                     *)
OwnPage(b, n) ==
    /\ Len(page[b]) = n
    /\ n > 0 => page[b][1] = Piece(b, "status", 1)
    /\ \A i \in 2..n : page[b][i] = Piece(b, "program", i - 1)

PageInv(b) ==
    /\ proc[b].state # "none" => proc[b].environ.query = b
    /\ proc[b].state \in {"none", "forked"} => OwnPage(b, 0)
    /\ proc[b].state = "runs" => \E n \in 1..Length + 1 : OwnPage(b, n)
    /\ proc[b].state \in {"zombie", "gone"} => OwnPage(b, Length + 1) /\ proc[b].has = {}
    /\ proc[b].state \in {"forked", "runs"} => b \in proc[b].has

PagesInv == \A b \in Browser : PageInv(b)

IInv == TypesInv /\ LinksInv /\ PeersInv /\ PagesInv
-----------------------------------------------------------------------------
LEMMA TypesAtStart == ASSUME Init PROVE TypesInv
<1>1. NoChild \in Processes
  BY DEF NoChild, Processes, States, Environment
<1>2. <<>> \in Seq(PagePieces)
  OBVIOUS
<1> QED
  BY <1>1, <1>2 DEF Init, NoConnections, TypesInv, Environment

LEMMA AtStart == ASSUME Init PROVE IInv
<1>1. \A b \in Browser : proc[b].state = "none" /\ conn[b] = "away" /\ page[b] = <<>>
  BY DEF Init, NoChild, NoConnections
<1>2. LinksInv
  BY <1>1 DEF Init, LinksInv
<1>3. PeersInv
  BY <1>1 DEF PeersInv, PeerUnlessOvertaken, Answered
<1>4. PagesInv
  <2>1. \A b \in Browser : OwnPage(b, 0)
    <3>1. Len(<<>>) = 0 /\ 2..0 = {} /\ ~(0 > 0)
      OBVIOUS
    <3> QED
      BY <1>1, <3>1, Zenon DEF OwnPage
  <2> QED
    BY <1>1, <2>1 DEF PagesInv, PageInv, Init, NoChild
<1> QED
  BY <1>2, <1>3, <1>4, TypesAtStart DEF IInv

(* A fork gives the new child an environment and every open connection.     *)
LEMMA ForkTypes ==
    ASSUME TypesInv, NEW b \in Browser, NEW e \in Environment,
           NEW children \in [Browser -> Processes], Forks(b, e, children)
    PROVE  /\ proc' \in [Browser -> Processes]
           /\ conn' \in [Browser -> {"away", "backlog", "open", "closed"}]
<1>1. [state |-> "forked", environ |-> e, has |-> Unread] \in Processes
  BY DEF Processes, States, Unread
<1> QED
  BY <1>1 DEF Forks, Closed, TypesInv

LEMMA TypesStep ==
    ASSUME TypesInv, LinksInv, PagesInv, Next
    PROVE  TypesInv'
<1>1. PICK b \in Browser :
          Visit(b) \/ Accept(b) \/ ReadDone(b) \/ ReadFails(b) \/ Reap(b) \/ Child(b)
  BY DEF Next
<1> USE HttpAssumption
<1>2. CASE Visit(b)
  BY <1>2 DEF Visit, Visits, Connects, Sends, server, TypesInv
<1>3. CASE Accept(b)
  BY <1>3 DEF Accept, Opened, TypesInv, Unread
<1>4. CASE ReadDone(b)
  <2>1. environ' \in Environment
    BY <1>4 DEF ReadDone, EnvFor, Environment, TypesInv
  <2>2. CASE Forks(b, environ', proc)
    BY <1>4, <2>1, <2>2, ForkTypes DEF ReadDone, TypesInv
  <2>3. CASE ForkFails(b)
    BY <1>4, <2>1, <2>3 DEF ReadDone, ForkFails, TypesInv
  <2> QED
    BY <1>4, <2>2, <2>3 DEF ReadDone
<1>5. CASE ReadFails(b)
  BY <1>5 DEF ReadFails, Closed, server, TypesInv
<1>6. CASE Reap(b)
  <2>1. forking \in Browser
    BY <1>6 DEF Reap, LinksInv
  <2>2. [proc EXCEPT ![b].state = "gone"] \in [Browser -> Processes]
    BY DEF TypesInv, Processes, States
  <2> QED
    BY <1>6, <2>1, <2>2, ForkTypes DEF Reap, TypesInv
<1>7. CASE Exec(b)
  <2>1. Piece(b, "status", 1) \in PagePieces
    BY DEF Piece, PagePieces, Sources
  <2>2. page' \in [Browser -> Seq(PagePieces)]
    BY <1>7, <2>1 DEF Exec, TypesInv
  <2>3. proc' \in [Browser -> Processes]
    BY <1>7 DEF Exec, TypesInv, Processes, States
  <2> QED
    BY <1>7, <2>2, <2>3 DEF Exec, server, TypesInv
<1>8. CASE Output(b)
  <2>1. Len(page[b]) \in 1..Length + 1
    BY <1>8 DEF Output, PagesInv, PageInv, OwnPage
  <2>2. Piece(QueryOf(b), "program", Len(page[b])) \in PagePieces
    BY <2>1 DEF Piece, PagePieces, Sources, QueryOf, TypesInv, Processes, Environment
  <2> QED
    BY <1>8, <2>2 DEF Output, server, TypesInv
<1>9. CASE End(b)
  BY <1>9 DEF End, server, TypesInv, Processes, States
<1> QED
  BY <1>1, <1>2, <1>3, <1>4, <1>5, <1>6, <1>7, <1>8, <1>9 DEF Child

(* The connection of a forked child's request is closed, and others stay.   *)
LEMMA ForkLinks ==
    ASSUME TypesInv, NEW b \in Browser, NEW e, NEW children \in [Browser -> Processes],
           Forks(b, e, children)
    PROVE  /\ forking' = NoOne
           /\ proc'[b].state = "forked" /\ proc'[b].environ = e /\ proc'[b].has = Unread
           /\ conn'[b] = "closed"
           /\ \A o \in Browser \ {b} : proc'[o] = children[o] /\ conn'[o] = conn[o]
  BY DEF TypesInv, Forks, Closed

LEMMA LinksStep ==
    ASSUME TypesInv, LinksInv, Next
    PROVE  LinksInv'
<1>1. PICK b \in Browser :
          Visit(b) \/ Accept(b) \/ ReadDone(b) \/ ReadFails(b) \/ Reap(b) \/ Child(b)
  BY DEF Next
<1> USE HttpAssumption
<1>2. CASE Visit(b)
  BY <1>2 DEF Visit, Visits, Connects, Sends, server, TypesInv, LinksInv, Asked
<1>3. CASE Accept(b)
  BY <1>3 DEF Accept, Opened, TypesInv, LinksInv, Asked
<1>4. CASE ReadDone(b)
  <2>1. forking = NoOne /\ conn[b] = "open" /\ Asked(b)
        /\ UNCHANGED <<request, client, overtaken, page>>
        /\ environ' = [query |-> b, peer |-> client]
    BY <1>4 DEF ReadDone, EnvFor
  <2>2. CASE Forks(b, environ', proc)
    BY <2>1, <2>2, ForkLinks DEF TypesInv, LinksInv, Asked
  <2>3. CASE ForkFails(b)
    BY <2>1, <2>3 DEF ForkFails, TypesInv, LinksInv, Asked
  <2> QED
    BY <1>4, <2>2, <2>3 DEF ReadDone
<1>5. CASE ReadFails(b)
  BY <1>5 DEF ReadFails, Closed, server, TypesInv, LinksInv, Asked
<1>6. CASE Reap(b)
  <2> DEFINE children == [proc EXCEPT ![b].state = "gone"]
  <2>1. forking \in Browser /\ Asked(forking)
    BY <1>6 DEF Reap, LinksInv
  <2>2. children \in [Browser -> Processes]
    BY DEF TypesInv, Processes, States
  <2>3. \A o \in Browser : children[o].state # "none" => conn[o] = "closed" /\ Asked(o)
    BY <1>6 DEF Reap, LinksInv, TypesInv
  <2>4. Forks(forking, environ, children) /\ UNCHANGED request
    BY <1>6 DEF Reap
  <2> HIDE DEF children
  <2> QED
    BY <2>1, <2>2, <2>3, <2>4, ForkLinks DEF LinksInv, Asked
<1>7. CASE Child(b)
  BY <1>7 DEF Child, Exec, Output, End, server, TypesInv, LinksInv, Asked
<1> QED
  BY <1>1, <1>2, <1>3, <1>4, <1>5, <1>6, <1>7

LEMMA PeersStep ==
    ASSUME TypesInv, LinksInv, PeersInv, Next
    PROVE  PeersInv'
<1>1. PICK b \in Browser :
          Visit(b) \/ Accept(b) \/ ReadDone(b) \/ ReadFails(b) \/ Reap(b) \/ Child(b)
  BY DEF Next
<1> USE HttpAssumption DEF PeersInv, PeerUnlessOvertaken, Answered
<1>2. CASE Visit(b)
  BY <1>2 DEF Visit, Visits, Connects, Sends, server, TypesInv, LinksInv, Asked
<1>3. CASE Accept(b)
  BY <1>3 DEF Accept, Opened, Unread, TypesInv, Asked
<1>4. CASE ReadDone(b)
  <2>1. conn[b] = "open" /\ UNCHANGED <<request, client, overtaken, page>>
        /\ environ' = [query |-> b, peer |-> client]
    BY <1>4 DEF ReadDone, EnvFor
  <2>2. CASE Forks(b, environ', proc)
    <3>1. /\ proc'[b].environ.peer = client /\ conn'[b] = "closed"
          /\ \A o \in Browser \ {b} : proc'[o] = proc[o] /\ conn'[o] = conn[o]
      BY <2>1, <2>2, ForkLinks DEF TypesInv
    <3> QED
      BY <2>1, <3>1 DEF Asked
  <2>3. CASE ForkFails(b)
    BY <2>1, <2>3 DEF ForkFails, TypesInv, Asked
  <2> QED
    BY <1>4, <2>2, <2>3 DEF ReadDone
<1>5. CASE ReadFails(b)
  BY <1>5 DEF ReadFails, Closed, server, TypesInv, Asked
<1>6. CASE Reap(b)
  <2> DEFINE children == [proc EXCEPT ![b].state = "gone"]
  <2>1. forking \in Browser /\ conn[forking] = "open" /\ environ.peer = client
    BY <1>6 DEF Reap, LinksInv
  <2>2. children \in [Browser -> Processes]
    BY DEF TypesInv, Processes, States
  <2>3. \A o \in Browser : /\ children[o].environ = proc[o].environ
                           /\ children[o].state # "none" => proc[o].state # "none"
    BY <1>6 DEF Reap, TypesInv
  <2>4. Forks(forking, environ, children)
        /\ UNCHANGED <<request, client, environ, overtaken, page>>
    BY <1>6 DEF Reap
  <2> HIDE DEF children
  <2> QED
    <3>1. /\ proc'[forking].environ.peer = client /\ conn'[forking] = "closed"
          /\ \A o \in Browser \ {forking} : proc'[o] = children[o] /\ conn'[o] = conn[o]
      BY <2>1, <2>2, <2>4, ForkLinks
    <3> QED
      BY <2>1, <2>3, <2>4, <3>1 DEF Asked
<1>7. CASE Child(b)
  <2>1. \A o \in Browser : /\ proc'[o].environ = proc[o].environ
                           /\ proc'[o].state # "none" => proc[o].state # "none"
    <3>1. CASE Exec(b)
      BY <3>1 DEF Exec, TypesInv, Processes
    <3>2. CASE Output(b)
      BY <3>2 DEF Output
    <3>3. CASE End(b)
      BY <3>3 DEF End, TypesInv, Processes
    <3> QED
      BY <1>7, <3>1, <3>2, <3>3 DEF Child
  <2>2. UNCHANGED <<conn, request, client, overtaken>>
    BY <1>7 DEF Child, Exec, Output, End, server
  <2> QED
    BY <2>1, <2>2 DEF Asked
<1> QED
  BY <1>1, <1>2, <1>3, <1>4, <1>5, <1>6, <1>7

(* The next piece of the own program makes a longer page of the same kind.  *)
LEMMA LongerPage ==
    ASSUME page \in [Browser -> Seq(PagePieces)], NEW b \in Browser, NEW n \in Nat,
           OwnPage(b, n), NEW p,
           p = IF n = 0 THEN Piece(b, "status", 1) ELSE Piece(b, "program", n),
           page' = [page EXCEPT ![b] = Append(@, p)]
    PROVE  OwnPage(b, n + 1)'
<1> DEFINE s == page[b]
           t == Append(s, p)
<1>1. s \in Seq(PagePieces) /\ Len(s) = n /\ page'[b] = t
  BY DEF OwnPage
<1>2. Len(t) = n + 1 /\ t[n + 1] = p /\ \A i \in 1..n : t[i] = s[i]
  BY <1>1
<1>3. t[1] = Piece(b, "status", 1)
  BY <1>2 DEF OwnPage
<1> HIDE DEF s, t
<1>4. ASSUME NEW i \in 2..n + 1 PROVE t[i] = Piece(b, "program", i - 1)
  <2>1. CASE i = n + 1
    BY <1>2, <2>1
  <2>2. CASE i \in 2..n
    <3>1. i \in 1..n
      BY <2>2
    <3>2. s[i] = Piece(b, "program", i - 1)
      BY <2>2 DEF OwnPage, s
    <3> QED
      BY <1>2, <3>1, <3>2
  <2> QED
    BY <2>1, <2>2
<1> QED
  BY <1>1, <1>2, <1>3, <1>4 DEF OwnPage

LEMMA SamePage ==
    ASSUME NEW b \in Browser, PageInv(b), proc'[b] = proc[b], page'[b] = page[b]
    PROVE  PageInv(b)'
  BY DEF PageInv, OwnPage

(* A forked child finds an empty page and its own socket in its hands.      *)
LEMMA ForkPage ==
    ASSUME TypesInv, LinksInv, PagesInv,
           NEW b \in Browser, conn[b] = "open", page'[b] = page[b],
           proc'[b].state = "forked", proc'[b].has = Unread, proc'[b].environ.query = b
    PROVE  PageInv(b)'
<1>1. proc[b].state = "none"
  BY DEF LinksInv
<1>2. OwnPage(b, 0)'
  BY <1>1 DEF PagesInv, PageInv, OwnPage
<1>3. b \in Unread
  BY DEF Unread
<1> QED
  BY <1>2, <1>3 DEF PageInv

LEMMA PagesStep ==
    ASSUME TypesInv, LinksInv, PagesInv, Next
    PROVE  PagesInv'
<1>1. PICK b \in Browser :
          Visit(b) \/ Accept(b) \/ ReadDone(b) \/ ReadFails(b) \/ Reap(b) \/ Child(b)
  BY DEF Next
<1> USE HttpAssumption
<1>2. CASE UNCHANGED <<proc, page>>
  BY <1>2, SamePage DEF PagesInv
<1>3. CASE Visit(b) \/ Accept(b) \/ ReadFails(b)
  BY <1>2, <1>3 DEF Visit, Accept, ReadFails
<1>4. CASE ReadDone(b)
  <2>1. conn[b] = "open" /\ UNCHANGED page /\ environ' = [query |-> b, peer |-> client]
    BY <1>4 DEF ReadDone, EnvFor
  <2>2. CASE Forks(b, environ', proc)
    <3>1. /\ proc'[b].state = "forked" /\ proc'[b].has = Unread /\ proc'[b].environ.query = b
          /\ \A o \in Browser \ {b} : proc'[o] = proc[o]
      BY <2>1, <2>2, ForkLinks DEF TypesInv
    <3>2. PageInv(b)'
      BY <2>1, <3>1, ForkPage
    <3>3. \A o \in Browser \ {b} : PageInv(o)'
      BY <2>1, <3>1, SamePage DEF PagesInv
    <3> QED
      BY <3>2, <3>3 DEF PagesInv
  <2>3. CASE ForkFails(b)
    BY <1>2, <2>1, <2>3 DEF ForkFails
  <2> QED
    BY <1>4, <2>2, <2>3 DEF ReadDone
<1>5. CASE Reap(b)
  <2> DEFINE children == [proc EXCEPT ![b].state = "gone"]
  <2>1. PICK f \in Browser : f = forking
    BY <1>5 DEF Reap, LinksInv
  <2>2. /\ conn[f] = "open" /\ environ.query = f
        /\ UNCHANGED page /\ proc[b].state = "zombie"
        /\ Forks(f, environ, children)
    BY <1>5, <2>1 DEF Reap, LinksInv
  <2>3. children \in [Browser -> Processes]
    BY DEF TypesInv, Processes, States
  <2>4. /\ children[b] = [proc[b] EXCEPT !.state = "gone"]
        /\ \A o \in Browser \ {b} : children[o] = proc[o]
    BY DEF TypesInv
  <2>5. proc[b] \in Processes
    BY DEF TypesInv
  <2> HIDE DEF children
  <2>6. /\ proc'[f].state = "forked" /\ proc'[f].has = Unread
        /\ proc'[f].environ.query = f
        /\ \A o \in Browser \ {f} : proc'[o] = children[o]
    BY <2>3, <2>2, ForkLinks
  <2>7. PageInv(f)'
    BY <2>2, <2>6, ForkPage
  <2>8. ASSUME b # f PROVE PageInv(b)'
    <3>1. proc'[b].state = "gone" /\ proc'[b].has = proc[b].has /\ proc'[b].environ = proc[b].environ
      BY <2>4, <2>5, <2>6, <2>8 DEF Processes
    <3> QED
      BY <2>2, <3>1 DEF PagesInv, PageInv, OwnPage
  <2>9. \A o \in Browser \ {b, f} : PageInv(o)'
    BY <2>2, <2>4, <2>6, SamePage DEF PagesInv
  <2> QED
    BY <2>7, <2>8, <2>9 DEF PagesInv
<1>6. CASE Child(b)
  <2>1. \A o \in Browser \ {b} : PageInv(o)'
    <3>1. \A o \in Browser \ {b} : proc'[o] = proc[o] /\ page'[o] = page[o]
      BY <1>6 DEF Child, Exec, Output, End, TypesInv
    <3> QED
      BY <3>1, SamePage DEF PagesInv
  <2>2. PageInv(b) /\ proc[b] \in Processes
    BY DEF PagesInv, TypesInv
  <2>3. ASSUME Exec(b) PROVE PageInv(b)'
    <3>1. OwnPage(b, 0) /\ proc[b].environ.query = b /\ b \in proc[b].has
      BY <2>2, <2>3 DEF Exec, PageInv
    <3>2. OwnPage(b, 0 + 1)'
      BY <2>3, <3>1, LongerPage DEF Exec, TypesInv
    <3>3. /\ proc'[b].state = "runs" /\ proc'[b].environ = proc[b].environ
          /\ proc'[b].has = proc[b].has
      BY <2>2, <2>3 DEF Exec, TypesInv, Processes
    <3>4. 1 \in 1..Length + 1 /\ OwnPage(b, 1)'
      BY <3>2
    <3> QED
      BY <3>1, <3>3, <3>4 DEF PageInv
  <2>4. ASSUME Output(b) PROVE PageInv(b)'
    <3>1. PICK n \in 1..Length + 1 : OwnPage(b, n)
      BY <2>2, <2>4 DEF Output, PageInv
    <3>2. n \in Nat /\ n # 0 /\ Len(page[b]) = n /\ n <= Length /\ QueryOf(b) = b
      BY <2>2, <2>4, <3>1 DEF Output, OwnPage, PageInv, QueryOf
    <3>3. OwnPage(b, n + 1)'
      BY <2>4, <3>1, <3>2, LongerPage DEF Output, TypesInv
    <3>4. n + 1 \in 1..Length + 1
      BY <3>2
    <3>5. proc'[b] = proc[b] /\ proc[b].state = "runs"
      BY <2>4 DEF Output
    <3> QED
      BY <2>2, <3>3, <3>4, <3>5 DEF PageInv
  <2>5. ASSUME End(b) PROVE PageInv(b)'
    <3>1. PICK n \in 1..Length + 1 : OwnPage(b, n)
      BY <2>2, <2>5 DEF End, PageInv
    <3>2. n = Length + 1
      BY <2>5, <3>1 DEF End, OwnPage
    <3>3. /\ proc'[b].state = "zombie" /\ proc'[b].environ = proc[b].environ
          /\ proc'[b].has = {} /\ page'[b] = page[b]
      BY <2>2, <2>5 DEF End, TypesInv, Processes
    <3>4. OwnPage(b, Length + 1)' /\ proc[b].environ.query = b
      BY <2>2, <2>5, <3>1, <3>2, <3>3 DEF End, PageInv, OwnPage
    <3> QED
      BY <3>3, <3>4 DEF PageInv
  <2> QED
    BY <1>6, <2>1, <2>3, <2>4, <2>5 DEF Child, PagesInv
<1> QED
  BY <1>1, <1>3, <1>4, <1>5, <1>6
-----------------------------------------------------------------------------
LEMMA Inductive == Spec => []IInv
<1>1. Init => IInv
  BY AtStart
<1>2. IInv /\ [Next]_vars => IInv'
  <2> SUFFICES ASSUME IInv, [Next]_vars PROVE IInv'
    OBVIOUS
  <2>1. CASE Next
    BY <2>1, TypesStep, LinksStep, PeersStep, PagesStep DEF IInv
  <2>2. CASE UNCHANGED vars
    BY <2>2 DEF vars, server, IInv, TypesInv, LinksInv, PeersInv, PeerUnlessOvertaken, Answered,
                Asked, PagesInv, PageInv, OwnPage
  <2> QED
    BY <2>1, <2>2
<1> QED
  BY <1>1, <1>2, PTL DEF Spec

(* A program's REMOTE_ADDR and REMOTE_PORT are its own browser's, for any   *)
(* number of browsers, unless another was accepted before the request was   *)
(* read: do_accept and ENV of echo_server.cpp share one pair of globals.    *)
THEOREM PeerIsOwn == Spec => []PeerUnlessOvertaken
<1>1. IInv => PeerUnlessOvertaken
  BY DEF IInv, PeersInv
<1> QED
  BY <1>1, Inductive, PTL

-----------------------------------------------------------------------------
(* The loop around fork never has more children than the system allows.     *)
FewChildren == IsFiniteSet(Children) /\ Cardinality(Children) <= MaxProc

LEMMA FewStep ==
    ASSUME IInv, FewChildren, Next
    PROVE  FewChildren'
<1>1. PICK b \in Browser :
          Visit(b) \/ Accept(b) \/ ReadDone(b) \/ ReadFails(b) \/ Reap(b) \/ Child(b)
  BY DEF Next
<1> USE HttpAssumption DEF FewChildren, IInv
<1>2. CASE Children' = Children
  BY <1>2
<1>3. CASE UNCHANGED proc
  BY <1>2, <1>3 DEF Children
<1>4. CASE Visit(b) \/ Accept(b) \/ ReadFails(b)
  BY <1>3, <1>4 DEF Visit, Accept, ReadFails
<1>5. Cardinality(Children) \in Nat
  BY FS_CardinalityType
<1>6. CASE ReadDone(b)
  <2>1. CASE ForkFails(b)
    BY <1>3, <2>1 DEF ForkFails
  <2>2. CASE Forks(b, environ', proc) /\ Cardinality(Children) < MaxProc
    <3>1. Children' = Children \cup {b}
      BY <2>2, ForkLinks DEF Children, TypesInv
    <3> QED
      BY <1>5, <2>2, <3>1, FS_AddElement
  <2> QED
    BY <1>6, <2>1, <2>2 DEF ReadDone
<1>7. CASE Reap(b)
  <2> DEFINE children == [proc EXCEPT ![b].state = "gone"]
  <2>1. PICK f \in Browser : f = forking
    BY <1>7 DEF Reap, LinksInv
  <2>2. /\ Forks(f, environ, children) /\ proc[b].state = "zombie"
    BY <1>7, <2>1 DEF Reap
  <2>3. children \in [Browser -> Processes]
    BY DEF TypesInv, Processes, States
  <2>4. /\ children[b].state = "gone"
        /\ \A o \in Browser \ {b} : children[o] = proc[o]
    BY DEF TypesInv, Processes
  <2> HIDE DEF children
  <2>5. /\ proc'[f].state = "forked"
        /\ \A o \in Browser \ {f} : proc'[o] = children[o]
    BY <2>2, <2>3, ForkLinks
  <2>6. Children' = (Children \ {b}) \cup {f}
    BY <2>4, <2>5 DEF Children
  <2>7. b \in Children
    BY <2>2 DEF Children
  <2>8. /\ IsFiniteSet(Children \ {b})
        /\ Cardinality(Children \ {b}) = Cardinality(Children) - 1
    BY <2>7, FS_RemoveElement
  <2> DEFINE rest == Children \ {b}
  <2>9. /\ IsFiniteSet(rest \cup {f})
        /\ Cardinality(rest \cup {f}) \in {Cardinality(rest), Cardinality(rest) + 1}
    BY <2>8, FS_AddElement
  <2>10. Cardinality(rest \cup {f}) <= MaxProc
    BY <1>5, <2>8, <2>9
  <2> QED
    BY <2>6, <2>9, <2>10
<1>8. CASE Child(b)
  <2>1. \A o \in Browser \ {b} : proc'[o] = proc[o]
    BY <1>8 DEF Child, Exec, Output, End, TypesInv
  <2>2. /\ proc[b].state \in {"forked", "runs"}
        /\ proc'[b].state \in {"runs", "zombie"}
    <3>1. CASE Exec(b)
      BY <3>1 DEF Exec, TypesInv, Processes
    <3>2. CASE Output(b)
      BY <3>2 DEF Output
    <3>3. CASE End(b)
      BY <3>3 DEF End, TypesInv, Processes
    <3> QED
      BY <1>8, <3>1, <3>2, <3>3 DEF Child
  <2>3. Children' = Children
    BY <2>1, <2>2 DEF Children
  <2> QED
    BY <1>2, <2>3
<1> QED
  BY <1>1, <1>4, <1>6, <1>7, <1>8

(* Every variable of the server and of its children keeps its type, and     *)
(* there are never more children than the system lets the server have.      *)
THEOREM AlwaysTyped == Spec => []TypeOK
<1>1. Init => FewChildren
  <2> SUFFICES ASSUME Init PROVE FewChildren
    OBVIOUS
  <2>1. Children = {}
    BY DEF Init, NoChild, Children
  <2> QED
    BY <2>1, FS_EmptySet, HttpAssumption DEF FewChildren
<1>2. IInv /\ FewChildren /\ [Next]_vars => FewChildren'
  <2> SUFFICES ASSUME IInv, FewChildren, [Next]_vars PROVE FewChildren'
    OBVIOUS
  <2>1. CASE UNCHANGED vars
    <3>1. Children' = Children
      BY <2>1 DEF vars, Children
    <3> QED
      BY <3>1 DEF FewChildren
  <2> QED
    BY <2>1, FewStep
<1>3. IInv /\ FewChildren => TypeOK
  BY DEF IInv, FewChildren, TypesInv, LinksInv, TypeOK, Processes, Unread
<1> QED
  BY <1>1, <1>2, <1>3, Inductive, PTL DEF Spec
-----------------------------------------------------------------------------
(* The refinement of Answers.  First, what the answer to a browser is.      *)
LEMMA AnswerHas ==
    ASSUME NEW b
    PROVE  /\ Asked(b) => /\ AnswerTo(b)["status"] = 1
                          /\ AnswerTo(b)["program"] = Length
                          /\ AnswerTo(b) # [s \in Sources |-> 0]
           /\ ~Asked(b) => AnswerTo(b) = [s \in Sources |-> 0]
<1>1. "status" \in Sources /\ "program" \in Sources /\ "status" # "program"
  BY DEF Sources
<1>2. ASSUME Asked(b) PROVE AnswerTo(b)["status"] = 1 /\ AnswerTo(b)["program"] = Length
  BY <1>1, <1>2 DEF AnswerTo
<1>3. ASSUME Asked(b) PROVE AnswerTo(b) # [s \in Sources |-> 0]
  <2>1. [s \in Sources |-> 0]["status"] # 1
    BY <1>1
  <2> QED
    BY <1>2, <1>3, <2>1
<1>4. ASSUME ~Asked(b) PROVE AnswerTo(b) = [s \in Sources |-> 0]
  BY <1>4 DEF AnswerTo
<1> QED
  BY <1>2, <1>3, <1>4

Answer(b) == {Piece(b, "status", 1)} \cup {Piece(b, "program", k) : k \in 1..Length}

LEMMA AnswerIsPieces ==
    ASSUME NEW b \in Browser, Asked(b)
    PROVE  Owed!Pieces(b) = Answer(b)
<1> USE HttpAssumption
<1>1. AnswerTo(b)["status"] = 1 /\ AnswerTo(b)["program"] = Length
  BY AnswerHas
<1>2. Owed!Pieces(b) = UNION {{Piece(b, s, k) : k \in 1..AnswerTo(b)[s]} : s \in Sources}
  BY DEF Owed!Pieces, Owed!Piece, Piece
<1>3. UNION {{Piece(b, s, k) : k \in 1..AnswerTo(b)[s]} : s \in Sources}
        = {Piece(b, "status", k) : k \in 1..1} \cup {Piece(b, "program", k) : k \in 1..Length}
  BY <1>1 DEF Sources
<1>4. {Piece(b, "status", k) : k \in 1..1} = {Piece(b, "status", 1)}
  OBVIOUS
<1> QED
  BY <1>2, <1>3, <1>4 DEF Answer

(* A page of n pieces, as OwnPage has it, holds the first of them, each     *)
(* once and none before its turn.                                           *)
LEMMA PrintedInOrder ==
    ASSUME NEW b, NEW n \in 0..Length + 1, NEW s, DOMAIN s = 1..n,
           n > 0 => s[1] = Piece(b, "status", 1),
           \A i \in 2..n : s[i] = Piece(b, "program", i - 1)
    PROVE  /\ \A i \in 1..n : s[i] \in Answer(b)
           /\ \A i, j \in 1..n : s[i] = s[j] => i = j
           /\ \A i \in 1..n, q \in Answer(b) :
                 (q.from = s[i].from /\ q.nth < s[i].nth) \/ (q.from = "status" /\ s[i].from # "status")
                 => \E j \in 1..i - 1 : s[j] = q
           /\ n = Length + 1 => \A q \in Answer(b) : \E i \in 1..n : s[i] = q
<1> USE HttpAssumption DEF Piece
<1>1. \A i \in 1..n : i = 1 \/ i \in 2..n
  OBVIOUS
<1>2. \A i \in 1..n : s[i] \in Answer(b)
  <2>1. ASSUME NEW i \in 2..n PROVE s[i] \in Answer(b)
    <3>1. i - 1 \in 1..Length /\ s[i] = Piece(b, "program", i - 1)
      OBVIOUS
    <3> QED
      BY <3>1 DEF Answer
  <2>2. ASSUME n > 0 PROVE s[1] \in Answer(b)
    BY <2>2 DEF Answer
  <2> QED
    BY <1>1, <2>1, <2>2
<1>3. n > 0 => s[1].from = "status" /\ s[1].nth = 1
  OBVIOUS
<1>4. ASSUME NEW i \in 2..n PROVE s[i].from = "program" /\ s[i].nth = i - 1
  <2>1. s[i] = [whose |-> b, from |-> "program", nth |-> i - 1]
    OBVIOUS
  <2> QED
    BY <2>1
<1> HIDE DEF Piece
<1>5. ASSUME NEW i \in 1..n, NEW j \in 1..n, s[i] = s[j] PROVE i = j
  <2>1. s[i].from = s[j].from /\ s[i].nth = s[j].nth
    BY <1>5
  <2>2. CASE i = 1
    BY <1>1, <1>3, <1>4, <2>1, <2>2
  <2>3. CASE i \in 2..n
    BY <1>1, <1>3, <1>4, <2>1, <2>3
  <2> QED
    BY <1>1, <2>2, <2>3
<1> USE DEF Piece
<1>6. ASSUME NEW i \in 1..n, NEW q \in Answer(b),
             (q.from = s[i].from /\ q.nth < s[i].nth) \/ (q.from = "status" /\ s[i].from # "status")
      PROVE  \E j \in 1..i - 1 : s[j] = q
  <2>1. CASE i = 1
    BY <1>6, <2>1 DEF Answer
  <2>2. CASE i \in 2..n /\ q = Piece(b, "status", 1)
    <3>1. 1 \in 1..i - 1 /\ s[1] = q
      BY <2>2
    <3> QED
      BY <3>1
  <2>3. ASSUME i \in 2..n, NEW k \in 1..Length, q = Piece(b, "program", k)
        PROVE  \E j \in 1..i - 1 : s[j] = q
    <3>1. q.from = "program" /\ q.nth = k
      BY <2>3
    <3>2. k < i - 1
      BY <1>4, <1>6, <2>3, <3>1
    <3>3. k + 1 \in 2..n /\ k + 1 \in 1..i - 1
      BY <2>3, <3>2
    <3>4. s[k + 1] = q
      BY <2>3, <3>3
    <3> QED
      BY <3>3, <3>4
  <2> QED
    BY <1>1, <2>1, <2>2, <2>3 DEF Answer
<1>7. ASSUME n = Length + 1, NEW q \in Answer(b) PROVE \E i \in 1..n : s[i] = q
  <2>1. CASE q = Piece(b, "status", 1)
    BY <1>7, <2>1
  <2>2. ASSUME NEW k \in 1..Length, q = Piece(b, "program", k)
        PROVE  \E i \in 1..n : s[i] = q
    <3>1. k + 1 \in 2..n /\ s[k + 1] = q
      BY <1>7, <2>2
    <3> QED
      BY <3>1
  <2> QED
    BY <1>7, <2>1, <2>2 DEF Answer
<1> QED
  BY <1>2, <1>5, <1>6, <1>7

PageLength(b) == OwnPage(b, Len(page[b])) /\ Len(page[b]) \in 0..Length + 1

LEMMA PageHasLength ==
    ASSUME IInv, NEW b \in Browser
    PROVE  /\ PageLength(b)
           /\ ~Asked(b) => page[b] = <<>>
           /\ proc[b].state \in {"none", "forked"} => page[b] = <<>>
           /\ proc[b].state \in {"zombie", "gone"} => Len(page[b]) = Length + 1
<1> USE HttpAssumption
<1>1. PageInv(b) /\ proc[b].state \in States /\ page[b] \in Seq(PagePieces)
  BY DEF IInv, PagesInv, TypesInv, Processes
<1>2. CASE proc[b].state \in {"none", "forked"}
  <2>1. OwnPage(b, 0) /\ Len(page[b]) = 0
    BY <1>1, <1>2 DEF PageInv, OwnPage
  <2>2. page[b] = <<>>
    BY <1>1, <2>1
  <2> QED
    BY <1>2, <2>1, <2>2 DEF PageLength
<1>3. CASE proc[b].state \notin {"none", "forked"}
  <2>1. PICK n \in 1..Length + 1 :
           OwnPage(b, n) /\ (proc[b].state \in {"zombie", "gone"} => n = Length + 1)
    <3>1. Length + 1 \in 1..Length + 1
      OBVIOUS
    <3> QED
      BY <1>1, <1>3, <3>1 DEF PageInv, States
  <2>2. Len(page[b]) = n
    BY <2>1 DEF OwnPage
  <2>3. Asked(b)
    BY <1>3 DEF IInv, LinksInv
  <2> QED
    BY <1>3, <2>1, <2>2, <2>3 DEF PageLength
<1> QED
  BY <1>2, <1>3

(* What the refinement needs of a state: its page is a part of its answer.  *)
Fits(b) ==
    /\ Owed!Own(b)
    /\ Over(b) => Owed!Complete(b)

LEMMA PageFits ==
    ASSUME IInv, NEW b \in Browser
    PROVE  Fits(b)
<1> USE HttpAssumption
<1> DEFINE s == page[b]
           n == Len(s)
<1>1. s \in Seq(PagePieces) /\ DOMAIN s = 1..n
  BY DEF IInv, TypesInv
<1>2. PageLength(b)
  BY PageHasLength
<1>3. Owed!Shown(b) = {s[i] : i \in 1..n}
  BY <1>1 DEF Owed!Shown
<1>4. CASE ~Asked(b)
  <2>1. s = <<>> /\ n = 0
    BY <1>4, PageHasLength
  <2>2. 1..n = {} /\ DOMAIN s = {}
    BY <1>1, <2>1
  <2>3. Owed!Own(b)
    BY <1>3, <2>2 DEF Owed!Own
  <2> QED
    BY <1>4, <2>3 DEF Fits, Over, Answered
<1>5. CASE Asked(b)
  <2>1. Owed!Pieces(b) = Answer(b)
    BY <1>5, AnswerIsPieces
  <2>2. /\ n \in 0..Length + 1
        /\ n > 0 => s[1] = Piece(b, "status", 1)
        /\ \A i \in 2..n : s[i] = Piece(b, "program", i - 1)
    BY <1>2 DEF PageLength, OwnPage
  <2> HIDE DEF s, n
  <2>3. /\ \A i \in 1..n : s[i] \in Answer(b)
        /\ \A i, j \in 1..n : s[i] = s[j] => i = j
        /\ \A i \in 1..n, q \in Answer(b) :
              (q.from = s[i].from /\ q.nth < s[i].nth) \/ (q.from = "status" /\ s[i].from # "status")
              => \E j \in 1..i - 1 : s[j] = q
        /\ n = Length + 1 => \A q \in Answer(b) : \E i \in 1..n : s[i] = q
    BY <1>1, <2>2, PrintedInOrder
  <2>4. ASSUME NEW i \in 1..n
        PROVE  Owed!Earlier(b, s[i]) \subseteq {s[j] : j \in 1..i - 1}
    BY <2>1, <2>3 DEF Owed!Earlier
  <2>5. Owed!Own(b)
    <3>1. page[b] = s
      BY DEF s
    <3>2. Owed!Shown(b) \subseteq Owed!Pieces(b)
      BY <1>3, <2>1, <2>3
    <3> QED
      BY <1>1, <2>3, <2>4, <3>1, <3>2 DEF Owed!Own
  <2>6. ASSUME Over(b) PROVE Owed!Complete(b)
    <3>1. proc[b].state \in {"zombie", "gone"}
      <4>1. PageInv(b) /\ proc[b].state \in States
        BY DEF IInv, PagesInv, TypesInv, Processes
      <4>2. b \notin proc[b].has /\ proc[b].state # "none"
        BY <2>6 DEF Over, Answered, Holders
      <4> QED
        BY <4>1, <4>2 DEF PageInv, States
    <3>2. n = Length + 1
      BY <3>1, PageHasLength DEF n, s
    <3>3. Answer(b) \subseteq Owed!Shown(b)
      BY <1>3, <2>3, <3>2
    <3> QED
      BY <1>5, <2>1, <3>3, AnswerHas DEF Owed!Complete, Owed!NoAnswer
  <2> QED
    BY <2>5, <2>6 DEF Fits
<1> QED
  BY <1>4, <1>5

(* A step asks for at most one more answer, and lengthens at most one page, *)
(* which is not over.                                                       *)
Longer(b) == page'[b] = page[b] \/ \E p : page'[b] = Append(page[b], p)

LEMMA StepOfOne ==
    ASSUME IInv, Next, NEW o \in Browser
    PROVE  /\ Asked(o) => Asked(o)'
           /\ Longer(o)
           /\ Over(o) => Over(o)' /\ page'[o] = page[o]
<1>1. PICK b \in Browser :
          Visit(b) \/ Accept(b) \/ ReadDone(b) \/ ReadFails(b) \/ Reap(b) \/ Child(b)
  BY DEF Next
<1> USE HttpAssumption
<1>2. TypesInv /\ LinksInv /\ PagesInv
  BY DEF IInv
<1>3. Asked(o) => Asked(o)'
  BY <1>1, <1>2 DEF TypesInv, Asked, Visit, Visits, Connects, Sends, Accept, ReadDone, ReadFails,
                    Reap, Child, Exec, Output, End
<1>4. Longer(o)
  <2>1. CASE UNCHANGED page
    BY <2>1 DEF Longer
  <2>2. ASSUME NEW p, page' = [page EXCEPT ![b] = Append(@, p)] PROVE Longer(o)
    <3>1. CASE o = b
      BY <1>2, <2>2, <3>1 DEF Longer, TypesInv
    <3>2. CASE o # b
      BY <1>2, <2>2, <3>2 DEF Longer, TypesInv
    <3> QED
      BY <3>1, <3>2
  <2>3. CASE Exec(b) \/ Output(b)
    BY <2>2, <2>3 DEF Exec, Output
  <2>4. CASE Visit(b) \/ Accept(b) \/ ReadDone(b) \/ ReadFails(b) \/ Reap(b) \/ End(b)
    BY <2>1, <2>4 DEF Visit, Accept, ReadDone, ReadFails, Reap, End
  <2> QED
    BY <1>1, <2>3, <2>4 DEF Child
<1>5. ASSUME Over(o) PROVE Over(o)' /\ page'[o] = page[o]
  <2>1. conn[o] = "closed" /\ Asked(o) /\ \A c \in Browser : o \notin proc[c].has
    BY <1>5 DEF Over, Answered, Holders
  <2>2. proc[o].state \in {"zombie", "gone"}
    <3>1. PageInv(o) /\ proc[o].state \in States /\ proc[o].state # "none"
      BY <1>2, <1>5 DEF PagesInv, TypesInv, Processes, Over, Answered
    <3> QED
      BY <2>1, <3>1 DEF PageInv, States
  <2>3. SUFFICES /\ conn'[o] = "closed" /\ proc'[o].state # "none" /\ page'[o] = page[o]
                 /\ \A c \in Browser : o \notin proc'[c].has
    BY <1>3, <2>1 DEF Over, Answered, Holders
  <2>4. CASE Visit(b) \/ Accept(b) \/ ReadFails(b)
    BY <1>2, <2>1, <2>2, <2>4 DEF TypesInv, Visit, Visits, Connects, Sends, Accept, Opened,
                                  ReadFails, Closed, server
  <2>5. ASSUME NEW f \in Browser, conn[f] = "open", NEW e,
               NEW children \in [Browser -> Processes], Forks(f, e, children), UNCHANGED page,
               children[o].state # "none", \A c \in Browser : o \notin children[c].has
        PROVE  /\ conn'[o] = "closed" /\ proc'[o].state # "none" /\ page'[o] = page[o]
               /\ \A c \in Browser : o \notin proc'[c].has
    <3>1. o # f /\ o \notin Unread
      BY <2>1, <2>5 DEF Unread
    <3>2. /\ proc'[f].has = Unread
          /\ \A c \in Browser \ {f} : proc'[c] = children[c] /\ conn'[c] = conn[c]
      BY <1>2, <2>5, ForkLinks
    <3> QED
      BY <2>1, <2>5, <3>1, <3>2
  <2>6. CASE ReadDone(b)
    <3>1. conn[b] = "open" /\ UNCHANGED page
      BY <2>6 DEF ReadDone
    <3>2. CASE Forks(b, environ', proc)
      <4>1. proc \in [Browser -> Processes]
        BY <1>2 DEF TypesInv
      <4>2. proc[o].state # "none"
        BY <2>2
      <4> QED
        BY <2>1, <2>5, <3>1, <3>2, <4>1, <4>2
    <3>3. CASE ForkFails(b)
      BY <2>1, <2>2, <3>1, <3>3 DEF ForkFails
    <3> QED
      BY <2>6, <3>2, <3>3 DEF ReadDone
  <2>7. CASE Reap(b)
    <3> DEFINE children == [proc EXCEPT ![b].state = "gone"]
    <3>1. PICK f \in Browser : f = forking
      BY <1>2, <2>7 DEF Reap, LinksInv
    <3>2. conn[f] = "open" /\ UNCHANGED page /\ Forks(f, environ, children)
      BY <1>2, <2>7, <3>1 DEF Reap, LinksInv
    <3>3. children \in [Browser -> Processes]
      BY <1>2 DEF TypesInv, Processes, States
    <3>4. /\ children[o].state # "none"
          /\ \A c \in Browser : children[c].has = proc[c].has
      BY <1>2, <2>2 DEF TypesInv, Processes
    <3> HIDE DEF children
    <3> QED
      BY <2>1, <2>5, <3>2, <3>3, <3>4
  <2>8. CASE Child(b)
    <3>1. conn' = conn
      BY <2>8 DEF Child, Exec, Output, End
    <3>2. o # b
      BY <2>2, <2>8 DEF Child, Exec, Output, End
    <3>3. proc'[o] = proc[o] /\ page'[o] = page[o]
      BY <1>2, <2>8, <3>2 DEF Child, Exec, Output, End, TypesInv
    <3>4. ASSUME NEW c \in Browser PROVE proc'[c].has \subseteq proc[c].has
      <4>1. CASE Exec(b)
        BY <1>2, <4>1 DEF Exec, TypesInv, Processes
      <4>2. CASE Output(b)
        BY <4>2 DEF Output
      <4>3. CASE End(b)
        BY <1>2, <4>3 DEF End, TypesInv, Processes
      <4> QED
        BY <2>8, <4>1, <4>2, <4>3 DEF Child
    <3> QED
      BY <2>1, <2>2, <3>1, <3>3, <3>4
  <2> QED
    BY <1>1, <2>4, <2>6, <2>7, <2>8
<1> QED
  BY <1>3, <1>4, <1>5

LEMMA LongerIsPrefix ==
    ASSUME NEW b \in Browser, page[b] \in Seq(PagePieces), Longer(b)
    PROVE  /\ Len(page[b]) <= Len(page'[b])
           /\ SubSeq(page'[b], 1, Len(page[b])) = page[b]
<1>1. CASE page'[b] = page[b]
  BY <1>1
<1>2. ASSUME NEW p, page'[b] = Append(page[b], p)
      PROVE  /\ Len(page[b]) <= Len(page'[b])
             /\ SubSeq(page'[b], 1, Len(page[b])) = page[b]
  BY <1>2
<1> QED
  BY <1>1, <1>2 DEF Longer

(* For any number of browsers and pages of any length: every browser gets   *)
(* the pieces of its own page, each once and in order, and no end before    *)
(* the page is complete, however the children and the server's one          *)
(* environment change meanwhile.                                            *)
THEOREM PagesAreAnswers == Spec => AnswersSpec
<1>1. Init => Owed!Init
  <2> SUFFICES ASSUME Init PROVE Owed!Init
    OBVIOUS
  <2>1. \A b \in Browser : ~Asked(b) /\ page[b] = <<>>
    BY HttpAssumption DEF Init, NoConnections, Asked
  <2>2. \A b \in Browser : AnswerTo(b) = [s \in Sources |-> 0]
    BY <2>1, AnswerHas
  <2>3. \A b \in Browser : Over(b) = FALSE
    BY <2>1 DEF Over, Answered
  <2> QED
    BY <2>2, <2>3 DEF Init, Owed!Init, Owed!NoAnswer
<1>2. IInv => \A b \in Browser : Fits(b)
  BY PageFits
<1>3. IInv /\ (\A b \in Browser : Fits(b))' /\ [Next]_vars => [Owed!Next]_Owed!vars
  <2> SUFFICES ASSUME IInv, (\A b \in Browser : Fits(b))', [Next]_vars
               PROVE  [Owed!Next]_Owed!vars
    OBVIOUS
  <2>1. CASE UNCHANGED vars
    BY <2>1 DEF vars, server, Owed!vars, AnswerTo, Over, Answered, Asked, Holders
  <2>2. CASE Next
    <3> SUFFICES ASSUME NEW b \in Browser
                 PROVE  Owed!Asks(b) /\ Owed!Shows(b) /\ Owed!Ends(b)
      BY DEF Owed!Next
    <3>1. /\ Asked(b) => Asked(b)'
          /\ Longer(b)
          /\ Over(b) => Over(b)' /\ page'[b] = page[b]
      BY <2>2, StepOfOne
    <3>2. Fits(b)'
      OBVIOUS
    <3>3. Owed!Asks(b)
      <4>1. CASE Asked(b)
        <5>1. Asked(b)' <=> Asked(b)
          BY <3>1, <4>1
        <5>2. AnswerTo(b)' = AnswerTo(b)
          BY <5>1 DEF AnswerTo
        <5> QED
          BY <5>2 DEF Owed!Asks
      <4>2. CASE ~Asked(b)
        BY <4>2, AnswerHas, PageHasLength DEF Owed!Asks, Owed!NoAnswer
      <4> QED
        BY <4>1, <4>2
    <3>4. Owed!Shows(b)
      <4>1. page[b] \in Seq(PagePieces)
        BY DEF IInv, TypesInv
      <4> QED
        BY <3>1, <3>2, <4>1, LongerIsPrefix DEF Owed!Shows, Fits
    <3>5. Owed!Ends(b)
      BY <3>1, <3>2 DEF Owed!Ends, Fits
    <3> QED
      BY <3>3, <3>4, <3>5
  <2> QED
    BY <2>1, <2>2
<1> QED
  BY <1>1, <1>2, <1>3, Inductive, PTL DEF Spec, AnswersSpec, Owed!Spec
=============================================================================
