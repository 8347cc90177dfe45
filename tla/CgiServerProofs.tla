-------------------------- MODULE CgiServerProofs --------------------------
(***************************************************************************)
(* Theorems about CgiServer for every set of browsers, slow or not, and    *)
(* consoles of any number of sessions that show any number of pieces: what *)
(* a write that is taken late can show, and that a quick browser gets its  *)
(* own page.  They rest on what is in an array, the piece that was written *)
(* from it last, and on the order the pieces are sent in.                  *)
(***************************************************************************)
EXTENDS CgiServer, FiniteSetTheorems, TLAPS

AnyPiece == [whose : Browser, from : Source, nth : Nat]

StateInv ==
    /\ conn \in [Browser -> {"away", "backlog", "open", "closed"}]
    /\ busy \in Browser \cup {NoOne}
    /\ buffer \in [Browser -> [Source -> AnyPiece]]
    /\ sent \in [Browser -> Seq(AnyPiece)]
    /\ page \in [Browser -> Seq(AnyPiece)]

(* Before the handler of its request a browser has been sent nothing.       *)
FreshInv == \A b \in Browser : conn[b] # "closed" /\ busy # b => sent[b] = <<>>

(* The array of a session holds its last piece, data_ that of the page; no  *)
(* piece sent from an array is later than the one in it.                    *)
ArrayInv(b) ==
    /\ \A s \in Source : buffer[b][s].from = s
    /\ \A s \in Session : buffer[b][s].nth = Count(b, s)
    /\ \A i \in DOMAIN sent[b] : sent[b][i].nth <= buffer[b][sent[b][i].from].nth

LateInv(b) ==
    /\ Len(page[b]) <= Len(sent[b])
    /\ \A i \in DOMAIN page[b] :
          /\ page[b][i].from = sent[b][i].from
          /\ page[b][i].nth >= sent[b][i].nth

IInv ==
    /\ StateInv /\ FreshInv
    /\ \A b \in Browser : ArrayInv(b) /\ LateInv(b)
-----------------------------------------------------------------------------
LEMMA AtStart == ASSUME Init PROVE IInv
<1>1. \A b \in Browser, s \in Source : buffer[b][s] = Empty(b, s) /\ Empty(b, s) \in AnyPiece
  BY DEF Init, Empty, Piece, AnyPiece
<1>2. \A b \in Browser : sent[b] = <<>> /\ page[b] = <<>>
  BY DEF Init
<1>3. StateInv
  <2>1. buffer \in [Browser -> [Source -> AnyPiece]]
    BY <1>1 DEF Init
  <2>2. <<>> \in Seq(AnyPiece)
    OBVIOUS
  <2> QED
    BY <2>1, <2>2 DEF Init, NoConnections, StateInv
<1>4. ASSUME NEW b \in Browser PROVE ArrayInv(b) /\ LateInv(b)
  <2>1. DOMAIN sent[b] = {} /\ DOMAIN page[b] = {} /\ Len(page[b]) = 0 /\ Len(sent[b]) = 0
    BY <1>2
  <2>2. \A s \in Session : Count(b, s) = 0
    BY <2>1, FS_EmptySet DEF Count
  <2>3. \A s \in Source : buffer[b][s].from = s /\ buffer[b][s].nth = 0
    <3>1. \A s \in Source : Empty(b, s).from = s /\ Empty(b, s).nth = 0
      BY DEF Empty, Piece
    <3> QED
      BY <1>1, <3>1
  <2> QED
    BY <2>1, <2>2, <2>3 DEF ArrayInv, LateInv, Source
<1> QED
  BY <1>2, <1>3, <1>4 DEF IInv, FreshInv

(* What a step leaves alone stays as it was.                                *)
LEMMA SameBrowser ==
    ASSUME NEW b \in Browser, ArrayInv(b), LateInv(b),
           buffer'[b] = buffer[b], sent'[b] = sent[b], page'[b] = page[b]
    PROVE  (ArrayInv(b) /\ LateInv(b))'
  BY DEF ArrayInv, LateInv, Count

(* A piece that is written goes to its array, the others stay.              *)
LEMMA WritesTo ==
    ASSUME StateInv, NEW b \in Browser, NEW pieces \in Seq(AnyPiece), pieces # <<>>, NEW n,
           Writes(b, pieces, n)
    PROVE  /\ buffer' \in [Browser -> [Source -> AnyPiece]]
           /\ sent' \in [Browser -> Seq(AnyPiece)] /\ page' \in [Browser -> Seq(AnyPiece)]
           /\ n \in 0..Len(pieces) /\ (Pending(b) => n = 0)
           /\ sent'[b] = sent[b] \o pieces /\ page'[b] = page[b] \o SubSeq(pieces, 1, n)
           /\ \A s \in Source :
                 buffer'[b][s] = IF s = Last(pieces).from THEN Last(pieces) ELSE buffer[b][s]
           /\ \A c \in Browser \ {b} :
                 buffer'[c] = buffer[c] /\ sent'[c] = sent[c] /\ page'[c] = page[c]
<1>1. n \in 0..Len(pieces) /\ (Pending(b) => n = 0)
  BY DEF Writes
<1>2. Last(pieces) \in AnyPiece /\ Last(pieces).from \in Source
  <2>1. Len(pieces) \in 1..Len(pieces)
    OBVIOUS
  <2>2. Last(pieces) \in AnyPiece
    BY <2>1 DEF Last
  <2> QED
    BY <2>2 DEF AnyPiece
<1>3. /\ buffer' = [buffer EXCEPT ![b][Last(pieces).from] = Last(pieces)]
      /\ sent' = [sent EXCEPT ![b] = @ \o pieces]
      /\ page' = [page EXCEPT ![b] = @ \o SubSeq(pieces, 1, n)]
  BY DEF Writes, Array
<1>4. /\ buffer \in [Browser -> [Source -> AnyPiece]]
      /\ sent \in [Browser -> Seq(AnyPiece)] /\ page \in [Browser -> Seq(AnyPiece)]
  BY DEF StateInv
<1>5. buffer' \in [Browser -> [Source -> AnyPiece]]
  BY <1>2, <1>3, <1>4
<1>6. SubSeq(pieces, 1, n) \in Seq(AnyPiece)
  BY <1>1
<1>7. sent[b] \o pieces \in Seq(AnyPiece) /\ page[b] \o SubSeq(pieces, 1, n) \in Seq(AnyPiece)
  BY <1>4, <1>6
<1>8. sent' \in [Browser -> Seq(AnyPiece)] /\ page' \in [Browser -> Seq(AnyPiece)]
  BY <1>3, <1>4, <1>7
<1>9. \A s \in Source :
         buffer'[b][s] = IF s = Last(pieces).from THEN Last(pieces) ELSE buffer[b][s]
  BY <1>2, <1>3, <1>4
<1>10. /\ sent'[b] = sent[b] \o pieces /\ page'[b] = page[b] \o SubSeq(pieces, 1, n)
       /\ \A c \in Browser \ {b} :
             buffer'[c] = buffer[c] /\ sent'[c] = sent[c] /\ page'[c] = page[c]
  BY <1>3, <1>4
<1> QED
  BY <1>1, <1>5, <1>8, <1>9, <1>10 DEF StateInv

(* Pieces that are taken at once are in the place they were sent.           *)
LEMMA TakenAtOnce ==
    ASSUME NEW s \in Seq(AnyPiece), NEW p \in Seq(AnyPiece), NEW t \in Seq(AnyPiece),
           NEW n \in 0..Len(t), Len(p) <= Len(s), Len(p) < Len(s) => n = 0,
           \A i \in DOMAIN p : p[i].from = s[i].from /\ p[i].nth >= s[i].nth
    PROVE  LET q == p \o SubSeq(t, 1, n)
               r == s \o t
           IN /\ Len(q) <= Len(r)
              /\ \A i \in DOMAIN q : q[i].from = r[i].from /\ q[i].nth >= r[i].nth
<1> DEFINE u == SubSeq(t, 1, n)
           q == p \o u
           r == s \o t
<1>1. u \in Seq(AnyPiece) /\ Len(u) = n /\ \A i \in 1..n : u[i] = t[i]
  OBVIOUS
<1> HIDE DEF u
<1>2. Len(q) = Len(p) + n /\ Len(r) = Len(s) + Len(t) /\ DOMAIN q = 1..Len(q)
  <2>1. q \in Seq(AnyPiece) /\ Len(q) = Len(p) + Len(u) /\ Len(r) = Len(s) + Len(t)
    BY <1>1
  <2> HIDE DEF q, r
  <2> QED
    BY <1>1, <2>1
<1>3. ASSUME NEW i \in 1..Len(p) PROVE q[i] = p[i] /\ r[i] = s[i]
  BY <1>1
<1>4. ASSUME NEW i \in 1..n, Len(p) = Len(s)
      PROVE  q[Len(p) + i] = t[i] /\ r[Len(p) + i] = t[i]
  BY <1>1, <1>4
<1>5. ASSUME NEW i \in DOMAIN q PROVE q[i].from = r[i].from /\ q[i].nth >= r[i].nth
  <2>1. CASE i \in 1..Len(p)
    BY <1>3, <2>1
  <2>2. CASE i > Len(p)
    <3>1. n # 0 /\ Len(p) = Len(s) /\ i - Len(p) \in 1..n /\ i = Len(p) + (i - Len(p))
      BY <1>2, <2>2
    <3>2. q[i] = t[i - Len(p)] /\ r[i] = t[i - Len(p)]
      BY <1>4, <3>1
    <3>3. t[i - Len(p)] \in AnyPiece
      BY <3>1
    <3> HIDE DEF q, r
    <3> QED
      BY <3>2, <3>3 DEF AnyPiece
  <2> QED
    BY <1>2, <2>1, <2>2
<1>6. Len(q) <= Len(r)
  <2>1. Len(p) \in Nat /\ Len(s) \in Nat /\ Len(t) \in Nat
    OBVIOUS
  <2> HIDE DEF q, r
  <2> QED
    BY <1>2, <2>1
<1> QED
  BY <1>5, <1>6 DEF u

LEMMA LateStep ==
    ASSUME StateInv, NEW b \in Browser, LateInv(b),
           NEW pieces \in Seq(AnyPiece), pieces # <<>>, NEW n, Writes(b, pieces, n)
    PROVE  LateInv(b)'
<1>1. /\ n \in 0..Len(pieces) /\ (Pending(b) => n = 0)
      /\ sent'[b] = sent[b] \o pieces /\ page'[b] = page[b] \o SubSeq(pieces, 1, n)
  <2>1. n \in 0..Len(pieces) /\ (Pending(b) => n = 0)
    BY DEF Writes
  <2>2. sent'[b] = sent[b] \o pieces /\ page'[b] = page[b] \o SubSeq(pieces, 1, n)
    BY DEF Writes, StateInv
  <2> QED
    BY <2>1, <2>2
<1>2. sent[b] \in Seq(AnyPiece) /\ page[b] \in Seq(AnyPiece)
  BY DEF StateInv
<1>3. /\ Len(page[b]) <= Len(sent[b]) /\ (Len(page[b]) < Len(sent[b]) => n = 0)
      /\ \A i \in DOMAIN page[b] :
            page[b][i].from = sent[b][i].from /\ page[b][i].nth >= sent[b][i].nth
  BY <1>1 DEF LateInv, Pending
<1> DEFINE q == page[b] \o SubSeq(pieces, 1, n)
           r == sent[b] \o pieces
<1>4. /\ Len(q) <= Len(r)
      /\ \A i \in DOMAIN q : q[i].from = r[i].from /\ q[i].nth >= r[i].nth
  BY <1>1, <1>2, <1>3, TakenAtOnce
<1>5. page'[b] = q /\ sent'[b] = r
  BY <1>1
<1> HIDE DEF q, r
<1> QED
  BY <1>4, <1>5 DEF LateInv

(* do_http_response: the first pieces, from data_.                          *)
LEMMA HeadingStep ==
    ASSUME IInv, NEW b \in Browser, NEW n, ReadDone(b, n)
    PROVE  (ArrayInv(b) /\ LateInv(b))'
<1> DEFINE pieces == Heading(b)
           m == IF request[b].page = "other" THEN 1 ELSE 3
<1>1. pieces \in Seq(AnyPiece) /\ Len(pieces) = m /\ pieces # <<>>
      /\ \A k \in 1..m : pieces[k] = Piece(b, "data_", k)
  <2>1. \A k \in 1..m : Piece(b, "data_", k) \in AnyPiece
    BY DEF Piece, AnyPiece, Source
  <2> QED
    BY <2>1 DEF Heading
<1>2. Writes(b, pieces, n) /\ sent[b] = <<>>
  BY CgiAssumption DEF ReadDone, IInv, FreshInv
<1>3. m \in {1, 3}
  OBVIOUS
<1> HIDE DEF pieces, m
<1>4. Last(pieces) = Piece(b, "data_", m)
  BY <1>1, <1>3 DEF Last
<1>5. /\ sent'[b] = sent[b] \o pieces
      /\ \A s \in Source :
            buffer'[b][s] = IF s = Last(pieces).from THEN Last(pieces) ELSE buffer[b][s]
  BY <1>1, <1>2, WritesTo DEF IInv
<1>6. sent'[b] = pieces
  BY <1>1, <1>2, <1>5
<1>7. Last(pieces).from = "data_" /\ Last(pieces).nth = m
  BY <1>4 DEF Piece
<1>8. \A i \in DOMAIN sent'[b] : sent'[b][i].from = "data_" /\ sent'[b][i].nth = i /\ i <= m
  <2>1. \A k \in 1..m : pieces[k].from = "data_" /\ pieces[k].nth = k
    BY <1>1 DEF Piece
  <2> QED
    BY <1>1, <1>6, <2>1
<1>9. ASSUME NEW s \in Session PROVE Count(b, s)' = Count(b, s)
  <2>1. {k \in DOMAIN sent'[b] : sent'[b][k].from = s} = {}
    BY <1>8, CgiAssumption
  <2>2. {k \in DOMAIN sent[b] : sent[b][k].from = s} = {}
    BY <1>2
  <2> QED
    BY <2>1, <2>2 DEF Count
<1>10. ArrayInv(b)'
  <2>1. ArrayInv(b) /\ "data_" \in Source /\ "data_" \notin Session
    BY CgiAssumption DEF IInv, Source
  <2>2. \A s \in Source : buffer'[b][s].from = s
    BY <1>5, <1>7, <2>1 DEF ArrayInv
  <2>3. \A s \in Session : buffer'[b][s].nth = Count(b, s)'
    BY <1>5, <1>7, <1>9, <2>1 DEF ArrayInv, Source
  <2>4. \A i \in DOMAIN sent'[b] : sent'[b][i].nth <= buffer'[b][sent'[b][i].from].nth
    BY <1>5, <1>7, <1>8, <2>1
  <2> QED
    BY <2>2, <2>3, <2>4 DEF ArrayInv
<1>11. LateInv(b)'
  BY <1>1, <1>2, LateStep DEF IInv
<1> QED
  BY <1>10, <1>11

(* How many of the pieces of a sequence come from s, with one more piece.   *)
LEMMA OneMore ==
    ASSUME NEW t \in Seq(AnyPiece), NEW p \in AnyPiece, NEW s
    PROVE  LET old == {k \in DOMAIN t : t[k].from = s}
               new == {k \in DOMAIN (t \o <<p>>) : (t \o <<p>>)[k].from = s}
           IN /\ Cardinality(old) \in Nat
              /\ Cardinality(new) = Cardinality(old) + (IF p.from = s THEN 1 ELSE 0)
<1> DEFINE r == t \o <<p>>
           last == Len(t) + 1
           old == {k \in DOMAIN t : t[k].from = s}
           new == {k \in DOMAIN r : r[k].from = s}
<1>1. DOMAIN t = 1..Len(t) /\ Len(t) \in Nat
  OBVIOUS
<1>2. DOMAIN r = 1..last /\ r[last] = p /\ \A k \in 1..Len(t) : r[k] = t[k]
  OBVIOUS
<1> HIDE DEF r
<1>3. IsFiniteSet(1..Len(t))
  BY <1>1, FS_Interval
<1>4. IsFiniteSet(old)
  BY <1>1, <1>3, FS_Subset
<1>5. last \notin old
  BY <1>1
<1>6. new = IF p.from = s THEN old \cup {last} ELSE old
  BY <1>1, <1>2
<1>7. Cardinality(old) \in Nat
  BY <1>4, FS_CardinalityType
<1>8. Cardinality(old \cup {last}) = Cardinality(old) + 1
  BY <1>4, <1>5, FS_AddElement
<1> HIDE DEF old, new
<1>9. Cardinality(new) = Cardinality(old) + (IF p.from = s THEN 1 ELSE 0)
  BY <1>6, <1>7, <1>8
<1> QED
  BY <1>7, <1>9 DEF old, new, r

LEMMA OutputStep ==
    ASSUME IInv, NEW b \in Browser, NEW s \in Session, NEW n, Output(b, s, n)
    PROVE  (ArrayInv(b) /\ LateInv(b))'
<1> DEFINE p == Piece(b, s, Count(b, s) + 1)
<1>1. sent[b] \in Seq(AnyPiece) /\ ArrayInv(b) /\ s \in Source
  BY DEF IInv, StateInv, Source
<1>2. \A t \in Session : Count(b, t) \in Nat
  <2>1. Empty(b, s) \in AnyPiece
    BY <1>1 DEF Empty, Piece, AnyPiece
  <2> QED
    BY <1>1, <2>1, OneMore DEF Count
<1>3. p \in AnyPiece /\ p.from = s /\ p.nth = Count(b, s) + 1
  BY <1>1, <1>2 DEF Piece, AnyPiece
<1>4. Writes(b, <<p>>, n)
  BY DEF Output
<1> HIDE DEF p
<1>5. <<p>> \in Seq(AnyPiece) /\ <<p>> # <<>> /\ Last(<<p>>) = p
  BY <1>3 DEF Last
<1>6. /\ sent'[b] = sent[b] \o <<p>>
      /\ \A t \in Source : buffer'[b][t] = IF t = s THEN p ELSE buffer[b][t]
  <2>1. /\ sent'[b] = sent[b] \o <<p>>
        /\ \A t \in Source :
              buffer'[b][t] = IF t = Last(<<p>>).from THEN Last(<<p>>) ELSE buffer[b][t]
    BY <1>4, <1>5, WritesTo DEF IInv
  <2> QED
    BY <1>3, <1>5, <2>1
<1>7. ASSUME NEW t \in Session
      PROVE  Count(b, t)' = Count(b, t) + (IF t = s THEN 1 ELSE 0)
  <2> DEFINE r == sent[b] \o <<p>>
  <2>1. Cardinality({k \in DOMAIN r : r[k].from = t})
          = Cardinality({k \in DOMAIN sent[b] : sent[b][k].from = t}) + (IF t = s THEN 1 ELSE 0)
    BY <1>1, <1>3, OneMore
  <2>2. sent'[b] = r
    BY <1>6
  <2> HIDE DEF r
  <2> QED
    BY <2>1, <2>2 DEF Count
<1>8. \A t \in Session : buffer'[b][t].nth = Count(b, t)'
  <2>1. ASSUME NEW t \in Session PROVE buffer'[b][t].nth = Count(b, t)'
    <3>1. buffer[b][t].nth = Count(b, t) /\ t \in Source /\ Count(b, t) \in Nat
      BY <1>1, <1>2 DEF ArrayInv, Source
    <3> QED
      BY <1>3, <1>6, <1>7, <3>1
  <2> QED
    BY <2>1
<1>9. \A t \in Source : buffer'[b][t].from = t
  BY <1>1, <1>3, <1>6 DEF ArrayInv
<1>10. \A t \in Source : /\ buffer[b][t].nth <= buffer'[b][t].nth
                        /\ buffer[b][t].nth \in Nat /\ buffer'[b][t].nth \in Nat
  <2>1. \A t \in Source : buffer[b][t].nth \in Nat
    BY DEF IInv, StateInv, AnyPiece
  <2>2. buffer[b][s].nth = Count(b, s)
    BY <1>1 DEF ArrayInv
  <2> QED
    BY <1>2, <1>3, <1>6, <2>1, <2>2
<1>11. ASSUME NEW i \in DOMAIN sent'[b]
       PROVE  sent'[b][i].nth <= buffer'[b][sent'[b][i].from].nth
  <2>1. /\ DOMAIN sent'[b] = 1..Len(sent[b]) + 1 /\ sent'[b][Len(sent[b]) + 1] = p
        /\ \A k \in 1..Len(sent[b]) : sent'[b][k] = sent[b][k]
        /\ DOMAIN sent[b] = 1..Len(sent[b]) /\ Len(sent[b]) \in Nat
    BY <1>1, <1>6
  <2>2. CASE i = Len(sent[b]) + 1
    BY <1>1, <1>2, <1>3, <1>6, <2>1, <2>2
  <2>3. CASE i \in 1..Len(sent[b])
    <3>1. sent[b][i] \in AnyPiece /\ sent[b][i].nth <= buffer[b][sent[b][i].from].nth
      BY <1>1, <2>1, <2>3 DEF ArrayInv
    <3>2. sent[b][i].from \in Source /\ sent[b][i].nth \in Nat
      BY <3>1 DEF AnyPiece
    <3>3. sent'[b][i] = sent[b][i]
      BY <2>1, <2>3
    <3>4. buffer[b][sent[b][i].from].nth <= buffer'[b][sent[b][i].from].nth
      BY <1>10, <3>2
    <3>5. /\ buffer[b][sent[b][i].from].nth \in Nat
          /\ buffer'[b][sent[b][i].from].nth \in Nat
      BY <1>10, <3>2
    <3> QED
      BY <3>1, <3>2, <3>3, <3>4, <3>5
  <2> QED
    BY <2>1, <2>2, <2>3
<1>12. LateInv(b)'
  BY <1>4, <1>5, LateStep DEF IInv
<1> QED
  BY <1>8, <1>9, <1>11, <1>12 DEF ArrayInv

(* A write that is taken late: the array holds a piece of the same session, *)
(* and no older one.                                                        *)
LEMMA TakenStep ==
    ASSUME IInv, NEW b \in Browser, Taken(b)
    PROVE  /\ page' \in [Browser -> Seq(AnyPiece)]
           /\ \A c \in Browser \ {b} : page'[c] = page[c]
           /\ (ArrayInv(b) /\ LateInv(b))'
<1> DEFINE next == Len(page[b]) + 1
           p == buffer[b][sent[b][next].from]
<1>1. /\ sent[b] \in Seq(AnyPiece) /\ page[b] \in Seq(AnyPiece)
      /\ ArrayInv(b) /\ LateInv(b) /\ Len(page[b]) < Len(sent[b])
  BY DEF IInv, StateInv, Taken, Pending
<1>2. /\ page' = [page EXCEPT ![b] = Append(@, p)]
      /\ UNCHANGED <<buffer, sent>> /\ page \in [Browser -> Seq(AnyPiece)]
  BY DEF Taken, Array, IInv, StateInv
<1>3. next \in DOMAIN sent[b] /\ sent[b][next] \in AnyPiece
  BY <1>1
<1>4. sent[b][next].from \in Source
  BY <1>3 DEF AnyPiece
<1>5. p \in AnyPiece /\ p.from = sent[b][next].from /\ p.nth >= sent[b][next].nth
  <2>1. p \in AnyPiece
    BY <1>4 DEF IInv, StateInv
  <2>2. p.from = sent[b][next].from /\ sent[b][next].nth <= p.nth
    BY <1>1, <1>3, <1>4 DEF ArrayInv
  <2> QED
    BY <1>3, <2>1, <2>2 DEF AnyPiece
<1> HIDE DEF p
<1>6. /\ page' \in [Browser -> Seq(AnyPiece)] /\ page'[b] = Append(page[b], p)
      /\ \A c \in Browser \ {b} : page'[c] = page[c]
  BY <1>2, <1>5
<1>7. ArrayInv(b)'
  BY <1>1, <1>2 DEF ArrayInv, Count
<1>8. LateInv(b)'
  <2>1. /\ Len(page'[b]) = next /\ DOMAIN page'[b] = 1..next /\ page'[b][next] = p
        /\ \A i \in 1..Len(page[b]) : page'[b][i] = page[b][i]
        /\ DOMAIN page[b] = 1..Len(page[b]) /\ next <= Len(sent[b]) /\ Len(page[b]) \in Nat
    BY <1>1, <1>6
  <2>2. ASSUME NEW i \in 1..next
        PROVE  page'[b][i].from = sent[b][i].from /\ page'[b][i].nth >= sent[b][i].nth
    <3>1. CASE i = next
      BY <1>5, <2>1, <3>1
    <3>2. CASE i \in 1..Len(page[b])
      BY <1>1, <2>1, <3>2 DEF LateInv
    <3> QED
      BY <2>1, <3>1, <3>2
  <2> HIDE DEF next
  <2> QED
    BY <1>2, <2>1, <2>2 DEF LateInv
<1> QED
  BY <1>6, <1>7, <1>8

LEMMA Inductive ==
    ASSUME IInv, Next
    PROVE  IInv'
<1> USE CgiAssumption
<1>1. PICK b \in Browser : Visit(b) \/ Handler(b) \/ Taken(b)
  BY DEF Next
<1>2. ASSUME UNCHANGED <<buffer, sent, page>>,
             conn' \in [Browser -> {"away", "backlog", "open", "closed"}],
             busy' \in Browser \cup {NoOne}, FreshInv'
      PROVE  IInv'
  <2>1. \A c \in Browser : ArrayInv(c)' /\ LateInv(c)'
    BY <1>2, SameBrowser DEF IInv
  <2> QED
    BY <1>2, <2>1 DEF IInv, StateInv
<1>3. ASSUME NEW n, NEW pieces \in Seq(AnyPiece), pieces # <<>>, Writes(b, pieces, n),
             (ArrayInv(b) /\ LateInv(b))',
             conn' \in [Browser -> {"away", "backlog", "open", "closed"}],
             busy' \in Browser \cup {NoOne}, FreshInv'
      PROVE  IInv'
  <2>1. /\ buffer' \in [Browser -> [Source -> AnyPiece]]
        /\ sent' \in [Browser -> Seq(AnyPiece)] /\ page' \in [Browser -> Seq(AnyPiece)]
        /\ \A c \in Browser \ {b} :
              buffer'[c] = buffer[c] /\ sent'[c] = sent[c] /\ page'[c] = page[c]
    BY <1>3, WritesTo DEF IInv
  <2>2. \A c \in Browser \ {b} : ArrayInv(c)' /\ LateInv(c)'
    BY <2>1, SameBrowser DEF IInv
  <2> QED
    BY <1>3, <2>1, <2>2 DEF IInv, StateInv
<1>4. CASE Visit(b)
  <2>1. /\ conn' \in [Browser -> {"away", "backlog", "open", "closed"}]
        /\ UNCHANGED <<busy, buffer, sent, page>>
        /\ \A c \in Browser : conn'[c] # "closed" => conn[c] # "closed"
    BY <1>4 DEF Visit, Visits, Connects, Sends, IInv, StateInv
  <2> QED
    BY <1>2, <2>1 DEF IInv, StateInv, FreshInv
<1>5. CASE Accept(b)
  <2>1. /\ conn' \in [Browser -> {"away", "backlog", "open", "closed"}]
        /\ UNCHANGED <<busy, buffer, sent, page>>
        /\ \A c \in Browser : conn'[c] # "closed" => conn[c] # "closed"
    BY <1>5 DEF Accept, Opened, IInv, StateInv
  <2> QED
    BY <1>2, <2>1 DEF IInv, StateInv, FreshInv
<1>6. CASE ReadFails(b) \/ ConsoleEnds(b)
  <2>1. /\ conn' \in [Browser -> {"away", "backlog", "open", "closed"}]
        /\ UNCHANGED <<buffer, sent, page>> /\ busy' \in {busy, NoOne}
        /\ conn'[b] = "closed" /\ \A c \in Browser \ {b} : conn'[c] = conn[c]
        /\ busy' = busy \/ busy = b
    BY <1>6 DEF ReadFails, ConsoleEnds, Closed, IInv, StateInv
  <2>2. FreshInv'
    BY <2>1 DEF IInv, FreshInv
  <2> QED
    BY <1>2, <2>1, <2>2 DEF IInv, StateInv
<1>7. ASSUME NEW n, ReadDone(b, n) PROVE IInv'
  <2>1. /\ Writes(b, Heading(b), n) /\ busy = NoOne
        /\ conn' \in [Browser -> {"away", "backlog", "open", "closed"}]
        /\ busy' \in Browser \cup {NoOne} /\ (conn'[b] = "closed" \/ busy' = b)
        /\ \A c \in Browser \ {b} : conn'[c] = conn[c]
    BY <1>7 DEF ReadDone, Closed, IInv, StateInv
  <2>2. Heading(b) \in Seq(AnyPiece) /\ Heading(b) # <<>>
    BY DEF Heading, Piece, AnyPiece, Source
  <2>3. \A c \in Browser \ {b} : sent'[c] = sent[c]
    BY <2>1 DEF Writes, IInv, StateInv
  <2>4. FreshInv'
    BY <2>1, <2>3 DEF IInv, FreshInv
  <2> QED
    BY <1>3, <1>7, <2>1, <2>2, <2>4, HeadingStep
<1>8. ASSUME NEW s \in Session, NEW n, Output(b, s, n) PROVE IInv'
  <2> DEFINE p == Piece(b, s, Count(b, s) + 1)
  <2>1. /\ Writes(b, <<p>>, n) /\ busy = b /\ UNCHANGED <<conn, busy>>
    BY <1>8 DEF Output
  <2>2. p \in AnyPiece
    <3>1. Empty(b, s) \in AnyPiece /\ sent[b] \in Seq(AnyPiece) /\ s \in Source
      BY DEF Empty, Piece, AnyPiece, Source, IInv, StateInv
    <3>2. Count(b, s) \in Nat
      BY <3>1, OneMore DEF Count
    <3> QED
      BY <3>1, <3>2 DEF Piece, AnyPiece
  <2> HIDE DEF p
  <2>3. <<p>> \in Seq(AnyPiece) /\ <<p>> # <<>>
    BY <2>2
  <2>4. \A c \in Browser \ {b} : sent'[c] = sent[c]
    BY <2>1 DEF Writes, IInv, StateInv
  <2>5. FreshInv'
    BY <2>1, <2>4 DEF IInv, FreshInv
  <2>6. /\ conn' \in [Browser -> {"away", "backlog", "open", "closed"}]
        /\ busy' \in Browser \cup {NoOne}
    BY <2>1 DEF IInv, StateInv
  <2> QED
    BY <1>3, <1>8, <2>1, <2>3, <2>5, <2>6, OutputStep
<1>9. CASE Taken(b)
  <2>1. UNCHANGED <<conn, busy, buffer, sent>>
    BY <1>9 DEF Taken
  <2>2. /\ page' \in [Browser -> Seq(AnyPiece)]
        /\ \A c \in Browser \ {b} : page'[c] = page[c]
        /\ (ArrayInv(b) /\ LateInv(b))'
    BY <1>9, TakenStep
  <2>3. \A c \in Browser \ {b} : ArrayInv(c)' /\ LateInv(c)'
    BY <2>1, <2>2, SameBrowser DEF IInv
  <2> QED
    BY <2>1, <2>2, <2>3 DEF IInv, StateInv, FreshInv
<1> QED
  BY <1>1, <1>4, <1>5, <1>6, <1>7, <1>8, <1>9 DEF Handler

(* However late the writes of a page are taken, and however often its       *)
(* arrays are used again meanwhile: each shows a piece of the session it    *)
(* was for, never an older one than was sent, in the place it was sent.     *)
THEOREM LateWritesStay == Spec => []LateWrites
<1>1. Init => IInv
  BY AtStart
<1>2. IInv /\ [Next]_vars => IInv'
  <2>1. IInv /\ UNCHANGED vars => IInv'
    BY SameBrowser DEF vars, IInv, StateInv, FreshInv
  <2> QED
    BY <2>1, Inductive
<1>3. IInv => LateWrites
  BY DEF IInv, LateInv, LateWrites
<1> QED
  BY <1>1, <1>2, <1>3, PTL DEF Spec
-----------------------------------------------------------------------------
(* The other half of the argument: the pieces of a browser are sent in an   *)
(* order that fits its answer, as many of each session as its array has     *)
(* held; the handler that has everything sent is the only one that closes.  *)
Before(p, q) ==
    \/ q.from = p.from /\ q.nth < p.nth
    \/ q.from = "data_" /\ p.from # "data_"

InOrder(s, pieces) ==
    /\ \A i \in DOMAIN s : s[i] \in pieces
    /\ \A i, j \in DOMAIN s : s[i] = s[j] => i = j
    /\ \A i \in DOMAIN s, q \in pieces : Before(s[i], q) => \E j \in 1..i - 1 : s[j] = q

HeldInv(b) ==
    \A s \in Source :
        /\ buffer[b][s].nth \in 0..AnswerTo(b)[s]
        /\ buffer[b][s] = Piece(b, s, buffer[b][s].nth)
        /\ \A k \in 1..buffer[b][s].nth : \E i \in DOMAIN sent[b] : sent[b][i] = Piece(b, s, k)

ProgressInv(b) ==
    /\ busy = b => conn[b] = "open" /\ IsConsole(b)
                   /\ buffer[b]["data_"].nth = AnswerTo(b)["data_"]
    /\ Over(b) => \A s \in Source : buffer[b][s].nth = AnswerTo(b)[s]

PageInv(b) ==
    /\ \A i \in DOMAIN page[b] : page[b][i] \in PiecesOf(b)
    /\ b \notin Slow => page[b] = sent[b]

OfOne(b) == InOrder(sent[b], PiecesOf(b)) /\ HeldInv(b) /\ ProgressInv(b) /\ PageInv(b)

AnswerInv ==
    /\ request \in [Browser -> Request \cup {Nothing, Leaves}]
    /\ \A b \in Browser : OfOne(b)
-----------------------------------------------------------------------------
LEMMA AnswerHas ==
    ASSUME NEW b \in Browser
    PROVE  /\ AnswerTo(b) \in [Source -> Nat]
           /\ ~Asked(b) => AnswerTo(b) = [s \in Source |-> 0]
           /\ Asked(b) =>
                /\ AnswerTo(b)["data_"] = (IF request[b].page = "other" THEN 1 ELSE 3)
                /\ \A s \in Session : AnswerTo(b)[s] = request[b].shows[s]
<1> USE CgiAssumption DEF Source
<1>1. Len(Heading(b)) = IF request[b].page = "other" THEN 1 ELSE 3
  BY DEF Heading
<1>2. CASE ~Asked(b)
  <2>1. \A s \in Source : AnswerTo(b)[s] = 0
    BY <1>2 DEF AnswerTo
  <2> QED
    BY <1>2, <2>1 DEF AnswerTo
<1>3. CASE Asked(b)
  <2>1. request[b].shows \in [Session -> Nat]
    BY <1>3 DEF Asked
  <2>2. AnswerTo(b)["data_"] = Len(Heading(b))
    BY <1>3 DEF AnswerTo
  <2>3. ASSUME NEW s \in Session PROVE AnswerTo(b)[s] = request[b].shows[s]
    BY <1>3 DEF AnswerTo
  <2>4. \A s \in Source : AnswerTo(b)[s] \in Nat
    BY <1>1, <2>1, <2>2, <2>3
  <2>5. AnswerTo(b) = [s \in Source |-> AnswerTo(b)[s]]
    BY DEF AnswerTo
  <2> QED
    BY <1>1, <1>3, <2>2, <2>3, <2>4, <2>5
<1> QED
  BY <1>2, <1>3

LEMMA AnswerCounts == \A b \in Browser : AnswerTo(b) \in [Source -> Nat]
  BY AnswerHas

LEMMA AnswerCountsNext == \A b \in Browser : AnswerTo(b)' \in [Source -> Nat]
<1>1. (\A b \in Browser : AnswerTo(b) \in [Source -> Nat])'
  BY AnswerCounts, PTL
<1> QED
  BY <1>1

LEMMA PieceIs ==
    ASSUME NEW b, NEW s, NEW k
    PROVE  Piece(b, s, k).whose = b /\ Piece(b, s, k).from = s /\ Piece(b, s, k).nth = k
  BY DEF Piece

LEMMA PiecesAre ==
    ASSUME NEW b \in Browser
    PROVE  /\ \A s \in Source : \A k \in 1..AnswerTo(b)[s] : Piece(b, s, k) \in PiecesOf(b)
           /\ \A p \in PiecesOf(b) :
                p.from \in Source /\ p.nth \in 1..AnswerTo(b)[p.from] /\ p = Piece(b, p.from, p.nth)
           /\ ~Asked(b) => PiecesOf(b) = {}
<1>1. \A s \in Source : \A k \in 1..AnswerTo(b)[s] : Piece(b, s, k) \in PiecesOf(b)
  BY DEF PiecesOf
<1>2. ASSUME NEW p \in PiecesOf(b)
      PROVE  p.from \in Source /\ p.nth \in 1..AnswerTo(b)[p.from] /\ p = Piece(b, p.from, p.nth)
  <2>1. PICK s \in Source : \E k \in 1..AnswerTo(b)[s] : p = Piece(b, s, k)
    BY DEF PiecesOf
  <2>2. PICK k \in 1..AnswerTo(b)[s] : p = Piece(b, s, k)
    BY <2>1
  <2>3. p.from = s /\ p.nth = k
    BY <2>2, PieceIs
  <2> QED
    BY <2>2, <2>3
<1>3. ASSUME ~Asked(b) PROVE PiecesOf(b) = {}
  <2>1. \A s \in Source : AnswerTo(b)[s] = 0
    BY <1>3, AnswerHas
  <2> QED
    BY <1>2, <2>1
<1> QED
  BY <1>1, <1>2, <1>3

(* The next piece of a source, after the head, goes on in order.            *)
LEMMA OneMoreInOrder ==
    ASSUME NEW s \in Seq(AnyPiece), NEW pieces, InOrder(s, pieces), NEW p \in pieces,
           \A i \in DOMAIN s : s[i] # p,
           \A q \in pieces : Before(p, q) => \E j \in DOMAIN s : s[j] = q
    PROVE  InOrder(s \o <<p>>, pieces)
<1> DEFINE t == s \o <<p>>
           n == Len(s)
<1>1. /\ n \in Nat /\ DOMAIN s = 1..n /\ DOMAIN t = 1..n + 1
      /\ t[n + 1] = p /\ \A i \in 1..n : t[i] = s[i]
  OBVIOUS
<1> HIDE DEF t, n
<1>2. \A i \in 1..n + 1 : i \in 1..n \/ i = n + 1
  BY <1>1
<1>3. \A i \in 1..n + 1 : t[i] \in pieces
  BY <1>1, <1>2 DEF InOrder
<1>4. \A i, j \in 1..n + 1 : t[i] = t[j] => i = j
  BY <1>1, <1>2 DEF InOrder
<1>5. ASSUME NEW i \in 1..n + 1, NEW q \in pieces, Before(t[i], q)
      PROVE  \E j \in 1..i - 1 : t[j] = q
  <2>1. CASE i = n + 1
    <3>1. PICK j \in 1..n : s[j] = q
      BY <1>1, <1>5, <2>1
    <3>2. j \in 1..i - 1 /\ t[j] = q
      BY <1>1, <2>1, <3>1
    <3> QED
      BY <3>2
  <2>2. CASE i \in 1..n
    <3>1. PICK j \in 1..i - 1 : s[j] = q
      BY <1>1, <1>5, <2>2 DEF InOrder
    <3>2. j \in 1..n
      BY <1>1, <2>2, <3>1
    <3> QED
      BY <1>1, <3>1, <3>2
  <2> QED
    BY <1>2, <2>1, <2>2
<1> QED
  BY <1>1, <1>3, <1>4, <1>5 DEF InOrder, t

(* Of a browser whose answer, pieces and arrays a step leaves alone.        *)
LEMMA SameAnswer ==
    ASSUME NEW b \in Browser, OfOne(b), request'[b] = request[b],
           buffer'[b] = buffer[b], sent'[b] = sent[b]
    PROVE  /\ Asked(b)' = Asked(b) /\ AnswerTo(b)' = AnswerTo(b) /\ PiecesOf(b)' = PiecesOf(b)
           /\ InOrder(sent[b], PiecesOf(b))' /\ HeldInv(b)'
           /\ page'[b] = page[b] => PageInv(b)'
           /\ conn'[b] = conn[b] /\ (busy' = b => busy = b) => ProgressInv(b)'
<1>1. Asked(b)' = Asked(b) /\ AnswerTo(b)' = AnswerTo(b)
  BY DEF Asked, AnswerTo, Heading
<1>2. PiecesOf(b)' = PiecesOf(b)
  BY <1>1 DEF PiecesOf
<1>3. InOrder(sent[b], PiecesOf(b))'
  BY <1>2 DEF OfOne
<1>4. HeldInv(b)'
  BY <1>1 DEF OfOne, HeldInv
<1>5. page'[b] = page[b] => PageInv(b)'
  BY <1>2 DEF OfOne, PageInv
<1>6. conn'[b] = conn[b] /\ (busy' = b => busy = b) => ProgressInv(b)'
  BY <1>1 DEF OfOne, ProgressInv, IsConsole, Over, Asked
<1> QED
  BY <1>1, <1>2, <1>3, <1>4, <1>5, <1>6

(* Before anything is sent, nothing is held, and nothing on the page.       *)
LEMMA NothingSent ==
    ASSUME StateInv, NEW b \in Browser, OfOne(b), LateInv(b), sent[b] = <<>>
    PROVE  (\A s \in Source : buffer[b][s].nth = 0) /\ page[b] = <<>>
<1>1. DOMAIN sent[b] = {} /\ Len(sent[b]) = 0
  OBVIOUS
<1>2. ASSUME NEW s \in Source PROVE buffer[b][s].nth = 0
  <2>1. buffer[b][s].nth \in 0..AnswerTo(b)[s] /\ AnswerTo(b)[s] \in Nat
    BY AnswerHas DEF OfOne, HeldInv
  <2>2. \A k \in 1..buffer[b][s].nth : FALSE
    BY <1>1 DEF OfOne, HeldInv
  <2> QED
    BY <2>1, <2>2
<1>3. page[b] \in Seq(AnyPiece) /\ Len(page[b]) = 0
  BY <1>1 DEF LateInv, StateInv
<1> QED
  BY <1>2, <1>3

(* A browser asks: until then nothing has been sent to it.                  *)
LEMMA AskStep ==
    ASSUME IInv, AnswerInv, NEW b \in Browser, ~Asked(b), busy # b, conn[b] # "closed",
           UNCHANGED <<conn, busy, buffer, sent, page>>
    PROVE  OfOne(b)' /\ sent[b] = <<>> /\ page[b] = <<>>
<1>1. OfOne(b) /\ StateInv /\ LateInv(b) /\ PiecesOf(b) = {}
  BY PiecesAre DEF AnswerInv, IInv
<1>2. sent[b] = <<>>
  <2>1. DOMAIN sent[b] = {}
    BY <1>1 DEF OfOne, InOrder
  <2>2. sent[b] \in Seq(AnyPiece)
    BY <1>1 DEF StateInv
  <2> QED
    BY <2>1, <2>2
<1>3. page[b] = <<>> /\ \A s \in Source : buffer[b][s].nth = 0
  BY <1>1, <1>2, NothingSent
<1>4. DOMAIN sent[b] = {}
  BY <1>2
<1>5. InOrder(sent[b], PiecesOf(b))'
  <2>1. DOMAIN sent'[b] = {}
    BY <1>4
  <2> QED
    BY <2>1 DEF InOrder
<1>6. HeldInv(b)'
  <2>1. AnswerTo(b)' \in [Source -> Nat]
    BY AnswerCountsNext
  <2> QED
    BY <1>1, <1>3, <2>1 DEF OfOne, HeldInv
<1>7. ProgressInv(b)' /\ PageInv(b)'
  <2>1. DOMAIN page'[b] = {} /\ page'[b] = sent'[b]
    BY <1>2, <1>3
  <2> QED
    BY <2>1 DEF ProgressInv, PageInv, Over
<1> QED
  BY <1>2, <1>3, <1>5, <1>6, <1>7 DEF OfOne

(* do_http_response: the head in its order; without a console it is all.    *)
LEMMA HeadAnswers ==
    ASSUME IInv, AnswerInv, NEW b \in Browser, NEW n, ReadDone(b, n)
    PROVE  OfOne(b)'
<1> DEFINE pieces == Heading(b)
           m == IF request[b].page = "other" THEN 1 ELSE 3
<1>1. /\ pieces \in Seq(AnyPiece) /\ Len(pieces) = m /\ DOMAIN pieces = 1..m /\ pieces # <<>>
      /\ \A k \in 1..m : pieces[k] = Piece(b, "data_", k)
  <2>1. \A k \in 1..m : Piece(b, "data_", k) \in AnyPiece
    BY DEF Piece, AnyPiece, Source
  <2> QED
    BY <2>1 DEF Heading
<1>2. /\ Writes(b, pieces, n) /\ sent[b] = <<>> /\ Asked(b) /\ conn[b] = "open" /\ busy = NoOne
      /\ UNCHANGED request
      /\ \/ IsConsole(b) /\ busy' = b /\ UNCHANGED conn
         \/ ~IsConsole(b) /\ Closed(b) /\ UNCHANGED busy
  BY CgiAssumption DEF ReadDone, IInv, FreshInv
<1>3. /\ AnswerTo(b)["data_"] = m /\ m \in 1..m /\ m \in Nat
      /\ \A s \in Session : AnswerTo(b)[s] = request[b].shows[s]
  BY <1>2, AnswerHas
<1> HIDE DEF pieces, m
<1>4. Last(pieces) = Piece(b, "data_", m)
  BY <1>1 DEF Last
<1>5. /\ sent'[b] = sent[b] \o pieces /\ page'[b] = page[b] \o SubSeq(pieces, 1, n)
      /\ \A s \in Source :
            buffer'[b][s] = IF s = "data_" THEN Piece(b, "data_", m) ELSE buffer[b][s]
      /\ n \in 0..m
  <2>1. Last(pieces).from = "data_"
    BY <1>4, PieceIs
  <2>2. /\ sent'[b] = sent[b] \o pieces
        /\ \A s \in Source :
              buffer'[b][s] = IF s = Last(pieces).from THEN Last(pieces) ELSE buffer[b][s]
    BY <1>1, <1>2, WritesTo DEF IInv
  <2>3. n \in 0..Len(pieces) /\ page'[b] = page[b] \o SubSeq(pieces, 1, n)
    BY <1>2 DEF Writes, IInv, StateInv
  <2> QED
    BY <1>1, <1>4, <2>1, <2>2, <2>3
<1>6. OfOne(b) /\ LateInv(b) /\ StateInv
  BY DEF AnswerInv, IInv
<1>7. (\A s \in Source : buffer[b][s].nth = 0) /\ page[b] = <<>>
  BY <1>2, <1>6, NothingSent
<1>8. sent'[b] = pieces /\ page'[b] = SubSeq(pieces, 1, n)
  <2>1. SubSeq(pieces, 1, n) \in Seq(AnyPiece)
    BY <1>1, <1>5
  <2> QED
    BY <1>1, <1>2, <1>5, <1>7, <2>1
<1>9. AnswerTo(b)' = AnswerTo(b) /\ PiecesOf(b)' = PiecesOf(b) /\ Asked(b)'
  <2>1. AnswerTo(b)' = AnswerTo(b) /\ Asked(b)'
    BY <1>2 DEF AnswerTo, Asked, Heading
  <2> QED
    BY <2>1 DEF PiecesOf
<1>10. /\ \A k \in 1..m : pieces[k] \in PiecesOf(b) /\ pieces[k].from = "data_" /\ pieces[k].nth = k
       /\ "data_" \in Source
  <2>1. "data_" \in Source
    BY DEF Source
  <2> QED
    BY <1>1, <1>3, <2>1, PiecesAre, PieceIs
<1>11. InOrder(pieces, PiecesOf(b))
  <2>1. ASSUME NEW i \in 1..m, NEW q \in PiecesOf(b), Before(pieces[i], q)
        PROVE  \E j \in 1..i - 1 : pieces[j] = q
    <3>1. q.from = "data_" /\ q.nth < i
      BY <1>10, <2>1 DEF Before
    <3>2. q.nth \in 1..i - 1 /\ q = Piece(b, "data_", q.nth)
      BY <1>3, <3>1, PiecesAre
    <3>3. pieces[q.nth] = q
      BY <1>1, <1>3, <3>2
    <3> QED
      BY <3>2, <3>3
  <2>2. \A i, j \in 1..m : pieces[i] = pieces[j] => i = j
    BY <1>10
  <2> QED
    BY <1>1, <1>10, <2>1, <2>2 DEF InOrder
<1>12. HeldInv(b)'
  <2>1. ASSUME NEW s \in Source
        PROVE  /\ buffer'[b][s].nth \in 0..AnswerTo(b)[s]
               /\ buffer'[b][s] = Piece(b, s, buffer'[b][s].nth)
               /\ \A k \in 1..buffer'[b][s].nth : \E i \in DOMAIN pieces : pieces[i] = Piece(b, s, k)
    <3>1. CASE s = "data_"
      <4>1. buffer'[b][s] = Piece(b, s, m) /\ buffer'[b][s].nth = m
        BY <1>5, <3>1, PieceIs
      <4> QED
        BY <1>1, <1>3, <3>1, <4>1
    <3>2. CASE s # "data_"
      <4>1. buffer'[b][s] = buffer[b][s] /\ buffer[b][s].nth = 0
        BY <1>5, <1>7, <3>2
      <4>2. AnswerTo(b)[s] \in Nat
        BY AnswerHas
      <4> QED
        BY <1>6, <4>1, <4>2 DEF OfOne, HeldInv
    <3> QED
      BY <3>1, <3>2
  <2> QED
    BY <1>8, <1>9, <2>1 DEF HeldInv
<1>13. ProgressInv(b)'
  <2>1. buffer'[b]["data_"].nth = AnswerTo(b)["data_"]
    BY <1>3, <1>5, <1>10, PieceIs
  <2>2. CASE IsConsole(b)
    BY <1>2, <1>9, <2>1, <2>2 DEF ProgressInv, Over, IsConsole
  <2>3. CASE ~IsConsole(b)
    <3>1. busy' # b
      BY <1>2, <2>3, CgiAssumption
    <3>2. \A s \in Session : request[b].shows[s] = 0
      BY <1>2, <2>3, CgiAssumption DEF IsConsole, Asked
    <3>3. \A s \in Session : buffer'[b][s].nth = 0 /\ AnswerTo(b)[s] = 0
      BY <1>3, <1>5, <1>7, <3>2, CgiAssumption DEF Source
    <3> QED
      BY <1>9, <2>1, <3>1, <3>3 DEF ProgressInv, Source
  <2> QED
    BY <2>2, <2>3
<1>14. PageInv(b)'
  <2>1. \A i \in DOMAIN page'[b] : page'[b][i] \in PiecesOf(b)
    BY <1>1, <1>5, <1>8, <1>10
  <2>2. ASSUME b \notin Slow PROVE page'[b] = pieces
    <3>1. n = Len(pieces)
      BY <1>2, <2>2 DEF Writes
    <3> QED
      BY <1>1, <1>8, <3>1
  <2> QED
    BY <1>8, <1>9, <2>1, <2>2 DEF PageInv
<1> QED
  BY <1>8, <1>9, <1>11, <1>12, <1>13, <1>14 DEF OfOne

LEMMA OneMoreAt ==
    ASSUME NEW p
    PROVE  \A t \in Seq(AnyPiece) : p \in AnyPiece =>
                 /\ SubSeq(t, 1, Len(t)) = t /\ SubSeq(t, 1, 0) = <<>>
                 /\ \A i \in DOMAIN t : i \in DOMAIN (t \o <<p>>) /\ (t \o <<p>>)[i] = t[i]
                 /\ Len(t) + 1 \in DOMAIN (t \o <<p>>) /\ (t \o <<p>>)[Len(t) + 1] = p
<1>1. \A t \in Seq(AnyPiece) : SubSeq(t, 1, Len(t)) = t /\ SubSeq(t, 1, 0) = <<>>
  OBVIOUS
<1>2. ASSUME NEW t \in Seq(AnyPiece), p \in AnyPiece
      PROVE  /\ \A i \in DOMAIN t : i \in DOMAIN (t \o <<p>>) /\ (t \o <<p>>)[i] = t[i]
             /\ Len(t) + 1 \in DOMAIN (t \o <<p>>) /\ (t \o <<p>>)[Len(t) + 1] = p
  BY <1>2
<1> QED
  BY <1>1, <1>2

(* A session shows its next piece.                                          *)
LEMMA OutputAnswers ==
    ASSUME IInv, AnswerInv, NEW b \in Browser, NEW s \in Session, NEW n, Output(b, s, n)
    PROVE  OfOne(b)'
<1> DEFINE c == Count(b, s)
           p == Piece(b, s, c + 1)
<1>1. /\ OfOne(b) /\ StateInv /\ ArrayInv(b) /\ s \in Source /\ s # "data_" /\ "data_" \in Source
      /\ sent[b] \in Seq(AnyPiece) /\ page[b] \in Seq(AnyPiece)
  BY CgiAssumption DEF AnswerInv, IInv, StateInv, Source
<1>2. busy = b /\ c < request[b].shows[s] /\ Writes(b, <<p>>, n) /\ UNCHANGED <<conn, request, busy>>
  BY DEF Output, HasMore
<1>3. conn[b] = "open" /\ IsConsole(b) /\ Asked(b) /\ buffer[b]["data_"].nth = AnswerTo(b)["data_"]
  BY <1>1, <1>2 DEF OfOne, ProgressInv, IsConsole
<1>4. /\ buffer[b][s].nth = c /\ c \in 0..AnswerTo(b)[s] /\ AnswerTo(b)[s] = request[b].shows[s]
      /\ AnswerTo(b)[s] \in Nat
  BY <1>1, <1>3, AnswerHas DEF ArrayInv, OfOne, HeldInv
<1>5. p \in PiecesOf(b) /\ p \in AnyPiece /\ p.from = s /\ p.nth = c + 1
  <2>1. c + 1 \in 1..AnswerTo(b)[s] /\ c + 1 \in Nat
    BY <1>2, <1>4
  <2>2. p \in AnyPiece
    BY <1>1, <2>1 DEF Piece, AnyPiece
  <2> QED
    BY <1>1, <2>1, <2>2, PiecesAre, PieceIs
<1> HIDE DEF c, p
<1>6. <<p>> \in Seq(AnyPiece) /\ <<p>> # <<>> /\ Last(<<p>>) = p
  BY <1>5 DEF Last
<1>7. /\ sent'[b] = sent[b] \o <<p>> /\ page'[b] = page[b] \o SubSeq(<<p>>, 1, n)
      /\ \A t \in Source : buffer'[b][t] = IF t = s THEN p ELSE buffer[b][t]
      /\ n \in 0..1
  <2>1. Len(<<p>>) = 1
    OBVIOUS
  <2>2. /\ sent'[b] = sent[b] \o <<p>>
        /\ \A t \in Source :
              buffer'[b][t] = IF t = Last(<<p>>).from THEN Last(<<p>>) ELSE buffer[b][t]
    BY <1>1, <1>2, <1>6, WritesTo
  <2>3. n \in 0..Len(<<p>>) /\ page'[b] = page[b] \o SubSeq(<<p>>, 1, n)
    BY <1>2 DEF Writes, IInv, StateInv
  <2> QED
    BY <1>5, <1>6, <2>1, <2>2, <2>3
<1>8. AnswerTo(b)' = AnswerTo(b) /\ PiecesOf(b)' = PiecesOf(b) /\ Asked(b)'
  <2>1. AnswerTo(b)' = AnswerTo(b) /\ Asked(b)'
    BY <1>2, <1>3 DEF AnswerTo, Asked, Heading
  <2> QED
    BY <2>1 DEF PiecesOf
<1>9. InOrder(sent[b] \o <<p>>, PiecesOf(b))
  <2>1. \A i \in DOMAIN sent[b] : sent[b][i] # p
    <3>1. \A i \in DOMAIN sent[b] : sent[b][i].nth <= buffer[b][sent[b][i].from].nth
      BY <1>1 DEF ArrayInv
    <3>2. ~(c + 1 <= c)
      BY <1>4
    <3> QED
      BY <1>4, <1>5, <3>1, <3>2
  <2>2. ASSUME NEW q \in PiecesOf(b), Before(p, q)
        PROVE  \E j \in DOMAIN sent[b] : sent[b][j] = q
    <3>1. q.from \in Source /\ q.nth \in 1..AnswerTo(b)[q.from] /\ q = Piece(b, q.from, q.nth)
      BY PiecesAre
    <3>2. q.nth \in 1..buffer[b][q.from].nth
      <4>1. CASE q.from = s /\ q.nth < c + 1
        BY <1>4, <3>1, <4>1
      <4>2. CASE q.from = "data_"
        BY <1>3, <3>1, <4>2
      <4> QED
        BY <1>5, <2>2, <4>1, <4>2 DEF Before
    <3> QED
      BY <1>1, <3>1, <3>2 DEF OfOne, HeldInv
  <2> QED
    BY <1>1, <1>5, <2>1, <2>2, OneMoreInOrder DEF OfOne
<1>10. HeldInv(b)'
  <2>1. /\ \A i \in DOMAIN sent[b] : i \in DOMAIN sent'[b] /\ sent'[b][i] = sent[b][i]
        /\ Len(sent[b]) + 1 \in DOMAIN sent'[b] /\ sent'[b][Len(sent[b]) + 1] = p
    BY <1>1, <1>5, <1>7, OneMoreAt
  <2>2. ASSUME NEW t \in Source
        PROVE  /\ buffer'[b][t].nth \in 0..AnswerTo(b)[t]
               /\ buffer'[b][t] = Piece(b, t, buffer'[b][t].nth)
               /\ \A k \in 1..buffer'[b][t].nth :
                     \E i \in DOMAIN sent'[b] : sent'[b][i] = Piece(b, t, k)
    <3>1. \A k \in 1..buffer[b][t].nth : \E i \in DOMAIN sent'[b] : sent'[b][i] = Piece(b, t, k)
      BY <1>1, <2>1 DEF OfOne, HeldInv
    <3>2. CASE t # s
      <4>1. buffer'[b][t] = buffer[b][t]
        BY <1>7, <3>2
      <4> QED
        BY <1>1, <3>1, <4>1 DEF OfOne, HeldInv
    <3>3. CASE t = s
      <4>1. buffer'[b][t] = p /\ p = Piece(b, s, c + 1)
        BY <1>7, <3>3 DEF p
      <4>2. \A k \in 1..c + 1 : k \in 1..c \/ k = c + 1
        BY <1>4
      <4> QED
        BY <1>2, <1>4, <1>5, <2>1, <3>1, <3>3, <4>1, <4>2
    <3> QED
      BY <3>2, <3>3
  <2> QED
    BY <1>8, <2>2 DEF HeldInv
<1>11. ProgressInv(b)'
  BY <1>1, <1>2, <1>3, <1>7, <1>8 DEF ProgressInv, IsConsole, Over
<1>12. PageInv(b)'
  <2>1. \A i \in DOMAIN page[b] : page[b][i] \in PiecesOf(b)
    BY <1>1 DEF OfOne, PageInv
  <2>2. CASE n = 1
    <3>1. SubSeq(<<p>>, 1, n) = <<p>>
      <4>1. Len(<<p>>) = 1
        OBVIOUS
      <4> QED
        BY <1>5, <1>6, <2>2, <4>1, OneMoreAt
    <3>2. page'[b] = page[b] \o <<p>>
      BY <1>7, <3>1
    <3>3. \A i \in DOMAIN page'[b] : page'[b][i] \in PiecesOf(b)
      BY <1>1, <1>5, <2>1, <3>2
    <3>4. b \notin Slow => page'[b] = sent'[b]
      BY <1>1, <1>7, <3>2 DEF OfOne, PageInv
    <3> QED
      BY <1>8, <3>3, <3>4 DEF PageInv
  <2>3. CASE n = 0
    <3>1. SubSeq(<<p>>, 1, n) = <<>>
      BY <1>5, <1>6, <2>3, OneMoreAt
    <3>2. page'[b] = page[b]
      <4>1. page'[b] = page[b] \o <<>>
        BY <1>7, <3>1
      <4>2. page[b] \o <<>> = page[b]
        BY <1>1
      <4> QED
        BY <4>1, <4>2
    <3>3. b \in Slow
      <4>1. Len(<<p>>) = 1
        OBVIOUS
      <4> QED
        BY <1>2, <2>3, <4>1 DEF Writes
    <3> QED
      BY <1>8, <2>1, <3>2, <3>3 DEF PageInv
  <2> QED
    BY <1>7, <2>2, <2>3
<1> QED
  BY <1>7, <1>8, <1>9, <1>10, <1>11, <1>12 DEF OfOne

(* A write that was late: the array holds a piece of the answer.            *)
LEMMA TakenAnswers ==
    ASSUME IInv, AnswerInv, NEW b \in Browser, Taken(b)
    PROVE  OfOne(b)' /\ b \in Slow /\ conn[b] = "open"
<1> DEFINE next == Len(page[b]) + 1
           s == sent[b][next].from
           p == buffer[b][s]
<1>1. /\ OfOne(b) /\ StateInv /\ ArrayInv(b) /\ Len(page[b]) < Len(sent[b])
      /\ sent[b] \in Seq(AnyPiece) /\ page[b] \in Seq(AnyPiece)
      /\ page' = [page EXCEPT ![b] = Append(@, p)] /\ UNCHANGED <<conn, request, busy, buffer, sent>>
  BY DEF AnswerInv, IInv, StateInv, Taken, Pending, Array
<1>2. next \in DOMAIN sent[b] /\ sent[b][next] \in PiecesOf(b)
  BY <1>1 DEF OfOne, InOrder
<1>3. s \in Source /\ sent[b][next].nth \in 1..AnswerTo(b)[s]
  BY <1>2, PiecesAre
<1>4. p \in PiecesOf(b)
  <2>1. p = Piece(b, s, p.nth) /\ p.nth \in 0..AnswerTo(b)[s]
    BY <1>1, <1>3 DEF OfOne, HeldInv
  <2>2. sent[b][next].nth <= p.nth
    BY <1>1, <1>2 DEF ArrayInv
  <2>3. p.nth \in 1..AnswerTo(b)[s]
    BY <1>3, <2>1, <2>2
  <2> QED
    BY <1>3, <2>1, <2>3, PiecesAre
<1>5. b \in Slow
  BY <1>1 DEF OfOne, PageInv
<1> HIDE DEF p
<1>6. page'[b] = Append(page[b], p)
  BY <1>1 DEF StateInv
<1>7. PageInv(b)'
  <2>1. \A i \in DOMAIN page[b] : page[b][i] \in PiecesOf(b)
    BY <1>1 DEF OfOne, PageInv
  <2>2. \A i \in DOMAIN page'[b] : page'[b][i] \in PiecesOf(b)
    BY <1>1, <1>4, <1>6, <2>1
  <2> QED
    BY <1>1, <1>5, <2>2, SameAnswer DEF PageInv
<1> QED
  BY <1>1, <1>5, <1>7, SameAnswer DEF OfOne, Taken

(* The pages only grow, and not any more when they are over.                *)
Goes(b) ==
    /\ Asked(b) => Asked(b)' /\ AnswerTo(b)' = AnswerTo(b)
    /\ ~Asked(b) => page[b] = <<>>
    /\ Over(b) => Over(b)' /\ page'[b] = page[b]
    /\ \E more \in Seq(AnyPiece) : page'[b] = page[b] \o more

LEMMA GoesOn ==
    ASSUME IInv, AnswerInv, NEW b \in Browser
    PROVE  /\ OfOne(b) /\ page[b] \in Seq(AnyPiece)
           /\ ~Asked(b) => page[b] = <<>>
           /\ page'[b] = page[b] => \E more \in Seq(AnyPiece) : page'[b] = page[b] \o more
           /\ request'[b] = request[b] => AnswerTo(b)' = AnswerTo(b) /\ (Asked(b) => Asked(b)')
<1>1. OfOne(b) /\ page[b] \in Seq(AnyPiece)
  BY DEF AnswerInv, IInv, StateInv
<1>2. ASSUME ~Asked(b) PROVE page[b] = <<>>
  <2>1. PiecesOf(b) = {}
    BY <1>2, PiecesAre
  <2>2. Len(page[b]) \in Nat /\ DOMAIN page[b] = 1..Len(page[b])
    BY <1>1
  <2>3. \A i \in 1..Len(page[b]) : FALSE
    BY <1>1, <2>1, <2>2 DEF OfOne, PageInv
  <2>4. Len(page[b]) = 0
    BY <2>2, <2>3
  <2> QED
    BY <1>1, <2>4
<1>3. ASSUME page'[b] = page[b]
      PROVE  \E more \in Seq(AnyPiece) : page'[b] = page[b] \o more
  <2>1. page[b] \o <<>> = page[b] /\ <<>> \in Seq(AnyPiece)
    BY <1>1
  <2> QED
    BY <1>3, <2>1
<1>4. ASSUME request'[b] = request[b] PROVE AnswerTo(b)' = AnswerTo(b) /\ (Asked(b) => Asked(b)')
  BY <1>4 DEF AnswerTo, Asked, Heading
<1> QED
  BY <1>1, <1>2, <1>3, <1>4

LEMMA AnswerStep ==
    ASSUME IInv, AnswerInv, Next
    PROVE  AnswerInv' /\ \A c \in Browser : Goes(c)
<1> USE CgiAssumption
<1>1. PICK b \in Browser : Visit(b) \/ Handler(b) \/ Taken(b)
  BY DEF Next
<1>2. /\ request \in [Browser -> Request \cup {Nothing, Leaves}] /\ StateInv
      /\ \A c \in Browser : OfOne(c) /\ conn[c] \in {"away", "backlog", "open", "closed"}
  BY DEF AnswerInv, IInv, StateInv
<1>3. ASSUME request' = request, OfOne(b)',
             \A c \in Browser \ {b} :
                /\ buffer'[c] = buffer[c] /\ sent'[c] = sent[c] /\ page'[c] = page[c]
                /\ conn'[c] = conn[c] /\ (busy' = c => busy = c),
             Over(b) => Over(b)' /\ page'[b] = page[b],
             \E more \in Seq(AnyPiece) : page'[b] = page[b] \o more
      PROVE  AnswerInv' /\ \A c \in Browser : Goes(c)
  <2>1. ASSUME NEW c \in Browser \ {b} PROVE OfOne(c)' /\ Goes(c)
    <3>1. OfOne(c)'
      BY <1>2, <1>3, SameAnswer DEF OfOne
    <3>2. Over(c) => Over(c)'
      BY <1>3 DEF Over, Asked
    <3> QED
      BY <1>3, <3>1, <3>2, GoesOn DEF Goes
  <2>2. Goes(b)
    BY <1>3, GoesOn DEF Goes
  <2> QED
    BY <1>2, <1>3, <2>1, <2>2 DEF AnswerInv
<1>4. ASSUME UNCHANGED <<request, buffer, sent, page>>, ProgressInv(b)', Over(b) => Over(b)',
             \A c \in Browser \ {b} : conn'[c] = conn[c] /\ (busy' = c => busy = c)
      PROVE  AnswerInv' /\ \A c \in Browser : Goes(c)
  <2>1. OfOne(b)'
    BY <1>2, <1>4, SameAnswer DEF OfOne
  <2>2. \E more \in Seq(AnyPiece) : page'[b] = page[b] \o more
    BY <1>4, GoesOn
  <2> QED
    BY <1>3, <1>4, <2>1, <2>2
<1>5. CASE Connects(b) /\ Visit(b)
  <2>1. /\ UNCHANGED <<request, buffer, sent, page, busy>>
        /\ conn[b] = "away" /\ conn'[b] = "backlog" /\ \A c \in Browser \ {b} : conn'[c] = conn[c]
    BY <1>5 DEF Connects, Visit, IInv, StateInv
  <2>2. ProgressInv(b)' /\ ~Over(b)
    BY <1>2, <2>1 DEF OfOne, ProgressInv, Over
  <2> QED
    BY <1>4, <2>1, <2>2
<1>6. ASSUME NEW r \in Request \cup {Leaves}, Sends(b, r), Visit(b)
      PROVE  AnswerInv' /\ \A c \in Browser : Goes(c)
  <2>1. /\ UNCHANGED <<conn, buffer, sent, page, busy>> /\ ~Asked(b) /\ conn[b] # "closed"
        /\ \A c \in Browser \ {b} : request'[c] = request[c]
        /\ request' \in [Browser -> Request \cup {Nothing, Leaves}]
    BY <1>2, <1>6 DEF Sends, Visit, Asked
  <2>2. busy # b
    BY <1>2, <2>1 DEF OfOne, ProgressInv, IsConsole
  <2>3. OfOne(b)' /\ page[b] = <<>>
    BY <2>1, <2>2, AskStep
  <2>4. Goes(b)
    BY <2>1, <2>3, GoesOn DEF Goes, Over
  <2>5. ASSUME NEW c \in Browser \ {b} PROVE OfOne(c)' /\ Goes(c)
    <3>1. OfOne(c)'
      BY <1>2, <2>1, SameAnswer DEF OfOne
    <3>2. Over(c) => Over(c)'
      BY <2>1 DEF Over, Asked
    <3> QED
      BY <2>1, <3>1, <3>2, GoesOn DEF Goes
  <2> QED
    BY <2>1, <2>3, <2>4, <2>5 DEF AnswerInv
<1>7. CASE Accept(b)
  <2>1. /\ UNCHANGED <<request, buffer, sent, page, busy>>
        /\ conn[b] = "backlog" /\ conn'[b] = "open" /\ \A c \in Browser \ {b} : conn'[c] = conn[c]
    BY <1>7 DEF Accept, Opened, IInv, StateInv
  <2>2. ProgressInv(b)' /\ ~Over(b)
    BY <1>2, <2>1 DEF OfOne, ProgressInv, Over
  <2> QED
    BY <1>4, <2>1, <2>2
<1>8. CASE ReadFails(b)
  <2>1. /\ UNCHANGED <<request, buffer, sent, page, busy>> /\ busy # b /\ ~Asked(b)
        /\ \A c \in Browser \ {b} : conn'[c] = conn[c]
    BY <1>8 DEF ReadFails, Closed, IInv, StateInv, Asked
  <2>2. ProgressInv(b)' /\ ~Over(b)
    BY <2>1 DEF ProgressInv, Over, Asked
  <2> QED
    BY <1>4, <2>1, <2>2
<1>9. CASE ConsoleEnds(b)
  <2>1. /\ UNCHANGED <<request, buffer, sent, page>> /\ busy = b /\ busy' = NoOne
        /\ AllEnded(b) /\ conn'[b] = "closed" /\ \A c \in Browser \ {b} : conn'[c] = conn[c]
    BY <1>9 DEF ConsoleEnds, Closed, IInv, StateInv
  <2>2. Asked(b) /\ buffer[b]["data_"].nth = AnswerTo(b)["data_"] /\ ~Over(b)
    BY <1>2, <2>1 DEF OfOne, ProgressInv, IsConsole, Over
  <2>3. ASSUME NEW s \in Source PROVE buffer[b][s].nth = AnswerTo(b)[s]
    <3>1. CASE s = "data_"
      BY <2>2, <3>1
    <3>2. CASE s \in Session
      <4>1. buffer[b][s].nth \in 0..AnswerTo(b)[s] /\ AnswerTo(b)[s] \in Nat
        BY <1>2, AnswerHas DEF OfOne, HeldInv
      <4>2. ~(buffer[b][s].nth < AnswerTo(b)[s])
        <5>1. buffer[b][s].nth = Count(b, s)
          BY <3>2 DEF IInv, ArrayInv
        <5>2. ~(Count(b, s) < request[b].shows[s])
          BY <2>1, <3>2 DEF AllEnded, HasMore
        <5> QED
          BY <2>2, <3>2, <5>1, <5>2, AnswerHas
      <4> QED
        BY <4>1, <4>2
    <3> QED
      BY <3>1, <3>2 DEF Source
  <2>4. AnswerTo(b)' = AnswerTo(b)
    BY <1>2, <2>1, SameAnswer
  <2>5. ProgressInv(b)'
    BY <2>1, <2>3, <2>4 DEF ProgressInv
  <2> QED
    BY <1>4, <2>1, <2>2, <2>5
<1>10. ASSUME NEW n, NEW pieces \in Seq(AnyPiece), pieces # <<>>, Writes(b, pieces, n),
              OfOne(b)', conn[b] = "open", request' = request,
              \A c \in Browser \ {b} : conn'[c] = conn[c] /\ (busy' = c => busy = c)
       PROVE  AnswerInv' /\ \A c \in Browser : Goes(c)
  <2>1. \A c \in Browser \ {b} : buffer'[c] = buffer[c] /\ sent'[c] = sent[c] /\ page'[c] = page[c]
    BY <1>2, <1>10, WritesTo
  <2>2. page'[b] = page[b] \o SubSeq(pieces, 1, n) /\ SubSeq(pieces, 1, n) \in Seq(AnyPiece)
    BY <1>2, <1>10 DEF Writes, StateInv
  <2>3. ~Over(b)
    BY <1>10 DEF Over
  <2> QED
    BY <1>3, <1>10, <2>1, <2>2, <2>3
<1>11. ASSUME NEW n, ReadDone(b, n)
       PROVE  AnswerInv' /\ \A c \in Browser : Goes(c)
  <2>1. /\ Writes(b, Heading(b), n) /\ conn[b] = "open" /\ request' = request
        /\ \A c \in Browser \ {b} : conn'[c] = conn[c] /\ (busy' = c => busy = c)
    BY <1>11 DEF ReadDone, Closed, IInv, StateInv
  <2>2. Heading(b) \in Seq(AnyPiece) /\ Heading(b) # <<>>
    BY DEF Heading, Piece, AnyPiece, Source
  <2> QED
    BY <1>10, <1>11, <2>1, <2>2, HeadAnswers
<1>12. ASSUME NEW s \in Session, NEW n, Output(b, s, n)
       PROVE  AnswerInv' /\ \A c \in Browser : Goes(c)
  <2> DEFINE p == Piece(b, s, Count(b, s) + 1)
  <2>1. /\ Writes(b, <<p>>, n) /\ busy = b /\ UNCHANGED <<conn, request, busy>>
    BY <1>12 DEF Output
  <2>2. p \in AnyPiece
    <3>1. Empty(b, s) \in AnyPiece /\ sent[b] \in Seq(AnyPiece) /\ s \in Source
      BY <1>2 DEF Empty, Piece, AnyPiece, Source, StateInv
    <3>2. Count(b, s) \in Nat
      BY <3>1, OneMore DEF Count
    <3> QED
      BY <3>1, <3>2 DEF Piece, AnyPiece
  <2> HIDE DEF p
  <2>3. <<p>> \in Seq(AnyPiece) /\ <<p>> # <<>>
    BY <2>2
  <2>4. conn[b] = "open"
    BY <1>2, <2>1 DEF OfOne, ProgressInv
  <2> QED
    BY <1>10, <1>12, <2>1, <2>3, <2>4, OutputAnswers
<1>13. CASE Taken(b)
  <2> DEFINE p == buffer[b][Array(sent[b][Len(page[b]) + 1])]
  <2>1. /\ UNCHANGED <<conn, request, busy, buffer, sent>> /\ ~Over(b)
        /\ page' = [page EXCEPT ![b] = Append(@, p)]
    BY <1>13 DEF Taken, Over
  <2>2. OfOne(b)'
    BY <1>13, TakenAnswers
  <2>3. page' \in [Browser -> Seq(AnyPiece)] /\ \A c \in Browser \ {b} : page'[c] = page[c]
    BY <1>13, TakenStep
  <2> HIDE DEF p
  <2>4. page'[b] = Append(page[b], p) /\ page[b] \in Seq(AnyPiece)
    BY <1>2, <2>1 DEF StateInv
  <2>5. p \in AnyPiece
    <3>1. page'[b] \in Seq(AnyPiece) /\ Len(page[b]) + 1 \in 1..Len(page'[b])
          /\ page'[b][Len(page[b]) + 1] = p
      BY <2>3, <2>4
    <3> QED
      BY <3>1
  <2>6. page'[b] = page[b] \o <<p>> /\ <<p>> \in Seq(AnyPiece)
    BY <2>4, <2>5
  <2> QED
    BY <1>3, <2>1, <2>2, <2>3, <2>6
<1>14. CASE Visit(b)
  BY <1>5, <1>6, <1>14 DEF Visit, Visits
<1> QED
  BY <1>1, <1>7, <1>8, <1>9, <1>11, <1>12, <1>13, <1>14 DEF Handler

LEMMA AnswerAtStart == ASSUME Init PROVE AnswerInv
<1>1. \A b \in Browser, s \in Source : buffer[b][s] = Piece(b, s, 0)
  BY DEF Init, Empty
<1>2. /\ request \in [Browser -> Request \cup {Nothing, Leaves}]
      /\ \A b \in Browser : ~Asked(b) /\ busy # b
  BY CgiAssumption DEF Init, NoConnections, Asked
<1>3. ASSUME NEW b \in Browser PROVE OfOne(b)
  <2>1. DOMAIN sent[b] = {} /\ DOMAIN page[b] = {} /\ page[b] = sent[b]
    BY DEF Init
  <2>2. \A s \in Source : buffer[b][s].nth = 0 /\ AnswerTo(b)[s] \in Nat
    BY <1>1, PieceIs, AnswerHas
  <2>3. HeldInv(b)
    BY <1>1, <2>2 DEF HeldInv
  <2> QED
    BY <1>2, <2>1, <2>3 DEF OfOne, InOrder, ProgressInv, PageInv, Over
<1> QED
  BY <1>2, <1>3 DEF AnswerInv

LEMMA BothAlways == Spec => [](IInv /\ AnswerInv)
<1>1. Init => IInv /\ AnswerInv
  BY AtStart, AnswerAtStart
<1>2. IInv /\ AnswerInv /\ [Next]_vars => (IInv /\ AnswerInv)'
  <2>1. IInv /\ UNCHANGED vars => IInv'
    BY SameBrowser DEF vars, IInv, StateInv, FreshInv
  <2>2. AnswerInv /\ UNCHANGED vars => AnswerInv'
    <3> SUFFICES ASSUME AnswerInv, UNCHANGED vars, NEW b \in Browser PROVE OfOne(b)'
      BY DEF AnswerInv, vars
    <3> QED
      BY SameAnswer DEF vars, AnswerInv, OfOne
  <2> QED
    BY <2>1, <2>2, Inductive, AnswerStep
<1> QED
  BY <1>1, <1>2, PTL DEF Spec

(* Nothing is in an array, in a socket or on a page but pieces of the       *)
(* answer to the browser's own request; do_console runs for a browser that  *)
(* has asked for a console and whose connection is still open.              *)
THEOREM AlwaysTyped == Spec => []TypeOK
<1>1. IInv /\ AnswerInv => TypeOK
  <2> SUFFICES ASSUME IInv, AnswerInv PROVE TypeOK
    OBVIOUS
  <2>1. StateInv /\ \A b \in Browser : OfOne(b)
    BY DEF IInv, AnswerInv
  <2>2. busy \in {b \in Browser : conn[b] = "open" /\ IsConsole(b)} \cup {NoOne}
    BY <2>1 DEF StateInv, OfOne, ProgressInv
  <2>3. ASSUME NEW b \in Browser
        PROVE  sent[b] \in Seq(PiecesOf(b)) /\ page[b] \in Seq(PiecesOf(b))
    <3>1. /\ \A i \in DOMAIN sent[b] : sent[b][i] \in PiecesOf(b)
          /\ \A i \in DOMAIN page[b] : page[b][i] \in PiecesOf(b)
      BY <2>1 DEF OfOne, InOrder, PageInv
    <3>2. sent[b] \in Seq(AnyPiece) /\ page[b] \in Seq(AnyPiece)
      BY <2>1 DEF StateInv
    <3> QED
      BY <3>1, <3>2
  <2>4. ASSUME NEW b \in Browser, NEW s \in Source
        PROVE  buffer[b][s] \in PiecesOf(b) \cup {Empty(b, s)}
    <3>1. buffer[b][s] = Piece(b, s, buffer[b][s].nth) /\ buffer[b][s].nth \in 0..AnswerTo(b)[s]
      BY <2>1 DEF OfOne, HeldInv
    <3>2. AnswerTo(b)[s] \in Nat
      BY AnswerHas
    <3>3. buffer[b][s].nth = 0 \/ buffer[b][s].nth \in 1..AnswerTo(b)[s]
      BY <3>1, <3>2
    <3> QED
      BY <3>1, <3>3, PiecesAre DEF Empty
  <2> QED
    BY <2>1, <2>2, <2>3, <2>4 DEF TypeOK, StateInv, AnswerInv
<1> QED
  BY <1>1, BothAlways, PTL

(* What the refinement needs of a state: the page of a quick browser.       *)
Fits(b) ==
    /\ Owed!Own(b)
    /\ Over(b) => Owed!Complete(b)

LEMMA PageFits ==
    ASSUME AnswerInv, NEW b \in Quick
    PROVE  Fits(b)
<1>1. b \in Browser /\ OfOne(b) /\ page[b] = sent[b]
  BY DEF AnswerInv, OfOne, PageInv, Quick
<1>2. Owed!Pieces(b) = PiecesOf(b)
  BY DEF Owed!Pieces, Owed!Piece, PiecesOf, Piece
<1>3. Owed!Shown(b) = {page[b][i] : i \in DOMAIN page[b]}
  BY DEF Owed!Shown
<1>4. InOrder(page[b], PiecesOf(b))
  BY <1>1 DEF OfOne
<1>5. Owed!Own(b)
  <2>1. Owed!Shown(b) \subseteq Owed!Pieces(b)
    BY <1>2, <1>3, <1>4 DEF InOrder
  <2>2. ASSUME NEW i \in DOMAIN page[b]
        PROVE  Owed!Earlier(b, page[b][i]) \subseteq {page[b][j] : j \in 1..i - 1}
    BY <1>2, <1>4 DEF Owed!Earlier, InOrder, Before
  <2> QED
    BY <1>4, <2>1, <2>2 DEF Owed!Own, InOrder
<1>6. ASSUME Over(b) PROVE Owed!Complete(b)
  <2>1. \A s \in Source : buffer[b][s].nth = AnswerTo(b)[s]
    BY <1>1, <1>6 DEF OfOne, ProgressInv
  <2>2. \A p \in PiecesOf(b) : \E i \in DOMAIN page[b] : page[b][i] = p
    <3>1. ASSUME NEW p \in PiecesOf(b) PROVE \E i \in DOMAIN page[b] : page[b][i] = p
      <4>1. p.from \in Source /\ p.nth \in 1..AnswerTo(b)[p.from] /\ p = Piece(b, p.from, p.nth)
        BY <1>1, PiecesAre
      <4> QED
        BY <1>1, <2>1, <4>1 DEF OfOne, HeldInv
    <3> QED
      BY <3>1
  <2>3. AnswerTo(b) # [s \in Source |-> 0]
    <3>1. AnswerTo(b)["data_"] # 0 /\ "data_" \in Source
      BY <1>1, <1>6, AnswerHas DEF Over, Source
    <3> QED
      BY <3>1
  <2> QED
    BY <1>2, <1>3, <2>2, <2>3 DEF Owed!Complete, Owed!NoAnswer
<1> QED
  BY <1>5, <1>6 DEF Fits

(* For any number of browsers and any answers: a browser whose connection   *)
(* is never full gets its own page, in order and complete before its end,   *)
(* although all writes of a page go through arrays that are used again and  *)
(* nobody waits for them, and whatever slow browsers do beside it.          *)
THEOREM PagesAreAnswers == Spec => AnswersSpec
<1>1. Init => Owed!Init
  <2> SUFFICES ASSUME Init PROVE Owed!Init
    OBVIOUS
  <2>1. \A b \in Browser : ~Asked(b) /\ page[b] = <<>>
    BY CgiAssumption DEF Init, NoConnections, Asked
  <2>2. \A b \in Browser : AnswerTo(b) = [s \in Source |-> 0] /\ Over(b) = FALSE
    BY <2>1, AnswerHas DEF Over
  <2> QED
    BY <2>1, <2>2 DEF Owed!Init, Owed!NoAnswer, Quick
<1>2. IInv /\ AnswerInv => \A b \in Quick : Fits(b)
  BY PageFits
<1>3. IInv /\ AnswerInv /\ (\A b \in Quick : Fits(b))' /\ [Next]_vars => [Owed!Next]_Owed!vars
  <2> SUFFICES ASSUME IInv, AnswerInv, (\A b \in Quick : Fits(b))', [Next]_vars
               PROVE  [Owed!Next]_Owed!vars
    OBVIOUS
  <2>1. CASE UNCHANGED vars
    BY <2>1 DEF vars, Owed!vars, AnswerTo, Heading, Over, Asked
  <2>2. CASE Next
    <3> SUFFICES ASSUME NEW b \in Quick
                 PROVE  Owed!Asks(b) /\ Owed!Shows(b) /\ Owed!Ends(b)
      BY DEF Owed!Next
    <3>1. b \in Browser /\ page[b] \in Seq(AnyPiece)
      BY DEF Quick, IInv, StateInv
    <3>2. Goes(b)
      BY <2>2, <3>1, AnswerStep
    <3>3. Fits(b)'
      OBVIOUS
    <3>4. Owed!Asks(b)
      BY <3>1, <3>2, AnswerHas DEF Goes, Owed!Asks, Owed!NoAnswer
    <3>5. Owed!Shows(b)
      <4>1. PICK more \in Seq(AnyPiece) : page'[b] = page[b] \o more
        BY <3>2 DEF Goes
      <4>2. Len(page[b]) <= Len(page'[b]) /\ SubSeq(page'[b], 1, Len(page[b])) = page[b]
        BY <3>1, <4>1
      <4> QED
        BY <3>3, <4>2 DEF Owed!Shows, Fits
    <3>6. Owed!Ends(b)
      BY <3>2, <3>3 DEF Owed!Ends, Fits, Goes
    <3> QED
      BY <3>4, <3>5, <3>6
  <2> QED
    BY <2>1, <2>2
<1> QED
  BY <1>1, <1>2, <1>3, BothAlways, PTL DEF Spec, AnswersSpec, Owed!Spec
=============================================================================
