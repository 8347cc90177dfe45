----------------------------- MODULE Induction -----------------------------
(***************************************************************************)
(* Induction over the natural numbers, stated with sets, and what it gives *)
(* for the folds of the community modules: the function FoldLeft is        *)
(* defined by exists, and can be followed along the sequence.              *)
(***************************************************************************)
EXTENDS Filters, SequenceTheorems, WellFoundedInduction, TLAPS

(* A set of natural numbers has a least one.                                *)
LEMMA Least ==
    ASSUME NEW T, T \subseteq Nat, T # {}
    PROVE  \E n \in T : \A m \in T : n <= m
<1> DEFINE Less == {ss \in Nat \X Nat : ss[1] < ss[2]}
<1>1. IsWellFoundedOn(Less, Nat)
  BY NatLessThanWellFounded, Zenon DEF OpToRel
<1> HIDE DEF Less
<1>2. PICK n \in T : \A m \in T : ~(<<m, n>> \in Less)
  BY WFMin, <1>1
<1>3. \A m \in T : ~(m < n)
  BY <1>2 DEF Less
<1> QED
  BY <1>3

(* Up to N: a set that has 0 and, below N, the next number with each.       *)
LEMMA UpTo ==
    ASSUME NEW N \in Nat, NEW T, 0 \in T, \A n \in 0..N : n < N /\ n \in T => n + 1 \in T
    PROVE  0..N \subseteq T
<1> SUFFICES ASSUME (0..N) \ T # {} PROVE FALSE
  OBVIOUS
<1>1. PICK n \in (0..N) \ T : \A m \in (0..N) \ T : n <= m
  <2>1. (0..N) \ T \subseteq Nat
    OBVIOUS
  <2> QED
    BY <2>1, Least
<1>2. n # 0 /\ n - 1 \in 0..N /\ n - 1 < N
  BY <1>1
<1>3. n - 1 \in T
  BY <1>1, <1>2
<1>4. (n - 1) + 1 \in T
  BY <1>2, <1>3
<1> QED
  BY <1>1, <1>4

(* Everything said of the natural numbers by a set of them.                 *)
LEMMA OfAll ==
    ASSUME NEW T, 0 \in T, \A n \in Nat : n \in T => n + 1 \in T
    PROVE  Nat \subseteq T
<1> SUFFICES ASSUME Nat \ T # {} PROVE FALSE
  OBVIOUS
<1>1. PICK n \in Nat \ T : \A m \in Nat \ T : n <= m
  BY Least
<1>2. n # 0 /\ n - 1 \in Nat /\ n - 1 \in T
  BY <1>1
<1>3. (n - 1) + 1 \in T
  BY <1>2
<1> QED
  BY <1>1, <1>3
-----------------------------------------------------------------------------
LEMMA MaxUpTo ==
    ASSUME NEW n \in Nat, n > 0
    PROVE  Max(1..n) = n /\ (1..n) \ {n} = 1..n - 1
  BY DEF Max

LEMMA MaxWithTop ==
    ASSUME NEW n \in Nat, n > 0, NEW s \in SUBSET (1..n), n \in s
    PROVE  Max(s) = n
<1>1. \A x \in s : (\A y \in s : x >= y) <=> x = n
  OBVIOUS
<1> QED
  BY <1>1, Zenon DEF Max

LEMMA MaxIsIn ==
    ASSUME NEW N \in Nat, NEW s \in SUBSET (1..N), s # {}
    PROVE  Max(s) \in s
<1> DEFINE T == {n \in 0..N : \A t \in SUBSET (1..n) : t # {} => Max(t) \in t}
<1>1. 0 \in T
  <2>1. \A t \in SUBSET (1..0) : t = {}
    OBVIOUS
  <2>2. 0 \in 0..N
    OBVIOUS
  <2> QED
    BY <2>1, <2>2
<1>2. ASSUME NEW n \in 0..N, n < N, n \in T
      PROVE  n + 1 \in T
  <2>1. ASSUME NEW t \in SUBSET (1..n + 1), t # {}
        PROVE  Max(t) \in t
    <3>1. CASE n + 1 \in t
      BY <3>1, MaxWithTop
    <3>2. CASE n + 1 \notin t
      <4>1. t \in SUBSET (1..n)
        BY <3>2
      <4> QED
        BY <1>2, <2>1, <4>1
    <3> QED
      BY <3>1, <3>2
  <2> QED
    BY <1>2, <2>1
<1>3. 0..N \subseteq T
  <2> HIDE DEF T
  <2> QED
    BY <1>1, <1>2, UpTo
<1> QED
  BY <1>3

(* What FoldLeft walks along: the subsets of the indices, from the largest  *)
(* index down.  The function it is defined by exists.                       *)
Folding(N, base, step, iter) ==
    iter = [s \in SUBSET (1..N) |->
              IF s = {} THEN base ELSE step[<<iter[s \ {Max(s)}], Max(s)>>]]

LEMMA FoldingExists ==
    ASSUME NEW N \in Nat, NEW A, NEW base \in A, NEW step \in [A \X (1..N) -> A]
    PROVE  \E iter \in [SUBSET (1..N) -> A] : Folding(N, base, step, iter)
<1> DEFINE Has(n) == \E iter \in [SUBSET (1..n) -> A] : Folding(n, base, step, iter)
<1> DEFINE T == {n \in 0..N : Has(n)}
<1>1. 0 \in T
  <2>1. SUBSET (1..0) = {{}}
    OBVIOUS
  <2>2. [s \in SUBSET (1..0) |-> base] \in [SUBSET (1..0) -> A]
    OBVIOUS
  <2>3. Folding(0, base, step, [s \in SUBSET (1..0) |-> base])
    BY <2>1 DEF Folding
  <2> QED
    BY <2>2, <2>3
<1>2. ASSUME NEW n \in 0..N, n < N, n \in T
      PROVE  n + 1 \in T
  <2>1. PICK iter \in [SUBSET (1..n) -> A] : Folding(n, base, step, iter)
    BY <1>2
  <2> DEFINE more == [s \in SUBSET (1..n + 1) |->
                        IF n + 1 \in s THEN step[<<iter[s \ {n + 1}], n + 1>>] ELSE iter[s]]
  <2>2. \A s \in SUBSET (1..n + 1) :
           /\ s \ {n + 1} \in SUBSET (1..n)
           /\ n + 1 \notin s => s \in SUBSET (1..n)
           /\ n + 1 \in s => Max(s) = n + 1
    BY MaxWithTop
  <2>3. more \in [SUBSET (1..n + 1) -> A]
    <3>1. ASSUME NEW s \in SUBSET (1..n + 1)
          PROVE  more[s] \in A
      <4>1. CASE n + 1 \in s
        <5>1. iter[s \ {n + 1}] \in A /\ n + 1 \in 1..N
          BY <2>2, <1>2
        <5>2. more[s] = step[<<iter[s \ {n + 1}], n + 1>>]
          BY <4>1
        <5> QED
          BY <5>1, <5>2
      <4>2. CASE n + 1 \notin s
        BY <2>2, <4>2
      <4> QED
        BY <4>1, <4>2
    <3> QED
      BY <3>1
  <2>4. ASSUME NEW s \in SUBSET (1..n + 1)
        PROVE  more[s] = IF s = {} THEN base ELSE step[<<more[s \ {Max(s)}], Max(s)>>]
    <3>1. CASE n + 1 \in s
      <4>1. more[s] = step[<<iter[s \ {n + 1}], n + 1>>]
        BY <3>1
      <4>2. more[s \ {n + 1}] = iter[s \ {n + 1}]
        BY <2>2
      <4> QED
        BY <3>1, <4>1, <4>2, <2>2
    <3>2. CASE n + 1 \notin s
      <4>1. more[s] = iter[s] /\ s \in SUBSET (1..n)
        BY <3>2, <2>2
      <4>2. iter[s] = IF s = {} THEN base ELSE step[<<iter[s \ {Max(s)}], Max(s)>>]
        BY <4>1, <2>1 DEF Folding
      <4>3. n + 1 \notin s \ {Max(s)} /\ s \ {Max(s)} \in SUBSET (1..n + 1)
        BY <3>2
      <4>4. more[s \ {Max(s)}] = iter[s \ {Max(s)}]
        BY <4>3
      <4> QED
        BY <4>1, <4>2, <4>4
    <3> QED
      BY <3>1, <3>2
  <2>5. Folding(n + 1, base, step, more)
    <3> HIDE DEF more
    <3> QED
      BY <2>3, <2>4 DEF Folding
  <2> HIDE DEF more
  <2>6. Has(n + 1)
    BY <2>3, <2>5
  <2> QED
    BY <1>2, <2>6
<1> HIDE DEF Has
<1>3. 0..N \subseteq T
  <2> HIDE DEF T
  <2> QED
    BY <1>1, <1>2, UpTo
<1>4. Has(N)
  BY <1>3
<1> QED
  BY <1>4 DEF Has

(* w has the values along the sequence, from base to the last, result.      *)
WalksBy(w, N, A, base, step, result) ==
    /\ w \in [0..N -> A]
    /\ w[0] = base
    /\ \A n \in 1..N : w[n] = step[<<w[n - 1], n>>]
    /\ w[N] = result

(* A function that is computed in that way has, along the sequence, values  *)
(* in A, each got from the one before.                                      *)
LEMMA FoldingWalks ==
    ASSUME NEW N \in Nat, NEW A, NEW base \in A, NEW step \in [A \X (1..N) -> A], NEW iter,
           iter[{}] = base,
           \A n \in 1..N : iter[1..n - 1] \in A => iter[1..n] = step[<<iter[1..n - 1], n>>]
    PROVE  \E w : WalksBy(w, N, A, base, step, iter[1..N])
<1> DEFINE T == {n \in 0..N : iter[1..n] \in A}
<1>1. 0 \in T
  <2>1. 1..0 = {}
    OBVIOUS
  <2> QED
    BY <2>1
<1>2. ASSUME NEW n \in 0..N, n < N, n \in T
      PROVE  n + 1 \in T
  <2>1. n + 1 \in 1..N /\ (n + 1) - 1 = n
    BY <1>2
  <2>2. iter[1..n + 1] = step[<<iter[1..n], n + 1>>]
    BY <1>2, <2>1
  <2> QED
    BY <1>2, <2>1, <2>2
<1>3. 0..N \subseteq T
  <2> HIDE DEF T
  <2> QED
    BY <1>1, <1>2, UpTo
<1> DEFINE w == [n \in 0..N |-> iter[1..n]]
<1>4. w \in [0..N -> A]
  BY <1>3
<1>5. w[0] = base
  <2>1. 1..0 = {} /\ 0 \in 0..N
    OBVIOUS
  <2> QED
    BY <2>1
<1>6. ASSUME NEW n \in 1..N
      PROVE  w[n] = step[<<w[n - 1], n>>]
  <2>1. n \in 0..N /\ n - 1 \in 0..N
    OBVIOUS
  <2> QED
    BY <2>1, <1>3
<1>7. w[N] = iter[1..N]
  OBVIOUS
<1> HIDE DEF w
<1>8. WalksBy(w, N, A, base, step, iter[1..N])
  BY <1>4, <1>5, <1>6, <1>7 DEF WalksBy
<1> QED
  BY <1>8
-----------------------------------------------------------------------------
Keeping(wanted, kept, x) == IF x \in wanted THEN Append(kept, x) ELSE kept

LEMMA KeepingIs ==
    ASSUME NEW S, NEW kept \in Seq(S), NEW x \in S, NEW wanted
    PROVE  /\ Keeping(wanted, kept, x) \in Seq(S)
           /\ x \in wanted => Keeping(wanted, kept, x) = Append(kept, x)
           /\ x \notin wanted => Keeping(wanted, kept, x) = kept
  BY DEF Keeping

(* w has what Among keeps of the first elements, up to all.                 *)
WalksAmong(w, S, seq, wanted) ==
    /\ w \in [0..Len(seq) -> Seq(S)]
    /\ w[0] = <<>>
    /\ \A n \in 1..Len(seq) : w[n] = Keeping(wanted, w[n - 1], seq[n])
    /\ w[Len(seq)] = Among(seq, wanted)

LEMMA AmongWalks ==
    ASSUME NEW S, NEW seq \in Seq(S), NEW wanted
    PROVE  \E w : WalksAmong(w, S, seq, wanted)
<1> DEFINE N == Len(seq)
           step == [x \in Seq(S) \X (1..N) |-> Keeping(wanted, x[1], seq[x[2]])]
           Loop(f) == f = [s \in SUBSET DOMAIN seq |->
                             IF s = {} THEN <<>> ELSE Keeping(wanted, f[s \ {Max(s)}], seq[Max(s)])]
           iter == CHOOSE f : Loop(f)
<1>1. N \in Nat /\ DOMAIN seq = 1..N /\ \A i \in 1..N : seq[i] \in S
  OBVIOUS
<1>2. <<>> \in Seq(S)
  OBVIOUS
<1>3. step \in [Seq(S) \X (1..N) -> Seq(S)]
  BY <1>1, KeepingIs
<1>4. \E f : Loop(f)
  <2>1. PICK f \in [SUBSET (1..N) -> Seq(S)] : Folding(N, <<>>, step, f)
    <3> HIDE DEF step, N
    <3> QED
      BY <1>1, <1>2, <1>3, FoldingExists
  <2>2. ASSUME NEW s \in SUBSET (1..N), s # {}
        PROVE  f[s] = Keeping(wanted, f[s \ {Max(s)}], seq[Max(s)])
    <3>1. Max(s) \in s
      BY <2>2, <1>1, MaxIsIn
    <3>2. <<f[s \ {Max(s)}], Max(s)>> \in Seq(S) \X (1..N)
      BY <3>1, <2>1
    <3>3. f[s] = step[<<f[s \ {Max(s)}], Max(s)>>]
      BY <2>2, <2>1 DEF Folding
    <3> QED
      BY <3>2, <3>3
  <2>3. f[{}] = <<>>
    BY <2>1 DEF Folding
  <2>4. Loop(f)
    <3> QED
      BY <2>1, <2>2, <2>3, <1>1
  <2> QED
    BY <2>4
<1>5. Loop(iter)
  <2> HIDE DEF Loop
  <2> QED
    BY <1>4, Zenon
<1>6. Among(seq, wanted) = iter[DOMAIN seq]
  BY Zenon DEF Among, FoldLeft, MapThenFoldSet, Keeping
<1> HIDE DEF iter
<1>7. iter[{}] = <<>>
  BY <1>5
<1>8. ASSUME NEW n \in 1..N, iter[1..n - 1] \in Seq(S)
      PROVE  iter[1..n] = step[<<iter[1..n - 1], n>>]
  <2>1. Max(1..n) = n /\ (1..n) \ {n} = 1..n - 1 /\ 1..n # {}
    BY <1>1, MaxUpTo
  <2>2. 1..n \in SUBSET DOMAIN seq
    BY <1>1
  <2>3. iter[1..n] = Keeping(wanted, iter[(1..n) \ {Max(1..n)}], seq[Max(1..n)])
    <3> QED
      BY <1>5, <2>1, <2>2
  <2>4. step[<<iter[1..n - 1], n>>] = Keeping(wanted, iter[1..n - 1], seq[n])
    <3> QED
      BY <1>8
  <2> HIDE DEF step
  <2> QED
    BY <2>1, <2>3, <2>4
<1>9. PICK w : WalksBy(w, N, Seq(S), <<>>, step, iter[1..N])
  <2> HIDE DEF step, N
  <2> QED
    BY <1>1, <1>2, <1>3, <1>7, <1>8, FoldingWalks
<1>10. w \in [0..N -> Seq(S)] /\ w[0] = <<>> /\ w[N] = iter[1..N]
  BY <1>9 DEF WalksBy
<1>11. ASSUME NEW n \in 1..N
       PROVE  w[n] = Keeping(wanted, w[n - 1], seq[n])
  <2>1. n - 1 \in 0..N
    BY <1>1
  <2>2. <<w[n - 1], n>> \in Seq(S) \X (1..N)
    BY <1>10, <2>1
  <2>3. w[n] = step[<<w[n - 1], n>>]
    BY <1>9 DEF WalksBy
  <2> QED
    BY <2>2, <2>3
<1>12. w[N] = Among(seq, wanted)
  BY <1>1, <1>6, <1>10
<1> HIDE DEF step, Loop
<1>13. WalksAmong(w, S, seq, wanted)
  BY <1>10, <1>11, <1>12 DEF WalksAmong
<1> QED
  BY <1>13

(* to is what is left of the first n elements of from when some of them are *)
(* dropped: those at these places.                                          *)
Leaves(places, from, n, to) ==
    /\ places \in [1..Len(to) -> 1..n]
    /\ \A i, j \in 1..Len(to) : i < j => places[i] < places[j]
    /\ \A i \in 1..Len(to) : to[i] = from[places[i]]

Places(places, to) == {places[i] : i \in 1..Len(to)}

NoneLeft == [i \in 1..0 |-> 0]
OneMore(places, k, n) == [i \in 1..k + 1 |-> IF i = k + 1 THEN n + 1 ELSE places[i]]

LEMMA NoneIsLeft == \A from : Leaves(NoneLeft, from, 0, <<>>)
  BY DEF Leaves, NoneLeft

LEMMA FewerLeft ==
    ASSUME NEW n \in Nat, NEW S, NEW to \in Seq(S), NEW from,
           NEW places, Leaves(places, from, n, to)
    PROVE  Leaves(places, from, n + 1, to)
  BY DEF Leaves

LEMMA OneMoreLeft ==
    ASSUME NEW n \in Nat, NEW S, NEW to \in Seq(S), NEW from, from[n + 1] \in S,
           NEW places, Leaves(places, from, n, to)
    PROVE  /\ Leaves(OneMore(places, Len(to), n), from, n + 1, Append(to, from[n + 1]))
           /\ Places(OneMore(places, Len(to), n), Append(to, from[n + 1])) =
                  Places(places, to) \cup {n + 1}
<1> DEFINE longer == Append(to, from[n + 1])
           k == Len(to)
           more == OneMore(places, k, n)
<1>1. k \in Nat /\ Len(longer) = k + 1
  OBVIOUS
<1>2. \A i \in 1..k : more[i] = places[i] /\ longer[i] = to[i] /\ i \in 1..k + 1
  BY <1>1 DEF OneMore
<1>3. more[k + 1] = n + 1 /\ longer[k + 1] = from[n + 1] /\ k + 1 \in 1..k + 1
  BY <1>1 DEF OneMore
<1>4. more \in [1..k + 1 -> 1..n + 1]
  BY <1>1 DEF OneMore, Leaves
<1>5. \A i \in 1..k + 1 : i \in 1..k \/ i = k + 1
  BY <1>1
<1> HIDE DEF longer, k, more
<1>6. \A i, j \in 1..k + 1 : i < j => more[i] < more[j]
  <2>1. \A i \in 1..k : places[i] \in 1..n
    BY DEF Leaves, k
  <2>2. \A i, j \in 1..k : i < j => places[i] < places[j]
    BY DEF Leaves, k
  <2>3. ASSUME NEW i \in 1..k + 1, NEW j \in 1..k + 1, i < j
        PROVE  more[i] < more[j]
    <3>1. i \in 1..k
      BY <1>1, <2>3
    <3>2. CASE j \in 1..k
      BY <3>1, <3>2, <2>2, <2>3, <1>2
    <3>3. CASE j = k + 1
      BY <3>1, <3>3, <2>1, <1>2, <1>3
    <3> QED
      BY <3>2, <3>3, <1>5
  <2> QED
    BY <2>3
<1>7. \A i \in 1..k + 1 : longer[i] = from[more[i]]
  <2>1. \A i \in 1..k : to[i] = from[places[i]]
    BY DEF Leaves, k
  <2> QED
    BY <2>1, <1>2, <1>3, <1>5
<1>8. Leaves(more, from, n + 1, longer)
  BY <1>1, <1>4, <1>6, <1>7 DEF Leaves
<1>9. {more[i] : i \in 1..k + 1} = {places[i] : i \in 1..k} \cup {n + 1}
  BY <1>1, <1>2, <1>3, <1>5
<1> QED
  BY <1>1, <1>8, <1>9 DEF longer, k, more, Places

(* What Among keeps: the wanted elements, each at a place of its own.       *)
LEMMA AmongLeaves ==
    ASSUME NEW S, NEW seq \in Seq(S), NEW wanted
    PROVE  /\ Among(seq, wanted) \in Seq(S)
           /\ \E places :
                /\ Leaves(places, seq, Len(seq), Among(seq, wanted))
                /\ Places(places, Among(seq, wanted)) =
                      {n \in 1..Len(seq) : seq[n] \in wanted}
<1> DEFINE N == Len(seq)
<1>1. N \in Nat /\ \A n \in 1..N : seq[n] \in S
  OBVIOUS
<1>2. PICK w : WalksAmong(w, S, seq, wanted)
  BY AmongWalks
<1>3. /\ \A n \in 0..N : w[n] \in Seq(S)
      /\ w[0] = <<>>
      /\ \A n \in 1..N : w[n] = Keeping(wanted, w[n - 1], seq[n])
      /\ w[N] = Among(seq, wanted)
  BY <1>2 DEF WalksAmong
<1> DEFINE Fits(n, places) ==
              /\ Leaves(places, seq, n, w[n])
              /\ Places(places, w[n]) = {m \in 1..n : seq[m] \in wanted}
           T == {n \in 0..N : \E places : Fits(n, places)}
<1> HIDE DEF N
<1>4. 0 \in T
  <2>1. Fits(0, NoneLeft)
    <3>1. Len(w[0]) = 0
      BY <1>3
    <3>2. Places(NoneLeft, w[0]) = {m \in 1..0 : seq[m] \in wanted}
      BY <3>1 DEF Places
    <3>3. Leaves(NoneLeft, seq, 0, w[0])
      BY <1>3, NoneIsLeft
    <3> QED
      BY <3>2, <3>3
  <2>2. 0 \in 0..N
    BY <1>1
  <2> HIDE DEF Fits
  <2> QED
    BY <2>1, <2>2
<1>5. ASSUME NEW n \in 0..N, n < N, n \in T
      PROVE  n + 1 \in T
  <2>1. PICK places : Fits(n, places)
    BY <1>5
  <2>2. n \in Nat /\ n + 1 \in 1..N /\ (n + 1) - 1 = n /\ w[n] \in Seq(S) /\ seq[n + 1] \in S
    <3> HIDE DEF T, Fits
    <3>1. n \in Nat /\ n + 1 \in 1..N /\ (n + 1) - 1 = n
      BY <1>1, <1>5
    <3>2. w[n] \in Seq(S)
      BY <1>3
    <3>3. seq[n + 1] \in S
      BY <1>1, <3>1
    <3> QED
      BY <3>1, <3>2, <3>3
  <2>3. w[n + 1] = Keeping(wanted, w[n], seq[n + 1])
    BY <1>3, <2>2
  <2>4. 1..n + 1 = (1..n) \cup {n + 1}
    BY <2>2
  <2>5. CASE seq[n + 1] \in wanted
    <3>1. w[n + 1] = Append(w[n], seq[n + 1])
      BY <2>3, <2>5 DEF Keeping
    <3>2. {m \in 1..n + 1 : seq[m] \in wanted} = {m \in 1..n : seq[m] \in wanted} \cup {n + 1}
      BY <2>4, <2>5
    <3> DEFINE more == OneMore(places, Len(w[n]), n)
    <3>3. /\ Leaves(more, seq, n + 1, Append(w[n], seq[n + 1]))
          /\ Places(more, Append(w[n], seq[n + 1])) = Places(places, w[n]) \cup {n + 1}
      BY <2>1, <2>2, OneMoreLeft
    <3> HIDE DEF more
    <3>4. Fits(n + 1, more)
      BY <2>1, <3>1, <3>2, <3>3
    <3> HIDE DEF Fits
    <3> QED
      BY <3>4, <2>2
  <2>6. CASE seq[n + 1] \notin wanted
    <3>1. w[n + 1] = w[n]
      BY <2>3, <2>6 DEF Keeping
    <3>2. {m \in 1..n + 1 : seq[m] \in wanted} = {m \in 1..n : seq[m] \in wanted}
      BY <2>4, <2>6
    <3>3. Fits(n + 1, places)
      BY <2>1, <2>2, <3>1, <3>2, FewerLeft
    <3> QED
      BY <3>3, <2>2
  <2> QED
    BY <2>5, <2>6
<1>6. 0..N \subseteq T
  <2> HIDE DEF T
  <2> QED
    BY <1>1, <1>4, <1>5, UpTo
<1>7. PICK places : Fits(N, places)
  <2> HIDE DEF Fits
  <2> QED
    BY <1>1, <1>6
<1>8. Among(seq, wanted) \in Seq(S)
  BY <1>1, <1>3
<1>9. /\ Leaves(places, seq, N, Among(seq, wanted))
      /\ Places(places, Among(seq, wanted)) = {n \in 1..N : seq[n] \in wanted}
  BY <1>3, <1>7
<1> QED
  BY <1>8, <1>9 DEF N
-----------------------------------------------------------------------------
(* One element more behind two sequences that are joined.                    *)
AppendsOn(p, q, x) == Append(p \o q, x) = p \o Append(q, x)

LEMMA AppendJoin ==
    ASSUME NEW S, NEW p \in Seq(S), NEW q \in Seq(S), NEW x \in S
    PROVE  AppendsOn(p, q, x)
<1>1. PICK y \in Seq(S) : y = <<x>>
  <2>1. <<x>> \in Seq(S)
    OBVIOUS
  <2> QED
    BY <2>1
<1>2. PICK pq \in Seq(S) : pq = p \o q
  BY ConcatProperties
<1>3. Append(pq, x) = pq \o y /\ Append(q, x) = q \o y
  BY <1>1, AppendIsConcat
<1>4. (p \o q) \o y = p \o (q \o y)
  BY ConcatAssociative
<1> QED
  BY <1>2, <1>3, <1>4 DEF AppendsOn

(* What Among keeps of two sequences, one behind the other.                 *)
LEMMA AmongJoin ==
    ASSUME NEW S, NEW a \in Seq(S), NEW b \in Seq(S), NEW wanted
    PROVE  Among(a \o b, wanted) = Among(a, wanted) \o Among(b, wanted)
<1>1. PICK M \in Nat : M = Len(a)
  OBVIOUS
<1>2. PICK N \in Nat : N = Len(b)
  OBVIOUS
<1>3. PICK c \in Seq(S) : c = a \o b
  BY ConcatProperties
<1>4. Len(c) = M + N /\ \A i \in 1..M + N : c[i] = IF i <= M THEN a[i] ELSE b[i - M]
  BY <1>1, <1>2, <1>3, ConcatProperties
<1>5. PICK u : WalksAmong(u, S, a, wanted)
  BY AmongWalks
<1>6. PICK v : WalksAmong(v, S, b, wanted)
  BY AmongWalks
<1>7. PICK w : WalksAmong(w, S, c, wanted)
  BY AmongWalks
<1>8. /\ \A n \in 0..M : u[n] \in Seq(S)
      /\ u[0] = <<>> /\ u[M] = Among(a, wanted)
      /\ \A n \in 1..M : u[n] = Keeping(wanted, u[n - 1], a[n])
  BY <1>1, <1>5 DEF WalksAmong
<1>9. /\ \A n \in 0..N : v[n] \in Seq(S)
      /\ v[0] = <<>> /\ v[N] = Among(b, wanted)
      /\ \A n \in 1..N : v[n] = Keeping(wanted, v[n - 1], b[n])
  BY <1>2, <1>6 DEF WalksAmong
<1>10. /\ w[0] = <<>> /\ w[M + N] = Among(c, wanted)
       /\ \A n \in 1..M + N : w[n] = Keeping(wanted, w[n - 1], c[n])
  BY <1>4, <1>7 DEF WalksAmong
<1>11. \A n \in 1..N : b[n] \in S
  BY <1>2
<1> DEFINE T == {n \in 0..M : w[n] = u[n]}
           V == {n \in 0..N : w[M + n] = u[M] \o v[n]}
<1>12. 0..M \subseteq T
  <2>1. 0 \in T
    BY <1>8, <1>10
  <2>2. ASSUME NEW n \in 0..M, n < M, n \in T
        PROVE  n + 1 \in T
    <3>1. n + 1 \in 1..M /\ n + 1 \in 1..M + N /\ (n + 1) - 1 = n /\ n + 1 <= M /\ n + 1 \in 0..M
      BY <2>2
    <3>2. w[n + 1] = Keeping(wanted, w[n], a[n + 1])
      BY <1>4, <1>10, <3>1
    <3>3. u[n + 1] = Keeping(wanted, u[n], a[n + 1])
      BY <1>8, <3>1
    <3> QED
      BY <2>2, <3>1, <3>2, <3>3
  <2> HIDE DEF T
  <2> QED
    BY <2>1, <2>2, UpTo
<1>13. 0..N \subseteq V
  <2>1. 0 \in V
    <3>1. M \in 0..M /\ M + 0 = M /\ 0 \in 0..N
      OBVIOUS
    <3>2. w[M + 0] = u[M] /\ u[M] \in Seq(S)
      BY <1>8, <1>12, <3>1
    <3>3. w[M + 0] = u[M] \o v[0]
      BY <1>9, <3>2, ConcatEmptySeq
    <3> QED
      BY <3>1, <3>3
  <2>2. ASSUME NEW n \in 0..N, n < N, n \in V
        PROVE  n + 1 \in V
    <3>1. n + 1 \in 1..N /\ M + (n + 1) \in 1..M + N /\ (n + 1) - 1 = n /\ n + 1 \in 0..N
          /\ (M + (n + 1)) - 1 = M + n /\ ~(M + (n + 1) <= M) /\ (M + (n + 1)) - M = n + 1
      BY <2>2
    <3>2. w[M + (n + 1)] = Keeping(wanted, w[M + n], b[n + 1])
      BY <1>4, <1>10, <3>1
    <3>3. v[n + 1] = Keeping(wanted, v[n], b[n + 1])
      BY <1>9, <3>1
    <3>4. PICK p \in Seq(S) : p = u[M]
      BY <1>8
    <3>5. PICK q \in Seq(S) : q = v[n]
      BY <1>9
    <3>6. PICK x \in S : x = b[n + 1]
      BY <1>11, <3>1
    <3>7. Append(p \o q, x) = p \o Append(q, x)
      <4>1. AppendsOn(p, q, x)
        BY AppendJoin
      <4> QED
        BY <4>1 DEF AppendsOn
    <3>8. w[M + n] = p \o q
      BY <2>2, <3>4, <3>5
    <3>9. w[M + (n + 1)] = Keeping(wanted, p \o q, x) /\ v[n + 1] = Keeping(wanted, q, x)
      BY <3>2, <3>3, <3>5, <3>6, <3>8
    <3>10. Keeping(wanted, p \o q, x) = p \o Keeping(wanted, q, x)
      BY <3>7 DEF Keeping
    <3>11. w[M + (n + 1)] = u[M] \o v[n + 1]
      BY <3>4, <3>9, <3>10
    <3> QED
      BY <3>1, <3>11
  <2> HIDE DEF V
  <2> QED
    BY <2>1, <2>2, UpTo
<1>14. w[M + N] = u[M] \o v[N]
  <2>1. N \in 0..N
    OBVIOUS
  <2> QED
    BY <2>1, <1>13
<1> QED
  BY <1>3, <1>8, <1>9, <1>10, <1>14

LEMMA AmongNone ==
    ASSUME NEW S, NEW seq \in Seq(S), NEW wanted, \A n \in 1..Len(seq) : seq[n] \notin wanted
    PROVE  Among(seq, wanted) = <<>>
<1>1. PICK kept \in Seq(S) : kept = Among(seq, wanted)
  BY AmongLeaves
<1>2. PICK places : Places(places, kept) = {n \in 1..Len(seq) : seq[n] \in wanted}
  BY <1>1, AmongLeaves
<1>3. Places(places, kept) = {}
  BY <1>2
<1>4. Len(kept) = 0
  <2> SUFFICES ASSUME Len(kept) # 0 PROVE FALSE
    OBVIOUS
  <2>1. 1 \in 1..Len(kept)
    BY <1>1
  <2>2. places[1] \in Places(places, kept)
    BY <2>1 DEF Places
  <2> QED
    BY <2>2, <1>3
<1> QED
  BY <1>1, <1>4

LEMMA AmongSome ==
    ASSUME NEW S, NEW seq \in Seq(S), NEW wanted, NEW n \in 1..Len(seq), seq[n] \in wanted
    PROVE  Len(Among(seq, wanted)) >= 1
<1>1. PICK kept \in Seq(S) : kept = Among(seq, wanted)
  BY AmongLeaves
<1>2. PICK places : Places(places, kept) = {m \in 1..Len(seq) : seq[m] \in wanted}
  BY <1>1, AmongLeaves
<1>3. n \in Places(places, kept)
  BY <1>2
<1>4. PICK i \in 1..Len(kept) : places[i] = n
  BY <1>3 DEF Places
<1> QED
  BY <1>1, <1>4

LEMMA AmongOne ==
    ASSUME NEW S, NEW x \in S, NEW wanted
    PROVE  Among(<<x>>, wanted) = IF x \in wanted THEN <<x>> ELSE <<>>
<1>1. PICK seq \in Seq(S) : seq = <<x>> /\ Len(seq) = 1 /\ seq[1] = x
  <2>1. <<x>> \in Seq(S)
    OBVIOUS
  <2>2. Len(<<x>>) = 1 /\ <<x>>[1] = x
    OBVIOUS
  <2> QED
    BY <2>1, <2>2
<1>2. PICK w : WalksAmong(w, S, seq, wanted)
  BY AmongWalks
<1>3. w[0] = <<>> /\ w[1] = Keeping(wanted, w[1 - 1], seq[1]) /\ w[1] = Among(seq, wanted)
  BY <1>1, <1>2 DEF WalksAmong
<1>4. w[1] = Keeping(wanted, <<>>, x)
  BY <1>1, <1>3
<1> QED
  BY <1>1, <1>3, <1>4 DEF Keeping
=============================================================================
