--------------------------- MODULE NpShellProofs ---------------------------
(***************************************************************************)
(* Theorems about NpShell for file tables of any size, lines of any number *)
(* of commands and any N.                                                  *)
(***************************************************************************)
EXTENDS NpShell, FiniteSetTheorems, Induction

Table     == [Fd -> End \cup {Closed}]
Stream    == End \cup {Terminal}
PipeEnds  == [r : Fd, w : Fd]
DueEntry  == [r : Fd, w : Fd, number : {0}]
Works == [fds : Table, cur : Seq(DueEntry), pi : Seq(PipeEnds),
          ins : Seq(Stream), outs : Seq(Stream), ok : BOOLEAN]
-----------------------------------------------------------------------------
LEMMA SmallestIs ==
    ASSUME NEW S \in SUBSET Nat, S # {}
    PROVE  Min(S) \in S
<1>1. \E n \in S : \A m \in S : n <= m
  BY Least
<1> QED
  BY <1>1 DEF Min

(* pipe() finds two descriptors that are free, when there are two.          *)
LEMMA EndsAre ==
    ASSUME NEW F, Cardinality(Free(F)) >= 2
    PROVE  /\ Ends(F) \in PipeEnds
           /\ Ends(F).r \in Free(F) /\ Ends(F).w \in Free(F) /\ Ends(F).r # Ends(F).w
<1> DEFINE S == Free(F)
           r == Min(S)
           w == Min(S \ {r})
<1>1. Fd \subseteq Nat /\ IsFiniteSet(Fd)
  BY NpShellAssumption, FS_Interval DEF Fd
<1>2. S \in SUBSET Nat /\ S \subseteq Fd /\ IsFiniteSet(S)
  BY <1>1, FS_Subset DEF Free
<1>3. Cardinality(S) >= 2
  OBVIOUS
<1> HIDE DEF S
<1>4. S # {}
  BY <1>3, FS_EmptySet
<1>5. r \in S
  BY <1>2, <1>4, SmallestIs
<1>6. S \ {r} # {}
  <2>1. SUFFICES ASSUME S \ {r} = {} PROVE FALSE
    OBVIOUS
  <2>2. S = {r}
    BY <1>5, <2>1
  <2>3. Cardinality(S) = 1
    BY <2>2, FS_Singleton
  <2> QED
    BY <1>3, <2>3
<1>7. w \in S \ {r}
  BY <1>2, <1>6, SmallestIs
<1>8. Ends(F) = [r |-> r, w |-> w]
  BY DEF Ends, S
<1> HIDE DEF r, w
<1> QED
  BY <1>2, <1>5, <1>7, <1>8 DEF S, PipeEnds

LEMMA ShutIs ==
    ASSUME NEW F \in Table, NEW X
    PROVE  /\ Shut(F, X) \in Table
           /\ \A d \in Fd : Shut(F, X)[d] = IF d \in X THEN Closed ELSE F[d]
  BY DEF Shut, Table

LEMMA PipedIs ==
    ASSUME NEW F \in Table, NEW ends \in PipeEnds, ends.r # ends.w, NEW pipe \in Pipe
    PROVE  /\ Piped(F, ends, pipe) \in Table
           /\ Piped(F, ends, pipe)[ends.r] = <<pipe, "r">>
           /\ Piped(F, ends, pipe)[ends.w] = <<pipe, "w">>
           /\ \A d \in Fd \ {ends.r, ends.w} : Piped(F, ends, pipe)[d] = F[d]
<1>1. <<pipe, "r">> \in End \cup {Closed} /\ <<pipe, "w">> \in End \cup {Closed}
  BY DEF End
<1>2. ends.r \in Fd /\ ends.w \in Fd
  BY DEF PipeEnds
<1> QED
  BY <1>1, <1>2 DEF Piped, Table

LEMMA FoundIs ==
    ASSUME NEW F \in Table, NEW d
    PROVE  /\ Found(F, d) \in Stream
           /\ d \in Fd /\ F[d] # Closed => Found(F, d) = F[d]
           /\ d \notin Fd => Found(F, d) = Terminal
  BY DEF Found, Open, Free, Table, Stream

LEMMA OwnIsNone == Own \notin Fd
  BY NpShellAssumption DEF Own, Fd

LEMMA ShutCurWriteIs ==
    ASSUME NEW w \in Works
    PROVE  /\ ShutCurWrite(w) \in Works
           /\ w.cur = <<>> => ShutCurWrite(w) = w
           /\ w.cur # <<>> => /\ w.cur[1] \in DueEntry
                              /\ ShutCurWrite(w) = [w EXCEPT !.fds = Shut(w.fds, {w.cur[1].w})]
<1>1. w.fds \in Table /\ w.cur \in Seq(DueEntry)
  BY DEF Works
<1>2. \A X : Shut(w.fds, X) \in Table
  BY <1>1, ShutIs
<1>3. w.cur # <<>> => w.cur[1] \in DueEntry
  BY <1>1
<1> QED
  BY <1>2, <1>3 DEF ShutCurWrite, Works

LEMMA ReleaseIs ==
    ASSUME NEW w \in Works
    PROVE  /\ Release(w) \in Works
           /\ w.cur = <<>> => Release(w) = w
           /\ w.cur # <<>> => Release(w) = [w EXCEPT !.fds = Shut(w.fds, {w.cur[1].r, w.cur[1].w}),
                                                     !.cur = SubSeq(w.cur, 1, Len(w.cur) - 1)]
           /\ Len(w.cur) = 1 => Release(w).cur = <<>>
<1>1. w.fds \in Table /\ w.cur \in Seq(DueEntry)
  BY DEF Works
<1>2. \A X : Shut(w.fds, X) \in Table
  BY <1>1, ShutIs
<1>3. w.cur # <<>> => SubSeq(w.cur, 1, Len(w.cur) - 1) \in Seq(DueEntry)
  BY <1>1
<1>4. Release(w) \in Works
  BY <1>2, <1>3 DEF Release, Works
<1>5. w.cur # <<>> => Release(w) = [w EXCEPT !.fds = Shut(w.fds, {w.cur[1].r, w.cur[1].w}),
                                             !.cur = SubSeq(w.cur, 1, Len(w.cur) - 1)]
  BY DEF Release
<1>6. ASSUME Len(w.cur) = 1 PROVE Release(w).cur = <<>>
  <2>1. SubSeq(w.cur, 1, Len(w.cur) - 1) = <<>> /\ w.cur # <<>>
    <3>1. Len(w.cur) - 1 = 0
      BY <1>6
    <3>2. SubSeq(w.cur, 1, 0) = <<>> /\ w.cur # <<>>
      BY <1>1, <1>6
    <3> QED
      BY <3>1, <3>2
  <2>2. \A seq : [w EXCEPT !.fds = Shut(w.fds, {w.cur[1].r, w.cur[1].w}), !.cur = seq].cur = seq
    BY DEF Works
  <2> QED
    BY <1>5, <2>1, <2>2
<1> QED
  BY <1>4, <1>5, <1>6 DEF Release

LEMMA ForkedIs ==
    ASSUME NEW w \in Works, NEW in \in Stream, NEW out \in Stream
    PROVE  /\ Forked(w, in, out) \in Works
           /\ Forked(w, in, out) = [w EXCEPT !.ins = Append(w.ins, in), !.outs = Append(w.outs, out)]
<1>1. Forked(w, in, out) = [w EXCEPT !.ins = Append(w.ins, in), !.outs = Append(w.outs, out)]
  BY DEF Forked
<1>2. w.ins \in Seq(Stream) /\ w.outs \in Seq(Stream)
  BY DEF Works
<1>3. Append(w.ins, in) \in Seq(Stream) /\ Append(w.outs, out) \in Seq(Stream)
  BY <1>2
<1> QED
  BY <1>1, <1>3 DEF Works
-----------------------------------------------------------------------------
(* A stage, in its parts.                                                   *)
CurWrite(w) == IF w.cur = <<>> THEN {} ELSE {w.cur[1].w}
CurEnds(w)  == IF w.cur = <<>> THEN {} ELSE {w.cur[1].r, w.cur[1].w}

AtFork(w, i, sink) ==
    Shut(Piped(w.fds, Ends(w.fds), <<line + 1, i>>), IF sink = Own THEN CurWrite(w) ELSE {})
InChild(w, i, sink) == Shut(AtFork(w, i, sink), IF i = 1 THEN {Ends(w.fds).r} ELSE {})
Previous(w, i) == IF i = 1 THEN {} ELSE {w.pi[i - 1].r}
StdIn(w, i)    == IF i = 1 THEN CurRead(w) ELSE w.pi[i - 1].r
StdOut(w, i, k, sink) == IF i = k THEN sink ELSE Ends(w.fds).w
Gone(w, i, sink) ==
    Shut(AtFork(w, i, sink), {Ends(w.fds).w} \cup Previous(w, i))

StageRuns(w, s, i, k, sink, release) ==
    /\ s \in Works /\ s.ok
    /\ s.fds = Shut(Gone(w, i, sink), IF release THEN CurEnds(w) ELSE {})
    /\ s.pi = Append(w.pi, Ends(w.fds))
    /\ s.ins = Append(w.ins, Found(InChild(w, i, sink), StdIn(w, i)))
    /\ s.outs = Append(w.outs, Found(InChild(w, i, sink), StdOut(w, i, k, sink)))
    /\ ~release \/ w.cur = <<>> => s.cur = w.cur
    /\ release /\ Len(w.cur) = 1 => s.cur = <<>>

LEMMA ShutNothing == ASSUME NEW F \in Table PROVE Shut(F, {}) = F
  BY DEF Shut, Table

LEMMA StageIs ==
    ASSUME NEW w \in Works, NEW i \in 1..MaxStage, NEW k, NEW sink, NEW release \in BOOLEAN,
           line \in 0..MaxLine - 1
    PROVE  \/ /\ Stage(w, i, k, sink, release) = [w EXCEPT !.ok = FALSE]
              /\ ~w.ok \/ ~(Cardinality(Free(w.fds)) >= 2)
           \/ /\ w.ok /\ Cardinality(Free(w.fds)) >= 2
              /\ StageRuns(w, Stage(w, i, k, sink, release), i, k, sink, release)
<1>1. IsFiniteSet(Free(w.fds))
  <2>1. IsFiniteSet(Fd) /\ Free(w.fds) \subseteq Fd
    BY NpShellAssumption, FS_Interval DEF Fd, Free
  <2> QED
    BY <2>1, FS_Subset
<1>2. Cardinality(Free(w.fds)) \in Nat
  BY <1>1, FS_CardinalityType
<1>3. CASE ~w.ok \/ Cardinality(Free(w.fds)) < 2
  BY <1>2, <1>3 DEF Stage
<1>4. CASE w.ok /\ Cardinality(Free(w.fds)) >= 2
  <2> DEFINE ends   == Ends(w.fds)
             pipe   == <<line + 1, i>>
             opened == [w EXCEPT !.fds = Piped(w.fds, ends, pipe), !.pi = Append(w.pi, ends)]
             atFork == IF sink = Own THEN ShutCurWrite(opened) ELSE opened
             child  == Shut(atFork.fds, IF i = 1 THEN {ends.r} ELSE {})
             in     == IF i = 1 THEN CurRead(atFork) ELSE w.pi[i - 1].r
             out    == IF i = k THEN sink ELSE ends.w
             forked == Forked(atFork, Found(child, in), Found(child, out))
             closed == [forked EXCEPT !.fds = Shut(forked.fds, {ends.w} \cup Previous(w, i))]
             s      == Stage(w, i, k, sink, release)
  <2>0. ~(~w.ok \/ Cardinality(Free(w.fds)) < 2)
    BY <1>2, <1>4
  <2>1. s = IF release THEN Release(closed) ELSE closed
    BY <2>0 DEF Stage, Previous
  <2>2. ends \in PipeEnds /\ ends.r # ends.w
    BY <1>4, EndsAre
  <2>3. w.fds \in Table /\ w.pi \in Seq(PipeEnds) /\ pipe \in Pipe
    BY NpShellAssumption DEF Works, Pipe
  <2> HIDE DEF ends, pipe
  <2>4. Piped(w.fds, ends, pipe) \in Table
    BY <2>2, <2>3, PipedIs
  <2>5. /\ opened \in Works /\ opened.cur = w.cur /\ opened.fds = Piped(w.fds, ends, pipe)
        /\ opened.pi = Append(w.pi, ends) /\ opened.ins = w.ins /\ opened.outs = w.outs
        /\ opened.ok
    <3>1. Append(w.pi, ends) \in Seq(PipeEnds)
      BY <2>2, <2>3
    <3> QED
      BY <1>4, <2>4, <3>1 DEF Works
  <2> HIDE DEF opened
  <2>6. /\ atFork \in Works /\ atFork.cur = w.cur /\ atFork.pi = opened.pi
        /\ atFork.ins = w.ins /\ atFork.outs = w.outs /\ atFork.ok
        /\ atFork.fds = AtFork(w, i, sink)
    <3>0. AtFork(w, i, sink) = Shut(opened.fds, IF sink = Own THEN CurWrite(opened) ELSE {})
      BY <2>5 DEF AtFork, CurWrite, ends, pipe
    <3>1. CASE sink # Own \/ w.cur = <<>>
      <4>1. atFork = opened
        BY <2>5, <3>1, ShutCurWriteIs
      <4>2. Shut(opened.fds, {}) = opened.fds
        BY <2>4, <2>5, ShutNothing
      <4>3. AtFork(w, i, sink) = opened.fds
        BY <2>5, <3>0, <3>1, <4>2 DEF CurWrite
      <4> QED
        BY <2>5, <4>1, <4>3
    <3>2. CASE sink = Own /\ w.cur # <<>>
      <4>1. /\ atFork = [opened EXCEPT !.fds = Shut(opened.fds, {opened.cur[1].w})]
            /\ atFork \in Works
        BY <2>5, <3>2, ShutCurWriteIs
      <4> HIDE DEF atFork
      <4>2. atFork.fds = Shut(opened.fds, {opened.cur[1].w})
        BY <2>5, <4>1 DEF Works
      <4> QED
        BY <2>5, <3>0, <3>2, <4>1, <4>2 DEF Works, CurWrite
    <3> QED
      BY <3>1, <3>2
  <2> HIDE DEF atFork
  <2>7. child = InChild(w, i, sink) /\ in = StdIn(w, i) /\ out = StdOut(w, i, k, sink)
        /\ child \in Table
    <3>1. CurRead(atFork) = CurRead(w)
      BY <2>6 DEF CurRead
    <3>2. child \in Table
      BY <2>6, ShutIs DEF Works
    <3> QED
      BY <2>6, <3>1, <3>2 DEF InChild, StdIn, StdOut, ends
  <2> HIDE DEF child, in, out
  <2>8. /\ forked \in Works /\ forked.fds = atFork.fds /\ forked.cur = w.cur /\ forked.pi = opened.pi
        /\ forked.ins = Append(w.ins, Found(child, in)) /\ forked.outs = Append(w.outs, Found(child, out))
        /\ forked.ok
    <3>1. Found(child, in) \in Stream /\ Found(child, out) \in Stream
      BY <2>7, FoundIs
    <3>2. /\ forked \in Works
          /\ forked = [atFork EXCEPT !.ins = Append(atFork.ins, Found(child, in)),
                                     !.outs = Append(atFork.outs, Found(child, out))]
      <4>1. atFork \in Works
        BY <2>6
      <4> QED
        BY <3>1, <4>1, ForkedIs, Zenon
    <3> HIDE DEF forked
    <3> QED
      BY <2>6, <3>2 DEF Works
  <2> HIDE DEF forked
  <2>9. /\ closed \in Works /\ closed.fds = Gone(w, i, sink) /\ closed.cur = w.cur
        /\ closed.pi = Append(w.pi, ends) /\ closed.ins = forked.ins /\ closed.outs = forked.outs
        /\ closed.ok
    <3>1. Shut(forked.fds, {ends.w} \cup Previous(w, i)) \in Table
      BY <2>8, ShutIs DEF Works
    <3>2. Shut(forked.fds, {ends.w} \cup Previous(w, i)) = Gone(w, i, sink)
      BY <2>6, <2>8 DEF Gone, ends
    <3> QED
      BY <2>5, <2>8, <3>1, <3>2 DEF Works
  <2> HIDE DEF closed
  <2>10. CASE ~release
    <3>1. Shut(closed.fds, {}) = closed.fds /\ s = closed
      BY <2>1, <2>9, <2>10, ShutNothing DEF Works
    <3> QED
      BY <1>4, <2>7, <2>8, <2>9, <2>10, <3>1 DEF StageRuns, ends
  <2>11. CASE release
    <3>1. s = Release(closed)
      BY <2>1, <2>11
    <3> HIDE DEF s
    <3>2. CASE closed.cur = <<>>
      <4>1. s = closed /\ CurEnds(w) = {} /\ Shut(closed.fds, {}) = closed.fds /\ Len(w.cur) # 1
        <5>1. closed.fds \in Table /\ Len(<<>>) = 0 /\ w.cur = <<>>
          BY <2>9, <3>2 DEF Works
        <5>2. s = closed
          BY <2>9, <3>1, <3>2, ReleaseIs
        <5> QED
          BY <5>1, <5>2, ShutNothing DEF CurEnds
      <4> QED
        BY <1>4, <2>7, <2>8, <2>9, <2>11, <3>2, <4>1 DEF StageRuns, ends, s
    <3>3. CASE closed.cur # <<>>
      <4>1. /\ s \in Works
            /\ s = [closed EXCEPT !.fds = Shut(closed.fds, {closed.cur[1].r, closed.cur[1].w}),
                                  !.cur = SubSeq(closed.cur, 1, Len(closed.cur) - 1)]
            /\ Len(closed.cur) = 1 => s.cur = <<>>
        BY <2>9, <3>1, <3>3, ReleaseIs
      <4>2. /\ s.fds = Shut(closed.fds, CurEnds(w)) /\ s.pi = closed.pi /\ s.ins = closed.ins
            /\ s.outs = closed.outs /\ s.ok
        BY <2>9, <3>3, <4>1 DEF Works, CurEnds
      <4> QED
        BY <1>4, <2>7, <2>8, <2>9, <2>11, <3>3, <4>1, <4>2 DEF StageRuns, ends, s
    <3> QED
      BY <3>2, <3>3
  <2> QED
    BY <1>4, <2>10, <2>11
<1> QED
  BY <1>2, <1>3, <1>4
-----------------------------------------------------------------------------
Outcome(w, i, k, sink, release) ==
    \/ Stage(w, i, k, sink, release) = [w EXCEPT !.ok = FALSE]
    \/ w.ok /\ StageRuns(w, Stage(w, i, k, sink, release), i, k, sink, release)

LEMMA StageOutcome ==
    ASSUME NEW w \in Works, NEW i \in 1..MaxStage, NEW k, NEW sink, NEW release \in BOOLEAN,
           line \in 0..MaxLine - 1
    PROVE  Outcome(w, i, k, sink, release)
<1>1. PICK s : s = Stage(w, i, k, sink, release)
  OBVIOUS
<1>2. s = [w EXCEPT !.ok = FALSE] \/ StageRuns(w, s, i, k, sink, release)
  BY <1>1, StageIs, Zenon
<1>3. s = [w EXCEPT !.ok = FALSE] \/ w.ok
  BY <1>1, StageIs, Zenon
<1> QED
  BY <1>1, <1>2, <1>3, Zenon DEF Outcome

(* v has the line at work after its first stages, up to all.                *)
WalksStages(v, work, k, sink, releasing) ==
    /\ v \in [0..k -> Works]
    /\ v[0] = work
    /\ \A i \in 1..k : v[i] = Stage(v[i - 1], i, k, sink, i \in releasing)
    /\ v[k] = Stages(work, k, sink, releasing)

LEMMA StageTyped ==
    ASSUME NEW w \in Works, NEW i \in 1..MaxStage, NEW k, NEW sink, NEW release \in BOOLEAN,
           line \in 0..MaxLine - 1
    PROVE  Stage(w, i, k, sink, release) \in Works
<1>1. [w EXCEPT !.ok = FALSE] \in Works
  BY DEF Works
<1>2. PICK s : s = Stage(w, i, k, sink, release)
  OBVIOUS
<1>3. s = [w EXCEPT !.ok = FALSE] \/ StageRuns(w, s, i, k, sink, release)
  BY <1>2, StageIs, Zenon
<1> QED
  BY <1>1, <1>2, <1>3 DEF StageRuns

LEMMA StagesWalk ==
    ASSUME NEW work \in Works, NEW k \in 1..MaxStage, NEW sink, NEW releasing,
           line \in 0..MaxLine - 1
    PROVE  \E v : WalksStages(v, work, k, sink, releasing)
<1> DEFINE Do(w, i) == Stage(w, i, k, sink, i \in releasing)
           seq == [i \in 1..k |-> i]
           step == [x \in Works \X (1..k) |-> Do(x[1], seq[x[2]])]
           Loop(f) == f = [s \in SUBSET DOMAIN seq |->
                             IF s = {} THEN work ELSE Do(f[s \ {Max(s)}], seq[Max(s)])]
           iter == CHOOSE f : Loop(f)
<1>1. k \in Nat /\ DOMAIN seq = 1..k /\ \A i \in 1..k : seq[i] = i /\ i \in 1..MaxStage
  BY NpShellAssumption
<1>2. ASSUME NEW w \in Works, NEW i \in 1..k PROVE Do(w, i) \in Works
  <2>1. (i \in releasing) \in BOOLEAN /\ i \in 1..MaxStage
    BY <1>1
  <2> QED
    BY <2>1, StageTyped, Zenon
<1> HIDE DEF Do, seq
<1>3. step \in [Works \X (1..k) -> Works]
  BY <1>1, <1>2
<1>4. \E f : Loop(f)
  <2>1. PICK f \in [SUBSET (1..k) -> Works] : Folding(k, work, step, f)
    <3> HIDE DEF step
    <3> QED
      BY <1>1, <1>3, FoldingExists
  <2>2. ASSUME NEW s \in SUBSET (1..k), s # {}
        PROVE  f[s] = Do(f[s \ {Max(s)}], seq[Max(s)])
    <3>1. Max(s) \in s
      BY <2>2, <1>1, MaxIsIn
    <3>2. <<f[s \ {Max(s)}], Max(s)>> \in Works \X (1..k)
      BY <3>1, <2>1
    <3>3. f[s] = step[<<f[s \ {Max(s)}], Max(s)>>]
      BY <2>2, <2>1 DEF Folding
    <3> QED
      BY <3>2, <3>3
  <2>3. f[{}] = work
    BY <2>1 DEF Folding
  <2>4. Loop(f)
    BY <2>1, <2>2, <2>3, <1>1
  <2> QED
    BY <2>4
<1>5. Loop(iter)
  <2> HIDE DEF Loop
  <2> QED
    BY <1>4, Zenon
<1>6. Stages(work, k, sink, releasing) = iter[DOMAIN seq]
  BY Zenon DEF Stages, FoldLeft, MapThenFoldSet, Do, seq
<1> HIDE DEF iter
<1>7. iter[{}] = work
  BY <1>5
<1>8. ASSUME NEW i \in 1..k, iter[1..i - 1] \in Works
      PROVE  iter[1..i] = step[<<iter[1..i - 1], i>>]
  <2>1. Max(1..i) = i /\ (1..i) \ {i} = 1..i - 1 /\ 1..i # {}
    BY <1>1, MaxUpTo
  <2>2. 1..i \in SUBSET DOMAIN seq
    BY <1>1
  <2>3. iter[1..i] = Do(iter[(1..i) \ {Max(1..i)}], seq[Max(1..i)])
    BY <1>5, <2>1, <2>2
  <2>4. step[<<iter[1..i - 1], i>>] = Do(iter[1..i - 1], seq[i])
    BY <1>8
  <2> HIDE DEF step
  <2> QED
    BY <2>1, <2>3, <2>4
<1>9. PICK v : WalksBy(v, k, Works, work, step, iter[1..k])
  <2> HIDE DEF step
  <2> QED
    BY <1>1, <1>3, <1>7, <1>8, FoldingWalks
<1>10. v \in [0..k -> Works] /\ v[0] = work /\ v[k] = iter[1..k]
  BY <1>9 DEF WalksBy
<1>11. ASSUME NEW i \in 1..k
       PROVE  v[i] = Stage(v[i - 1], i, k, sink, i \in releasing)
  <2>1. i - 1 \in 0..k
    BY <1>1
  <2>2. <<v[i - 1], i>> \in Works \X (1..k)
    BY <1>10, <2>1
  <2>3. v[i] = step[<<v[i - 1], i>>]
    BY <1>9 DEF WalksBy
  <2>4. v[i] = Do(v[i - 1], i)
    BY <1>1, <2>2, <2>3
  <2> QED
    BY <2>4 DEF Do
<1>12. v[k] = Stages(work, k, sink, releasing)
  BY <1>1, <1>6, <1>10
<1> HIDE DEF step, Loop
<1>13. WalksStages(v, work, k, sink, releasing)
  BY <1>10, <1>11, <1>12 DEF WalksStages
<1> QED
  BY <1>13
-----------------------------------------------------------------------------
(* A line at work.  T is the file table it starts with, due the numbered    *)
(* pipe it reads, if any.  After each stage the table is T without the ends *)
(* of that pipe which are closed by now, and with the read end of the stage *)
(* that is over, if it is still open.                                       *)
PipeNo(i) == <<line + 1, i>>

Left(F, B, x, end) ==
    /\ x \in Fd /\ B[x] = Closed /\ F[x] \in {Closed, end}
    /\ \A d \in Fd \ {x} : F[d] = B[d]

DueEnds(due) == IF due = <<>> THEN {} ELSE {due[1].r, due[1].w}

GoneBy(w, due, sink) ==
    IF w.cur = <<>> THEN DueEnds(due)
    ELSE IF sink = Own THEN {} ELSE {due[1].w}

(* A numbered pipe that is due has its two ends in T, and not in the sink.  *)
DueIn(T, due, sink) ==
    /\ T \in Table
    /\ due = <<>> \/ Len(due) = 1
    /\ due # <<>> => /\ due[1] \in DueEntry
                     /\ T[due[1].r] # Closed /\ T[due[1].w] # Closed /\ due[1].r # due[1].w
    /\ sink = Own \/ (sink \in Fd /\ T[sink] # Closed /\ sink \notin DueEnds(due))

Still(k, sink) == ~ReleaseEarly \/ sink = Own

(* The commands so far are joined.                                          *)
Chained(w, n, k, sink) ==
    /\ Len(w.ins) = Len(w.outs) /\ Len(w.ins) <= n
    /\ Still(k, sink) =>
          \A j \in 2..Len(w.ins) :
             w.outs[j - 1] = <<PipeNo(j - 1), "w">> /\ w.ins[j] = <<PipeNo(j - 1), "r">>

AfterStage(w, n, T, due, k, sink) ==
    /\ Len(w.pi) = n /\ Len(w.ins) = n /\ Len(w.outs) = n
    /\ w.cur \in {<<>>, due} /\ (n = 0 => w.cur = due)
    /\ n > 0 /\ (sink = Own \/ n = k) => w.cur = <<>>
    /\ n = 0 => w.fds = Shut(T, GoneBy(w, due, sink))
    /\ n > 0 => /\ Left(w.fds, Shut(T, GoneBy(w, due, sink)), w.pi[n].r, <<PipeNo(n), "r">>)
                /\ Still(k, sink) /\ n < k => w.fds[w.pi[n].r] = <<PipeNo(n), "r">>
                /\ w.ins[1] = IF due = <<>> THEN Terminal ELSE T[due[1].r]
                /\ \A j \in 1..n : j < k => w.outs[j] = <<PipeNo(j), "w">>
                /\ n = k => w.outs[k] = IF sink = Own THEN Terminal ELSE T[sink]

AtWork(w, n, T, due, k, sink) ==
    /\ Chained(w, n, k, sink)
    /\ w.ok => AfterStage(w, n, T, due, k, sink)

(* Which stages let go of the numbered pipe.                                *)
LetsGo(i, k, sink, release) ==
    /\ release \in BOOLEAN
    /\ sink = Own => release
    /\ ~ReleaseEarly /\ sink # Own => (release <=> i = k)
    /\ i = k => release

(* The part of a stage that is about the file table: B is what it should    *)
(* be without what the stage before has left, some of C is closed.          *)
LEMMA StageTable ==
    ASSUME NEW F \in Table, NEW B \in Table, NEW before \in SUBSET Fd, NEW C \in SUBSET Fd,
           \A d \in before : B[d] = Closed, \A d \in Fd \ before : F[d] = B[d],
           NEW r \in Fd, NEW w \in Fd, r # w, F[r] = Closed, F[w] = Closed,
           NEW pipe \in Pipe, NEW G \in Table,
           \A d \in Fd : G[d] = IF d \in {w} \cup before \cup C THEN Closed
                                ELSE IF d = r THEN <<pipe, "r">> ELSE F[d]
    PROVE  /\ Left(G, Shut(B, C), r, <<pipe, "r">>)
           /\ (\A d \in before \cup C : F[d] # Closed) => G[r] = <<pipe, "r">>
<1>1. \A d \in Fd : Shut(B, C)[d] = IF d \in C THEN Closed ELSE B[d]
  BY ShutIs
<1>2. B[r] = Closed /\ B[w] = Closed
  OBVIOUS
<1>3. \A d \in Fd \ {r} : G[d] = Shut(B, C)[d]
  BY <1>1, <1>2
<1>4. G[r] \in {Closed, <<pipe, "r">>}
  OBVIOUS
<1>5. (\A d \in before \cup C : F[d] # Closed) => G[r] = <<pipe, "r">>
  OBVIOUS
<1> QED
  BY <1>1, <1>2, <1>3, <1>4, <1>5 DEF Left

(* Stage i goes from w to s.                                                *)
Staged(w, s, i, T, due, k, sink, release) ==
    /\ w \in Works /\ Cardinality(Free(w.fds)) >= 2
    /\ StageRuns(w, s, i, k, sink, release) /\ LetsGo(i, k, sink, release)
    /\ DueIn(T, due, sink)
    /\ AfterStage(w, i - 1, T, due, k, sink) /\ Chained(w, i - 1, k, sink)

StageCloses(w, sink, release) ==
    (IF sink = Own THEN CurWrite(w) ELSE {}) \cup (IF release THEN CurEnds(w) ELSE {})

ClosesDue(w, s, due, sink, release) ==
    /\ w.cur \in {<<>>, due} /\ s.cur \in {<<>>, due} /\ (release => s.cur = <<>>)
    /\ sink = Own => release
    /\ StageCloses(w, sink, release) \subseteq DueEnds(due)
    /\ DueEnds(due) \subseteq Fd /\ GoneBy(w, due, sink) \subseteq DueEnds(due)
    /\ GoneBy(s, due, sink) = GoneBy(w, due, sink) \cup StageCloses(w, sink, release)

LEMMA StageGone ==
    ASSUME NEW w, NEW s, NEW i \in 1..MaxStage, NEW T, NEW due, NEW k, NEW sink, NEW release,
           Staged(w, s, i, T, due, k, sink, release)
    PROVE  ClosesDue(w, s, due, sink, release)
<1>1. /\ w.cur \in {<<>>, due} /\ (i - 1 > 0 /\ sink = Own => w.cur = <<>>)
      /\ due = <<>> \/ (Len(due) = 1 /\ due # <<>> /\ due[1] \in DueEntry)
      /\ ~release \/ w.cur = <<>> => s.cur = w.cur
      /\ release /\ Len(w.cur) = 1 => s.cur = <<>>
      /\ sink = Own => release
  <2>1. w.cur \in {<<>>, due} /\ (i - 1 > 0 /\ sink = Own => w.cur = <<>>)
    <3>1. AfterStage(w, i - 1, T, due, k, sink)
      BY DEF Staged
    <3> QED
      BY <3>1 DEF AfterStage
  <2>2. due = <<>> \/ (Len(due) = 1 /\ due # <<>> /\ due[1] \in DueEntry)
    <3>1. DueIn(T, due, sink)
      BY DEF Staged
    <3>2. due = <<>> \/ (Len(due) = 1 /\ due[1] \in DueEntry)
      BY <3>1 DEF DueIn
    <3>3. CASE due = <<>>
      BY <3>3
    <3>4. CASE due # <<>>
      BY <3>2, <3>4
    <3> QED
      BY <3>3, <3>4
  <2>3. /\ ~release \/ w.cur = <<>> => s.cur = w.cur
        /\ release /\ Len(w.cur) = 1 => s.cur = <<>>
    <3>1. StageRuns(w, s, i, k, sink, release)
      BY DEF Staged
    <3> QED
      BY <3>1 DEF StageRuns
  <2>4. sink = Own => release
    <3>1. LetsGo(i, k, sink, release)
      BY DEF Staged
    <3> QED
      BY <3>1 DEF LetsGo
  <2> QED
    BY <2>1, <2>2, <2>3, <2>4
<1>2. s.cur \in {<<>>, due} /\ (release => s.cur = <<>>)
  BY <1>1
<1>3. DueEnds(due) \subseteq Fd
  BY <1>1 DEF DueEnds, DueEntry
<1>4. GoneBy(w, due, sink) \subseteq DueEnds(due) /\ StageCloses(w, sink, release) \subseteq DueEnds(due)
  BY <1>1 DEF GoneBy, DueEnds, StageCloses, CurWrite, CurEnds
<1>5. GoneBy(s, due, sink) = GoneBy(w, due, sink) \cup StageCloses(w, sink, release)
  <2>1. CASE w.cur = <<>>
    BY <1>1, <2>1 DEF GoneBy, StageCloses, CurWrite, CurEnds
  <2>2. CASE w.cur # <<>> /\ release
    <3>1. w.cur = due /\ s.cur = <<>> /\ due # <<>>
      BY <1>1, <2>2
    <3> QED
      BY <2>2, <3>1 DEF GoneBy, StageCloses, CurWrite, CurEnds, DueEnds
  <2>3. CASE w.cur # <<>> /\ ~release
    <3>1. w.cur = due /\ s.cur = due /\ due # <<>> /\ sink # Own
      BY <1>1, <2>3
    <3> QED
      BY <2>3, <3>1 DEF GoneBy, StageCloses
  <2> QED
    BY <2>1, <2>2, <2>3
<1> QED
  BY <1>1, <1>2, <1>3, <1>4, <1>5 DEF ClosesDue

(* What the table is, but for what the stage before has left.               *)
Finds(w, i, T, due, k, sink, B, r, e) ==
    /\ w.fds \in Table /\ B \in Table
    /\ r \in Fd /\ e \in Fd /\ r # e /\ w.fds[r] = Closed /\ w.fds[e] = Closed
    /\ Previous(w, i) \subseteq Fd /\ \A d \in Previous(w, i) : B[d] = Closed
    /\ \A d \in Fd \ Previous(w, i) : w.fds[d] = B[d]
    /\ \A d \in Fd \ DueEnds(due) : T[d] # Closed => w.fds[d] = T[d]
    /\ i = 1 \/ (i > 1 /\ i - 1 > 0 /\ w.pi[i - 1].r \in Fd
                 /\ Previous(w, i) = {w.pi[i - 1].r})
    /\ Still(k, sink) /\ i > 1 => w.fds[w.pi[i - 1].r] = <<PipeNo(i - 1), "r">>
    /\ sink = Own /\ w.cur # <<>> => i = 1 /\ w.fds = T

LEMMA StageFinds ==
    ASSUME NEW w, NEW s, NEW i \in 1..MaxStage, NEW T, NEW due, NEW k, NEW sink, NEW release,
           i \in 1..k, k \in Nat,
           Staged(w, s, i, T, due, k, sink, release)
    PROVE  Finds(w, i, T, due, k, sink, Shut(T, GoneBy(w, due, sink)),
                 Ends(w.fds).r, Ends(w.fds).w)
<1> DEFINE B == Shut(T, GoneBy(w, due, sink))
           r == Ends(w.fds).r
           e == Ends(w.fds).w
<1>1. w.fds \in Table /\ T \in Table /\ AfterStage(w, i - 1, T, due, k, sink)
  BY DEF Staged, Works, DueIn
<1>2. r \in Fd /\ e \in Fd /\ r # e /\ w.fds[r] = Closed /\ w.fds[e] = Closed
  <2>1. /\ Ends(w.fds).r \in Free(w.fds) /\ Ends(w.fds).w \in Free(w.fds)
        /\ Ends(w.fds).r # Ends(w.fds).w
    BY EndsAre DEF Staged
  <2> QED
    BY <2>1 DEF Free
<1>3. B \in Table /\ \A d \in Fd : B[d] = IF d \in GoneBy(w, due, sink) THEN Closed ELSE T[d]
  BY <1>1, ShutIs
<1> HIDE DEF B, r, e
<1>4. i = 1 \/ (i > 1 /\ i - 1 > 0 /\ Left(w.fds, B, w.pi[i - 1].r, <<PipeNo(i - 1), "r">>)
                /\ i - 1 < k /\ i # 1)
  BY <1>1 DEF AfterStage, B
<1>5. i = 1 => w.fds = B
  BY <1>1 DEF AfterStage, B
<1>6. /\ i = 1 \/ (i > 1 /\ i - 1 > 0 /\ w.pi[i - 1].r \in Fd
                   /\ Previous(w, i) = {w.pi[i - 1].r})
      /\ Previous(w, i) \subseteq Fd /\ \A d \in Previous(w, i) : B[d] = Closed
      /\ \A d \in Fd \ Previous(w, i) : w.fds[d] = B[d]
  <2>1. CASE i = 1
    BY <1>5, <2>1 DEF Previous
  <2>2. CASE i # 1
    BY <1>4, <2>2 DEF Previous, Left
  <2> QED
    BY <2>1, <2>2
<1>7. \A d \in Fd \ DueEnds(due) : T[d] # Closed => w.fds[d] = T[d]
  <2>1. GoneBy(w, due, sink) \subseteq DueEnds(due)
    BY StageGone DEF ClosesDue
  <2>2. \A d \in Fd \ DueEnds(due) : B[d] = T[d]
    BY <1>3, <2>1
  <2> QED
    BY <1>6, <2>2
<1>8. Still(k, sink) /\ i > 1 => w.fds[w.pi[i - 1].r] = <<PipeNo(i - 1), "r">>
  BY <1>1, <1>4 DEF AfterStage
<1>9. sink = Own /\ w.cur # <<>> => i = 1 /\ w.fds = T
  <2> SUFFICES ASSUME sink = Own, w.cur # <<>> PROVE i = 1 /\ w.fds = T
    OBVIOUS
  <2>1. i = 1
    BY <1>1, <1>4 DEF AfterStage
  <2>2. GoneBy(w, due, sink) = {}
    BY DEF GoneBy
  <2>3. Shut(T, {}) = T
    BY <1>1, ShutNothing
  <2> QED
    BY <1>5, <2>1, <2>2, <2>3 DEF B
<1> QED
  BY <1>1, <1>2, <1>3, <1>6, <1>7, <1>8, <1>9 DEF B, r, e, Finds

(* What a child of the stage finds in the table it has at its fork.         *)
ForksWith(w, i, sink, child, gone, r, e) ==
    /\ child \in Table /\ child[e] = <<PipeNo(i), "w">>
    /\ \A d \in Fd \ {r, e} :
          child[d] = IF sink = Own /\ d \in CurWrite(w) THEN Closed ELSE w.fds[d]
    /\ gone \in Table
    /\ \A d \in Fd :
          gone[d] = IF d \in {e} \cup Previous(w, i) \cup (IF sink = Own THEN CurWrite(w) ELSE {})
                    THEN Closed ELSE IF d = r THEN <<PipeNo(i), "r">> ELSE w.fds[d]

LEMMA StageChild ==
    ASSUME NEW w, NEW s, NEW i \in 1..MaxStage, NEW T, NEW due, NEW k, NEW sink, NEW release,
           i \in 1..k, k \in Nat, line \in 0..MaxLine - 1,
           Staged(w, s, i, T, due, k, sink, release)
    PROVE  ForksWith(w, i, sink, InChild(w, i, sink), Gone(w, i, sink), Ends(w.fds).r, Ends(w.fds).w)
<1> DEFINE r == Ends(w.fds).r
           e == Ends(w.fds).w
           C == IF sink = Own THEN CurWrite(w) ELSE {}
           P == Piped(w.fds, Ends(w.fds), PipeNo(i))
<1>1. /\ w.fds \in Table /\ r \in Fd /\ e \in Fd /\ r # e
      /\ w.fds[r] = Closed /\ w.fds[e] = Closed
      /\ sink = Own /\ w.cur # <<>> => w.fds = T
  <2>1. Finds(w, i, T, due, k, sink, Shut(T, GoneBy(w, due, sink)),
              Ends(w.fds).r, Ends(w.fds).w)
    BY StageFinds
  <2> QED
    BY <2>1 DEF Finds
<1>2. Ends(w.fds) \in PipeEnds /\ Ends(w.fds).r # Ends(w.fds).w
  BY EndsAre DEF Staged
<1>3. PipeNo(i) \in Pipe
  BY NpShellAssumption DEF PipeNo, Pipe
<1>4. /\ P \in Table /\ P[r] = <<PipeNo(i), "r">> /\ P[e] = <<PipeNo(i), "w">>
      /\ \A d \in Fd \ {r, e} : P[d] = w.fds[d]
  BY <1>1, <1>2, <1>3, PipedIs
<1>5. e \notin C
  <2>1. CASE sink = Own /\ w.cur # <<>>
    <3>1. w.cur = due /\ w.fds[due[1].w] # Closed
      BY <1>1, <2>1, StageGone DEF Staged, DueIn, ClosesDue
    <3> QED
      BY <1>1, <2>1, <3>1 DEF CurWrite
  <2>2. CASE ~(sink = Own /\ w.cur # <<>>)
    BY <2>2 DEF CurWrite
  <2> QED
    BY <2>1, <2>2
<1> HIDE DEF P, C
<1>6. AtFork(w, i, sink) = Shut(P, C)
  BY DEF AtFork, P, C, PipeNo
<1>7. Shut(P, C) \in Table /\ \A d \in Fd : Shut(P, C)[d] = IF d \in C THEN Closed ELSE P[d]
  BY <1>4, ShutIs
<1>8. PICK X : X = IF i = 1 THEN {r} ELSE {}
  OBVIOUS
<1>9. /\ InChild(w, i, sink) \in Table
      /\ \A d \in Fd : InChild(w, i, sink)[d] = IF d \in X THEN Closed ELSE Shut(P, C)[d]
  BY <1>6, <1>7, <1>8, ShutIs DEF InChild
<1>10. PICK Y : Y = {e} \cup Previous(w, i)
  OBVIOUS
<1>11. /\ Gone(w, i, sink) \in Table
       /\ \A d \in Fd : Gone(w, i, sink)[d] = IF d \in Y THEN Closed ELSE Shut(P, C)[d]
  BY <1>6, <1>7, <1>10, ShutIs DEF Gone
<1> HIDE DEF r, e
<1>12. InChild(w, i, sink)[e] = <<PipeNo(i), "w">>
  BY <1>1, <1>4, <1>5, <1>7, <1>8, <1>9
<1>13. \A d \in Fd \ {r, e} : InChild(w, i, sink)[d] = IF sink = Own /\ d \in CurWrite(w) THEN Closed
                                                      ELSE w.fds[d]
  BY <1>4, <1>7, <1>8, <1>9 DEF C
<1>14. \A d \in Fd :
          Gone(w, i, sink)[d] = IF d \in {e} \cup Previous(w, i) \cup C
                                THEN Closed ELSE IF d = r THEN <<PipeNo(i), "r">> ELSE w.fds[d]
  BY <1>4, <1>7, <1>10, <1>11
<1> QED
  BY <1>9, <1>11, <1>12, <1>13, <1>14 DEF r, e, C, ForksWith

(* What the stage's child has as stdin and stdout.                          *)
LEMMA StageStreams ==
    ASSUME NEW w, NEW s, NEW i \in 1..MaxStage, NEW T, NEW due, NEW k, NEW sink, NEW release,
           i \in 1..k, k \in Nat, line \in 0..MaxLine - 1,
           Staged(w, s, i, T, due, k, sink, release)
    PROVE  /\ i = 1 => Found(InChild(w, i, sink), StdIn(w, i)) =
                          IF due = <<>> THEN Terminal ELSE T[due[1].r]
           /\ Still(k, sink) /\ i > 1 =>
                Found(InChild(w, i, sink), StdIn(w, i)) = <<PipeNo(i - 1), "r">>
           /\ i < k => Found(InChild(w, i, sink), StdOut(w, i, k, sink)) = <<PipeNo(i), "w">>
           /\ i = k => Found(InChild(w, i, sink), StdOut(w, i, k, sink)) =
                          IF sink = Own THEN Terminal ELSE T[sink]
<1> DEFINE child == InChild(w, i, sink)
           r == Ends(w.fds).r
           e == Ends(w.fds).w
           B == Shut(T, GoneBy(w, due, sink))
<1>1. Finds(w, i, T, due, k, sink, B, r, e)
  BY StageFinds
<1>2. ForksWith(w, i, sink, child, Gone(w, i, sink), r, e)
  BY StageChild
<1>3. AfterStage(w, i - 1, T, due, k, sink) /\ DueIn(T, due, sink)
  BY DEF Staged
<1>4. T \in Table /\ \A d \in Fd : B[d] = IF d \in GoneBy(w, due, sink) THEN Closed ELSE T[d]
  <2>1. T \in Table
    BY <1>3 DEF DueIn
  <2> QED
    BY <2>1, ShutIs
<1>5. \A p, x : <<p, x>> # Closed
  BY DEF Closed
<1>6. StdOut(w, i, k, sink) = IF i = k THEN sink ELSE e
  BY DEF StdOut
<1> HIDE DEF child, r, e, B
<1>7. child \in Table
  BY <1>2 DEF ForksWith
<1>8. ASSUME NEW d \in Fd, w.fds[d] # Closed, ~(sink = Own /\ d \in CurWrite(w))
      PROVE  Found(child, d) = w.fds[d]
  <2>1. d \notin {r, e}
    BY <1>1, <1>8 DEF Finds
  <2>2. child[d] = w.fds[d]
    BY <1>2, <1>8, <2>1 DEF ForksWith
  <2> QED
    BY <1>7, <1>8, <2>2, FoundIs
<1>9. Found(child, Own) = Terminal
  BY <1>7, OwnIsNone, FoundIs
<1>10. ASSUME i = 1
       PROVE  Found(child, StdIn(w, i)) = IF due = <<>> THEN Terminal ELSE T[due[1].r]
  <2>1. w.cur = due /\ StdIn(w, i) = CurRead(w)
    BY <1>3, <1>10 DEF AfterStage, StdIn
  <2>2. CASE due = <<>>
    BY <1>9, <2>1, <2>2 DEF CurRead
  <2>3. CASE due # <<>>
    <3>1. /\ due[1].r \in Fd /\ T[due[1].r] # Closed /\ due[1].r # due[1].w
          /\ StdIn(w, i) = due[1].r
      <4>1. due[1] \in DueEntry /\ T[due[1].r] # Closed /\ due[1].r # due[1].w
        BY <1>3, <2>3 DEF DueIn
      <4> QED
        BY <2>1, <2>3, <4>1 DEF DueEntry, CurRead
    <3>2. due[1].r \notin GoneBy(w, due, sink) /\ due[1].r \notin CurWrite(w)
      BY <2>1, <2>3, <3>1 DEF GoneBy, CurWrite
    <3>3. w.fds[due[1].r] = B[due[1].r]
      BY <1>1, <1>10, <3>1 DEF Finds, Previous
    <3>4. w.fds[due[1].r] = T[due[1].r]
      BY <1>4, <3>1, <3>2, <3>3
    <3> QED
      BY <1>8, <2>3, <3>1, <3>2, <3>4
  <2> QED
    BY <2>2, <2>3
<1>11. ASSUME Still(k, sink), i > 1
       PROVE  Found(child, StdIn(w, i)) = <<PipeNo(i - 1), "r">>
  <2>1. StdIn(w, i) = w.pi[i - 1].r
    BY <1>11 DEF StdIn
  <2>2. w.pi[i - 1].r \in Fd /\ w.fds[w.pi[i - 1].r] = <<PipeNo(i - 1), "r">>
    BY <1>1, <1>11 DEF Finds
  <2>3. sink = Own => CurWrite(w) = {}
    BY <1>1, <1>11 DEF Finds, CurWrite
  <2> QED
    BY <1>5, <1>8, <2>1, <2>2, <2>3
<1>12. ASSUME i < k
       PROVE  Found(child, StdOut(w, i, k, sink)) = <<PipeNo(i), "w">>
  <2>1. e \in Fd /\ child[e] = <<PipeNo(i), "w">>
    BY <1>1, <1>2 DEF Finds, ForksWith
  <2>2. StdOut(w, i, k, sink) = e
    BY <1>6, <1>12
  <2> QED
    BY <1>5, <1>7, <2>1, <2>2, FoundIs
<1>13. ASSUME i = k
       PROVE  Found(child, StdOut(w, i, k, sink)) = IF sink = Own THEN Terminal ELSE T[sink]
  <2>1. CASE sink = Own
    BY <1>6, <1>9, <1>13, <2>1
  <2>2. CASE sink # Own
    <3>1. sink \in Fd /\ T[sink] # Closed /\ sink \notin DueEnds(due)
      BY <1>3, <2>2 DEF DueIn
    <3>2. w.fds[sink] = T[sink]
      BY <1>1, <3>1 DEF Finds
    <3> QED
      BY <1>6, <1>8, <1>13, <2>2, <3>1, <3>2
  <2> QED
    BY <2>1, <2>2
<1> QED
  BY <1>10, <1>11, <1>12, <1>13 DEF child

(* What the stage leaves in the shell's table.                              *)
LEMMA StageLeaves ==
    ASSUME NEW w, NEW s, NEW i \in 1..MaxStage, NEW T, NEW due, NEW k, NEW sink, NEW release,
           i \in 1..k, k \in Nat, line \in 0..MaxLine - 1,
           Staged(w, s, i, T, due, k, sink, release)
    PROVE  /\ Left(s.fds, Shut(T, GoneBy(s, due, sink)), Ends(w.fds).r, <<PipeNo(i), "r">>)
           /\ Still(k, sink) /\ i < k => s.fds[Ends(w.fds).r] = <<PipeNo(i), "r">>
<1> DEFINE r == Ends(w.fds).r
           e == Ends(w.fds).w
           B == Shut(T, GoneBy(w, due, sink))
           C == StageCloses(w, sink, release)
           X == IF release THEN CurEnds(w) ELSE {}
           Z == IF sink = Own THEN CurWrite(w) ELSE {}
<1>1. Finds(w, i, T, due, k, sink, B, r, e)
  BY StageFinds
<1>2. ForksWith(w, i, sink, InChild(w, i, sink), Gone(w, i, sink), r, e)
  BY StageChild
<1>3. /\ w.cur \in {<<>>, due} /\ C \subseteq DueEnds(due) /\ DueEnds(due) \subseteq Fd
      /\ GoneBy(s, due, sink) = GoneBy(w, due, sink) \cup C
  <2>1. ClosesDue(w, s, due, sink, release)
    BY StageGone
  <2> QED
    BY <2>1 DEF ClosesDue
<1>4. /\ DueIn(T, due, sink) /\ T \in Table
      /\ LetsGo(i, k, sink, release) /\ s.fds = Shut(Gone(w, i, sink), X) /\ s.fds \in Table
  <2>1. StageRuns(w, s, i, k, sink, release) /\ DueIn(T, due, sink) /\ LetsGo(i, k, sink, release)
    BY DEF Staged
  <2> QED
    BY <2>1 DEF StageRuns, DueIn, Works
<1>5. C = Z \cup X
  BY DEF StageCloses
<1>6. \A d \in Fd : s.fds[d] = IF d \in X THEN Closed ELSE Gone(w, i, sink)[d]
  BY <1>2, <1>4, ShutIs DEF ForksWith
<1>7. \A d \in Fd : Gone(w, i, sink)[d] = IF d \in {e} \cup Previous(w, i) \cup Z
                                          THEN Closed ELSE IF d = r THEN <<PipeNo(i), "r">> ELSE w.fds[d]
  BY <1>2 DEF ForksWith
<1>8. PipeNo(i) \in Pipe
  BY NpShellAssumption DEF PipeNo, Pipe
<1>9. Shut(T, GoneBy(s, due, sink)) = Shut(B, C)
  <2>1. \A d \in Fd : B[d] = IF d \in GoneBy(w, due, sink) THEN Closed ELSE T[d]
    BY <1>4, ShutIs
  <2> HIDE DEF B, C
  <2>2. \A d \in Fd : (IF d \in GoneBy(s, due, sink) THEN Closed ELSE T[d])
                     = (IF d \in C THEN Closed ELSE B[d])
    BY <1>3, <2>1
  <2> QED
    BY <2>2 DEF Shut
<1>10. ASSUME Still(k, sink), i < k, NEW d \in Previous(w, i) \cup C
       PROVE  w.fds[d] # Closed
  <2>1. CASE d \in Previous(w, i)
    <3>1. i > 1 /\ d = w.pi[i - 1].r
      BY <2>1 DEF Previous
    <3>2. w.fds[d] = <<PipeNo(i - 1), "r">>
      BY <1>1, <1>10, <3>1 DEF Finds
    <3> QED
      BY <3>2 DEF Closed
  <2>2. CASE d \in C
    <3>1. sink = Own
      <4>1. CASE sink # Own
        <5>1. ~ReleaseEarly /\ ~release
          BY <1>4, <1>10, <4>1 DEF Still, LetsGo
        <5> QED
          BY <1>5, <2>2, <4>1, <5>1
      <4> QED
        BY <4>1
    <3>2. w.cur # <<>> /\ w.cur = due
      BY <1>3, <1>5, <2>2 DEF CurWrite, CurEnds
    <3>3. w.fds = T /\ d \in {due[1].r, due[1].w}
      BY <1>1, <1>3, <2>2, <3>1, <3>2 DEF Finds, DueEnds
    <3> QED
      BY <1>4, <3>2, <3>3 DEF DueIn
  <2> QED
    BY <2>1, <2>2
<1> HIDE DEF B, C, X, Z, r, e
<1>11. /\ w.fds \in Table /\ B \in Table /\ Previous(w, i) \in SUBSET Fd /\ C \in SUBSET Fd
       /\ \A d \in Previous(w, i) : B[d] = Closed
       /\ \A d \in Fd \ Previous(w, i) : w.fds[d] = B[d]
       /\ r \in Fd /\ e \in Fd /\ r # e /\ w.fds[r] = Closed /\ w.fds[e] = Closed
  BY <1>1, <1>3 DEF Finds
<1>12. \A d \in Fd : s.fds[d] = IF d \in {e} \cup Previous(w, i) \cup C
                                THEN Closed ELSE IF d = r THEN <<PipeNo(i), "r">> ELSE w.fds[d]
  BY <1>5, <1>6, <1>7
<1>13. /\ Left(s.fds, Shut(B, C), r, <<PipeNo(i), "r">>)
       /\ (\A d \in Previous(w, i) \cup C : w.fds[d] # Closed) => s.fds[r] = <<PipeNo(i), "r">>
  BY <1>4, <1>8, <1>11, <1>12, StageTable
<1> QED
  BY <1>9, <1>10, <1>13 DEF r


LEMMA StageStep ==
    ASSUME NEW w \in Works, NEW k \in 1..MaxStage, NEW i \in 1..k, NEW T, NEW due, NEW sink,
           NEW release, line \in 0..MaxLine - 1,
           DueIn(T, due, sink), LetsGo(i, k, sink, release), AtWork(w, i - 1, T, due, k, sink)
    PROVE  AtWork(Stage(w, i, k, sink, release), i, T, due, k, sink)
<1>1. i \in 1..MaxStage /\ k \in Nat /\ release \in BOOLEAN /\ i \in Nat /\ i > 0
  BY NpShellAssumption DEF LetsGo
<1>2. PICK s : s = Stage(w, i, k, sink, release)
  OBVIOUS
<1>3. w.ins \in Seq(Stream) /\ w.outs \in Seq(Stream) /\ w.pi \in Seq(PipeEnds)
  BY DEF Works
<1>4. \/ s = [w EXCEPT !.ok = FALSE] /\ (~w.ok \/ ~(Cardinality(Free(w.fds)) >= 2))
      \/ w.ok /\ Cardinality(Free(w.fds)) >= 2 /\ StageRuns(w, s, i, k, sink, release)
  BY <1>1, <1>2, StageIs, Zenon
<1>5. CASE s = [w EXCEPT !.ok = FALSE]
  <2>1. s.ins = w.ins /\ s.outs = w.outs /\ ~s.ok
    BY <1>5 DEF Works
  <2>2. Chained(w, i - 1, k, sink)
    BY DEF AtWork
  <2>3. Chained(s, i, k, sink)
    BY <1>1, <1>3, <2>1, <2>2 DEF Chained
  <2> QED
    BY <1>2, <2>1, <2>3 DEF AtWork
<1>6. CASE w.ok /\ Cardinality(Free(w.fds)) >= 2 /\ StageRuns(w, s, i, k, sink, release)
  <2>1. /\ Staged(w, s, i, T, due, k, sink, release)
        /\ AfterStage(w, i - 1, T, due, k, sink) /\ Chained(w, i - 1, k, sink)
    BY <1>6 DEF Staged, AtWork
  <2> DEFINE r  == Ends(w.fds).r
             x  == Found(InChild(w, i, sink), StdIn(w, i))
             y  == Found(InChild(w, i, sink), StdOut(w, i, k, sink))
  <2>2. /\ i = 1 => x = IF due = <<>> THEN Terminal ELSE T[due[1].r]
        /\ Still(k, sink) /\ i > 1 => x = <<PipeNo(i - 1), "r">>
        /\ i < k => y = <<PipeNo(i), "w">>
        /\ i = k => y = IF sink = Own THEN Terminal ELSE T[sink]
    BY <1>1, <2>1, StageStreams
  <2>3. /\ Left(s.fds, Shut(T, GoneBy(s, due, sink)), r, <<PipeNo(i), "r">>)
        /\ Still(k, sink) /\ i < k => s.fds[r] = <<PipeNo(i), "r">>
    BY <1>1, <2>1, StageLeaves
  <2>4. s.cur \in {<<>>, due} /\ (sink = Own \/ i = k => s.cur = <<>>)
    <3>1. ClosesDue(w, s, due, sink, release)
      BY <1>1, <2>1, StageGone
    <3> QED
      BY <3>1 DEF ClosesDue, LetsGo
  <2>5. /\ s.pi = Append(w.pi, Ends(w.fds)) /\ s.ins = Append(w.ins, x) /\ s.outs = Append(w.outs, y)
    BY <1>6 DEF StageRuns
  <2>6. x \in Stream /\ y \in Stream /\ Ends(w.fds) \in PipeEnds
    <3>1. Ends(w.fds) \in PipeEnds
      BY <1>6, EndsAre
    <3>2. InChild(w, i, sink) \in Table
      <4>1. ForksWith(w, i, sink, InChild(w, i, sink), Gone(w, i, sink), Ends(w.fds).r, Ends(w.fds).w)
        BY <1>1, <2>1, StageChild
      <4> QED
        BY <4>1 DEF ForksWith
    <3> QED
      BY <3>1, <3>2, FoundIs
  <2> HIDE DEF x, y
  <2>7. Len(w.pi) = i - 1 /\ Len(w.ins) = i - 1 /\ Len(w.outs) = i - 1
    BY <2>1 DEF AfterStage
  <2>8. /\ Len(s.ins) = i /\ s.ins[i] = x /\ \A j \in 1..i - 1 : s.ins[j] = w.ins[j]
        /\ Len(s.outs) = i /\ s.outs[i] = y /\ \A j \in 1..i - 1 : s.outs[j] = w.outs[j]
        /\ Len(s.pi) = i /\ s.pi[i].r = r
    BY <1>1, <1>3, <2>5, <2>6, <2>7
  <2> HIDE DEF r
  <2>9. s.ins[1] = IF due = <<>> THEN Terminal ELSE T[due[1].r]
    <3>1. CASE i = 1
      BY <2>2, <2>8, <3>1
    <3>2. CASE i > 1
      <4>1. s.ins[1] = w.ins[1] /\ i - 1 > 0
        BY <2>8, <3>2
      <4> QED
        BY <2>1, <4>1 DEF AfterStage
    <3> QED
      BY <1>1, <3>1, <3>2
  <2>10. \A j \in 1..i : j < k => s.outs[j] = <<PipeNo(j), "w">>
    <3>1. ASSUME NEW j \in 1..i - 1, j < k PROVE s.outs[j] = <<PipeNo(j), "w">>
      <4>1. w.outs[j] = <<PipeNo(j), "w">>
        BY <1>1, <2>1, <3>1 DEF AfterStage
      <4> QED
        BY <2>8, <3>1, <4>1
    <3> QED
      BY <1>1, <2>2, <2>8, <3>1
  <2>11. AfterStage(s, i, T, due, k, sink)
    BY <1>1, <2>2, <2>3, <2>4, <2>8, <2>9, <2>10 DEF AfterStage
  <2>12. ASSUME Still(k, sink), NEW j \in 2..i
         PROVE  s.outs[j - 1] = <<PipeNo(j - 1), "w">> /\ s.ins[j] = <<PipeNo(j - 1), "r">>
    <3>1. s.outs[j - 1] = <<PipeNo(j - 1), "w">>
      <4>1. j - 1 \in 1..i /\ j - 1 < k
        BY <1>1
      <4> QED
        BY <2>10, <4>1
    <3>2. s.ins[j] = <<PipeNo(j - 1), "r">>
      <4>1. CASE j = i
        BY <2>2, <2>8, <2>12, <4>1
      <4>2. CASE j < i
        <5>1. j \in 2..Len(w.ins) /\ j \in 1..i - 1
          BY <1>1, <2>7, <4>2
        <5>2. w.ins[j] = <<PipeNo(j - 1), "r">>
          BY <2>1, <2>12, <5>1 DEF Chained
        <5> QED
          BY <2>8, <5>1, <5>2
      <4> QED
        BY <1>1, <4>1, <4>2
    <3> QED
      BY <3>1, <3>2
  <2>13. Chained(s, i, k, sink)
    BY <1>1, <2>8, <2>12 DEF Chained
  <2> QED
    BY <1>2, <2>11, <2>13 DEF AtWork
<1> QED
  BY <1>4, <1>5, <1>6

(* The stages of a line, all of them.                                       *)
LEMMA StagesWork ==
    ASSUME NEW w \in Works, NEW k \in 1..MaxStage, NEW T, NEW due, NEW sink, NEW releasing,
           line \in 0..MaxLine - 1,
           DueIn(T, due, sink), \A i \in 1..k : LetsGo(i, k, sink, i \in releasing),
           AtWork(w, 0, T, due, k, sink)
    PROVE  /\ Stages(w, k, sink, releasing) \in Works
           /\ AtWork(Stages(w, k, sink, releasing), k, T, due, k, sink)
<1>1. k \in Nat
  BY NpShellAssumption
<1>2. PICK v : WalksStages(v, w, k, sink, releasing)
  BY StagesWalk
<1>3. v \in [0..k -> Works] /\ v[0] = w /\ v[k] = Stages(w, k, sink, releasing)
  BY <1>2 DEF WalksStages
<1> DEFINE N == {i \in 0..k : AtWork(v[i], i, T, due, k, sink)}
<1>4. 0 \in N
  BY <1>1, <1>3
<1>5. ASSUME NEW i \in 0..k, i < k, i \in N PROVE i + 1 \in N
  <2>1. PICK j \in 1..k : j = i + 1
    BY <1>1, <1>5
  <2>2. j - 1 = i /\ v[i] \in Works
    BY <1>3, <2>1
  <2>3. v[j] = Stage(v[i], j, k, sink, j \in releasing)
    BY <1>2, <2>2 DEF WalksStages
  <2>4. AtWork(v[i], j - 1, T, due, k, sink) /\ LetsGo(j, k, sink, j \in releasing)
    BY <1>5, <2>2
  <2>5. AtWork(v[j], j, T, due, k, sink)
    BY <2>2, <2>3, <2>4, StageStep, Zenon
  <2> QED
    BY <2>1, <2>5
<1>6. 0..k \subseteq N
  <2> HIDE DEF N
  <2> QED
    BY <1>1, <1>4, <1>5, UpTo
<1> QED
  BY <1>1, <1>3, <1>6
-----------------------------------------------------------------------------
(* A line of k commands is over: what the shell's table, cur and the        *)
(* children's streams are.                                                  *)
LeavesTable(F, B, k) ==
    F = B \/ (k > 1 /\ \E x : Left(F, B, x, <<PipeNo(k), "r">>))

Finished(w, T, due, k, sink) ==
    /\ w \in Works /\ Chained(w, k, k, sink)
    /\ w.ok => /\ w.cur = <<>> /\ Len(w.ins) = k /\ Len(w.outs) = k
               /\ w.ins[1] = IF due = <<>> THEN Terminal ELSE T[due[1].r]
               /\ w.outs[k] = IF sink = Own THEN Terminal ELSE T[sink]
               /\ LeavesTable(w.fds, Shut(T, DueEnds(due)), k)

LEMMA WorkIs ==
    ASSUME NEW T \in Table, NEW due \in Seq(DueEntry)
    PROVE  Work(T, due) \in Works
  BY DEF Work, Works

(* Several commands: a pipeline, and a line |N.                             *)
LEMMA StagesFinish ==
    ASSUME NEW w \in Works, NEW k \in 2..MaxStage, NEW T, NEW due, NEW sink, NEW releasing,
           line \in 0..MaxLine - 1, DueIn(T, due, sink),
           \A i \in 1..k : LetsGo(i, k, sink, i \in releasing),
           w.ok, w.cur = due, w.pi = <<>>, w.ins = <<>>, w.outs = <<>>,
           w.fds = Shut(T, IF due = <<>> \/ sink = Own THEN {} ELSE {due[1].w})
    PROVE  Finished(Stages(w, k, sink, releasing), T, due, k, sink)
<1>1. k \in Nat /\ k \in 1..MaxStage /\ k > 1 /\ k \in 1..k
  BY NpShellAssumption
<1>2. AtWork(w, 0, T, due, k, sink)
  <2>1. GoneBy(w, due, sink) = IF due = <<>> \/ sink = Own THEN {} ELSE {due[1].w}
    BY DEF GoneBy, DueEnds
  <2>2. Chained(w, 0, k, sink)
    BY DEF Chained
  <2>3. AfterStage(w, 0, T, due, k, sink)
    BY <1>1, <2>1 DEF AfterStage
  <2> QED
    BY <2>2, <2>3 DEF AtWork
<1>3. PICK s : s = Stages(w, k, sink, releasing)
  OBVIOUS
<1>4. s \in Works /\ AtWork(s, k, T, due, k, sink)
  BY <1>1, <1>2, <1>3, StagesWork
<1>5. Chained(s, k, k, sink)
  BY <1>4 DEF AtWork
<1>6. ASSUME s.ok
      PROVE  /\ s.cur = <<>> /\ Len(s.ins) = k /\ Len(s.outs) = k
             /\ s.ins[1] = IF due = <<>> THEN Terminal ELSE T[due[1].r]
             /\ s.outs[k] = IF sink = Own THEN Terminal ELSE T[sink]
             /\ LeavesTable(s.fds, Shut(T, DueEnds(due)), k)
  <2>1. AfterStage(s, k, T, due, k, sink)
    BY <1>4, <1>6 DEF AtWork
  <2>2. s.cur = <<>> /\ GoneBy(s, due, sink) = DueEnds(due)
    BY <1>1, <2>1 DEF AfterStage, GoneBy
  <2>3. Left(s.fds, Shut(T, DueEnds(due)), s.pi[k].r, <<PipeNo(k), "r">>)
    BY <1>1, <2>1, <2>2 DEF AfterStage
  <2>4. LeavesTable(s.fds, Shut(T, DueEnds(due)), k)
    BY <1>1, <2>3 DEF LeavesTable
  <2> QED
    BY <1>1, <2>1, <2>2, <2>4 DEF AfterStage
<1> QED
  BY <1>3, <1>4, <1>5, <1>6 DEF Finished

(* One command; X is what its child has closed before its dup2.             *)
OneCommand(work, X, sink) ==
    LET w == ShutCurWrite(work)
        child == Shut(w.fds, X)
    IN  Release(Forked(w, Found(child, CurRead(w)), Found(child, sink)))

LEMMA OneFinishes ==
    ASSUME NEW T, NEW due, NEW sink, NEW X \in SUBSET Fd, DueIn(T, due, sink), due \in Seq(DueEntry),
           X \cap DueEnds(due) = {}, sink \notin X
    PROVE  /\ Finished(OneCommand(Work(T, due), X, sink), T, due, 1, sink)
           /\ OneCommand(Work(T, due), X, sink).ok
<1> DEFINE W == Work(T, due)
           w == ShutCurWrite(W)
           child == Shut(w.fds, X)
           x == Found(child, CurRead(w))
           y == Found(child, sink)
           f == Forked(w, x, y)
           s == Release(f)
<1>1. /\ T \in Table
      /\ due # <<>> => /\ Len(due) = 1 /\ due[1] \in DueEntry /\ due[1].r \in Fd /\ due[1].w \in Fd
                       /\ T[due[1].r] # Closed /\ T[due[1].w] # Closed /\ due[1].r # due[1].w
                       /\ DueEnds(due) = {due[1].r, due[1].w}
      /\ due = <<>> => DueEnds(due) = {}
      /\ sink # Own => sink \in Fd /\ T[sink] # Closed /\ sink \notin DueEnds(due)
  BY DEF DueIn, DueEntry, DueEnds
<1>2. /\ W \in Works /\ W.fds = T /\ W.cur = due /\ W.ok /\ W.ins = <<>> /\ W.outs = <<>>
  BY <1>1, WorkIs DEF Work
<1> HIDE DEF W
<1>3. w \in Works /\ w.ok /\ w.ins = <<>> /\ w.outs = <<>> /\ w.cur = due
      /\ w.fds = Shut(T, CurWrite(W))
  <2>1. CASE due = <<>>
    <3>1. w = W /\ CurWrite(W) = {}
      BY <1>2, <2>1, ShutCurWriteIs DEF CurWrite
    <3> HIDE DEF w
    <3> QED
      BY <1>1, <1>2, <3>1, ShutNothing
  <2>2. CASE due # <<>>
    <3>1. w \in Works /\ w = [W EXCEPT !.fds = Shut(W.fds, {W.cur[1].w})] /\ CurWrite(W) = {W.cur[1].w}
      BY <1>2, <2>2, ShutCurWriteIs DEF CurWrite
    <3> HIDE DEF w
    <3> QED
      BY <1>2, <3>1 DEF Works
  <2> QED
    BY <2>1, <2>2
<1> HIDE DEF w
<1>4. child \in Table /\ \A d \in Fd : child[d] = IF d \in X \cup CurWrite(W) THEN Closed ELSE T[d]
  <2>1. w.fds \in Table /\ \A d \in Fd : w.fds[d] = IF d \in CurWrite(W) THEN Closed ELSE T[d]
    BY <1>1, <1>3, ShutIs
  <2>2. child \in Table /\ \A d \in Fd : child[d] = IF d \in X THEN Closed ELSE w.fds[d]
    BY <2>1, ShutIs
  <2> HIDE DEF child
  <2> QED
    BY <2>1, <2>2
<1>5. CurWrite(W) = IF due = <<>> THEN {} ELSE {due[1].w}
  BY <1>2 DEF CurWrite
<1> HIDE DEF child
<1>6. x = IF due = <<>> THEN Terminal ELSE T[due[1].r]
  <2>1. CASE due = <<>>
    BY <1>3, <1>4, <2>1, FoundIs, OwnIsNone DEF CurRead
  <2>2. CASE due # <<>>
    <3>1. CurRead(w) = due[1].r /\ child[due[1].r] = T[due[1].r]
      BY <1>1, <1>3, <1>4, <1>5, <2>2 DEF CurRead
    <3> QED
      BY <1>1, <1>4, <2>2, <3>1, FoundIs
  <2> QED
    BY <2>1, <2>2
<1>7. y = IF sink = Own THEN Terminal ELSE T[sink]
  <2>1. CASE sink = Own
    BY <1>4, <2>1, FoundIs, OwnIsNone
  <2>2. CASE sink # Own
    <3>1. child[sink] = T[sink]
      BY <1>1, <1>4, <1>5, <2>2
    <3> QED
      BY <1>1, <1>4, <2>2, <3>1, FoundIs
  <2> QED
    BY <2>1, <2>2
<1>8. x \in Stream /\ y \in Stream
  BY <1>4, FoundIs
<1> HIDE DEF x, y
<1>9. /\ f \in Works /\ f.ok /\ f.cur = due /\ f.fds = w.fds
      /\ f.ins = Append(<<>>, x) /\ f.outs = Append(<<>>, y)
  <2>1. f \in Works /\ f = [w EXCEPT !.ins = Append(w.ins, x), !.outs = Append(w.outs, y)]
    BY <1>3, <1>8, ForkedIs
  <2> HIDE DEF f
  <2> QED
    BY <1>3, <2>1 DEF Works
<1> HIDE DEF f
<1>10. /\ s \in Works /\ s.ok /\ s.cur = <<>> /\ s.ins = f.ins /\ s.outs = f.outs
       /\ s.fds = Shut(T, DueEnds(due))
  <2>1. CASE due = <<>>
    <3>1. s = f /\ Shut(T, {}) = T
      BY <1>1, <1>9, <2>1, ReleaseIs, ShutNothing
    <3> HIDE DEF s
    <3> QED
      BY <1>1, <1>3, <1>5, <1>9, <2>1, <3>1
  <2>2. CASE due # <<>>
    <3>1. /\ s \in Works /\ s.cur = <<>>
          /\ s = [f EXCEPT !.fds = Shut(f.fds, {f.cur[1].r, f.cur[1].w}),
                           !.cur = SubSeq(f.cur, 1, Len(f.cur) - 1)]
      BY <1>1, <1>9, <2>2, ReleaseIs
    <3> HIDE DEF s
    <3>2. /\ s.ok /\ s.ins = f.ins /\ s.outs = f.outs
          /\ s.fds = Shut(w.fds, DueEnds(due))
      BY <1>1, <1>9, <2>2, <3>1 DEF Works
    <3>3. Shut(Shut(T, {due[1].w}), {due[1].r, due[1].w}) = Shut(T, {due[1].r, due[1].w})
      BY <1>1 DEF Shut
    <3> QED
      BY <1>1, <1>3, <1>5, <2>2, <3>1, <3>2, <3>3
  <2> QED
    BY <2>1, <2>2
<1>11. OneCommand(Work(T, due), X, sink) = s
  BY DEF OneCommand, s, f, x, y, child, w, W
<1> HIDE DEF s
<1>12. /\ Len(s.ins) = 1 /\ Len(s.outs) = 1 /\ s.ins[1] = x /\ s.outs[1] = y
  BY <1>9, <1>10
<1>13. Chained(s, 1, 1, sink)
  BY <1>12 DEF Chained
<1> QED
  BY <1>6, <1>7, <1>10, <1>11, <1>12, <1>13 DEF Finished, LeavesTable
-----------------------------------------------------------------------------
(* The numbered pipes at the next line: those that wait on, and the one     *)
(* that is due.                                                             *)
NumberEntry  == [r : Fd, w : Fd, number : 1..MaxN]
CountedEntry == [r : Fd, w : Fd, number : 0..MaxN - 1]

LEMMA CountedAre ==
    ASSUME NEW pipes \in Seq(NumberEntry)
    PROVE  /\ Counted(pipes) \in Seq(CountedEntry)
           /\ Len(Counted(pipes)) = Len(pipes)
           /\ \A i \in 1..Len(pipes) : /\ Counted(pipes)[i].r = pipes[i].r
                                       /\ Counted(pipes)[i].w = pipes[i].w
                                       /\ Counted(pipes)[i].number = pipes[i].number - 1
<1>1. Len(pipes) \in Nat /\ DOMAIN pipes = 1..Len(pipes)
  OBVIOUS
<1>2. ASSUME NEW i \in 1..Len(pipes)
      PROVE  /\ [pipes[i] EXCEPT !.number = @ - 1] \in CountedEntry
             /\ [pipes[i] EXCEPT !.number = @ - 1].r = pipes[i].r
             /\ [pipes[i] EXCEPT !.number = @ - 1].w = pipes[i].w
             /\ [pipes[i] EXCEPT !.number = @ - 1].number = pipes[i].number - 1
  <2>1. pipes[i] \in NumberEntry
    OBVIOUS
  <2>2. pipes[i].number \in 1..MaxN /\ pipes[i].number - 1 \in 0..MaxN - 1
    BY <2>1, NpShellAssumption DEF NumberEntry
  <2> QED
    BY <2>1, <2>2 DEF NumberEntry, CountedEntry
<1>3. Counted(pipes) = [i \in 1..Len(pipes) |-> [pipes[i] EXCEPT !.number = @ - 1]]
  BY <1>1 DEF Counted
<1>4. \A i \in 1..Len(pipes) : Counted(pipes)[i] = [pipes[i] EXCEPT !.number = @ - 1]
  BY <1>3
<1>5. Counted(pipes) \in [1..Len(pipes) -> CountedEntry]
  BY <1>2, <1>3
<1>6. Counted(pipes) \in Seq(CountedEntry) /\ Len(Counted(pipes)) = Len(pipes)
  <2>1. \A f \in [1..Len(pipes) -> CountedEntry] : f \in Seq(CountedEntry) /\ Len(f) = Len(pipes)
    BY <1>1
  <2> QED
    BY <1>5, <2>1
<1> QED
  BY <1>2, <1>4, <1>6

LEMMA PlacesCount ==
    ASSUME NEW S, NEW to \in Seq(S), NEW from, NEW n \in Nat, NEW places, Leaves(places, from, n, to)
    PROVE  IsFiniteSet(Places(places, to)) /\ Cardinality(Places(places, to)) = Len(to)
<1>1. Len(to) \in Nat /\ IsFiniteSet(1..Len(to)) /\ Cardinality(1..Len(to)) = Len(to)
  <2>1. PICK m \in Nat : m = Len(to)
    OBVIOUS
  <2>2. IsFiniteSet(1..m) /\ Cardinality(1..m) = IF 1 > m THEN 0 ELSE m - 1 + 1
    BY FS_Interval
  <2> QED
    BY <2>1, <2>2
<1>2. places \in Bijection(1..Len(to), Places(places, to))
  <2>1. places \in [1..Len(to) -> Places(places, to)]
    BY DEF Leaves, Places
  <2>2. \A i, j \in 1..Len(to) : places[i] = places[j] => i = j
    <3>1. ASSUME NEW i \in 1..Len(to), NEW j \in 1..Len(to), places[i] = places[j] PROVE i = j
      <4>1. i \in Int /\ j \in Int /\ places[i] \in Int /\ places[j] \in Int
        BY <1>1 DEF Leaves
      <4>2. ~(i < j) /\ ~(j < i)
        BY <3>1, <4>1 DEF Leaves
      <4> QED
        BY <4>1, <4>2
    <3> QED
      BY <3>1
  <2>3. \A x \in Places(places, to) : \E i \in 1..Len(to) : places[i] = x
    BY DEF Places
  <2> QED
    BY <2>1, <2>2, <2>3 DEF Bijection, Injection, Surjection, IsInjective
<1>3. ExistsBijection(1..Len(to), Places(places, to))
  BY <1>2 DEF ExistsBijection
<1> QED
  BY <1>1, <1>3, FS_Bijection

(* to has, at i, the entry of pipes at places[i], down lines nearer.        *)
Drawn(places, pipes, to, down) ==
    /\ places \in [1..Len(to) -> 1..Len(pipes)]
    /\ \A i, j \in 1..Len(to) : i # j => places[i] # places[j]
    /\ \A i \in 1..Len(to) : /\ to[i].r = pipes[places[i]].r /\ to[i].w = pipes[places[i]].w
                             /\ to[i].number = pipes[places[i]].number - down

LEMMA WaitingAre ==
    ASSUME NEW pipes \in Seq(NumberEntry)
    PROVE  /\ Waiting(pipes) \in Seq(NumberEntry)
           /\ \E places : /\ Drawn(places, pipes, Waiting(pipes), 1)
                          /\ Places(places, Waiting(pipes)) =
                                {i \in 1..Len(pipes) : pipes[i].number # 1}
           /\ Len(Waiting(pipes)) = Cardinality({i \in 1..Len(pipes) : pipes[i].number # 1})
<1> DEFINE counted == Counted(pipes)
           wanted == {p \in ToSet(counted) : p.number # 0}
<1>1. PICK waiting : waiting = Waiting(pipes)
  OBVIOUS
<1>2. /\ counted \in Seq(CountedEntry)
      /\ Len(counted) = Len(pipes)
      /\ \A i \in 1..Len(pipes) : /\ counted[i].r = pipes[i].r /\ counted[i].w = pipes[i].w
                                  /\ counted[i].number = pipes[i].number - 1
  BY CountedAre
<1>3. waiting = Among(counted, wanted)
  BY <1>1 DEF Waiting
<1>4. Len(pipes) \in Nat /\ \A i \in 1..Len(pipes) : pipes[i] \in NumberEntry /\ pipes[i].number \in Int
  <2>1. \A i \in 1..Len(pipes) : pipes[i] \in NumberEntry
    OBVIOUS
  <2> QED
    BY <2>1, NpShellAssumption DEF NumberEntry
<1>41. \A i \in 1..Len(counted) : counted[i] \in wanted <=> counted[i].number # 0
  BY <1>2 DEF ToSet
<1> HIDE DEF counted, wanted
<1>5. waiting \in Seq(CountedEntry)
  BY <1>2, <1>3, AmongLeaves
<1>6. PICK places : /\ Leaves(places, counted, Len(counted), waiting)
                    /\ Places(places, waiting) = {i \in 1..Len(counted) : counted[i] \in wanted}
  BY <1>2, <1>3, AmongLeaves
<1>7. Len(waiting) \in Nat /\ DOMAIN waiting = 1..Len(waiting)
  BY <1>5
<1>8. /\ \A i, j \in 1..Len(waiting) : i < j => places[i] < places[j]
      /\ places \in [1..Len(waiting) -> 1..Len(pipes)]
      /\ \A i \in 1..Len(waiting) : places[i] \in 1..Len(pipes) /\ waiting[i] = counted[places[i]]
  BY <1>2, <1>6 DEF Leaves
<1>9. Places(places, waiting) = {i \in 1..Len(pipes) : pipes[i].number # 1}
  <2>1. \A i \in 1..Len(pipes) : counted[i] \in wanted <=> pipes[i].number # 1
    BY <1>2, <1>4, <1>41
  <2> QED
    BY <1>2, <1>6, <2>1
<1>10. \A i, j \in 1..Len(waiting) : i # j => places[i] # places[j]
  BY <1>7, <1>8
<1>11. Drawn(places, pipes, waiting, 1)
  BY <1>2, <1>8, <1>10 DEF Drawn
<1>12. waiting \in Seq(NumberEntry)
  <2>1. ASSUME NEW i \in 1..Len(waiting) PROVE waiting[i] \in NumberEntry
    <3>1. places[i] \in Places(places, waiting)
      BY DEF Places
    <3>2. counted[places[i]] \in CountedEntry /\ counted[places[i]].number # 0
      BY <1>2, <1>4, <1>8, <1>9, <3>1
    <3> QED
      BY <1>8, <3>2, NpShellAssumption DEF NumberEntry, CountedEntry
  <2> QED
    BY <1>5, <1>7, <2>1
<1>13. Len(waiting) = Cardinality(Places(places, waiting))
  BY <1>2, <1>4, <1>5, <1>6, PlacesCount
<1> QED
  BY <1>1, <1>9, <1>11, <1>12, <1>13

Chosen(found, S, pipes, n) ==
    /\ found \in Seq(S)
    /\ \A i \in 1..Len(found) : \E j \in 1..Len(pipes) : found[i] = pipes[j] /\ pipes[j].number = n
    /\ Len(found) = Cardinality({i \in 1..Len(pipes) : pipes[i].number = n})
    /\ IsFiniteSet({i \in 1..Len(pipes) : pipes[i].number = n})

LEMMA WithCountAre ==
    ASSUME NEW S, NEW pipes \in Seq(S), NEW n
    PROVE  Chosen(WithCount(pipes, n), S, pipes, n)
<1> DEFINE wanted == {p \in ToSet(pipes) : p.number = n}
<1>1. PICK found : found = WithCount(pipes, n)
  OBVIOUS
<1>2. found = Among(pipes, wanted)
  BY <1>1 DEF WithCount
<1>3. Len(pipes) \in Nat /\ \A i \in 1..Len(pipes) : pipes[i] \in wanted <=> pipes[i].number = n
  BY DEF ToSet
<1> HIDE DEF wanted
<1>4. found \in Seq(S)
  BY <1>2, AmongLeaves
<1>5. PICK places : /\ Leaves(places, pipes, Len(pipes), found)
                    /\ Places(places, found) = {i \in 1..Len(pipes) : pipes[i] \in wanted}
  BY <1>2, AmongLeaves
<1>6. Places(places, found) = {i \in 1..Len(pipes) : pipes[i].number = n}
  BY <1>3, <1>5
<1>7. ASSUME NEW i \in 1..Len(found)
      PROVE  \E j \in 1..Len(pipes) : found[i] = pipes[j] /\ pipes[j].number = n
  <2>1. places[i] \in Places(places, found) /\ found[i] = pipes[places[i]]
    BY <1>5 DEF Places, Leaves
  <2> QED
    BY <1>6, <2>1
<1>8. IsFiniteSet(Places(places, found)) /\ Len(found) = Cardinality(Places(places, found))
  BY <1>3, <1>4, <1>5, PlacesCount
<1> QED
  BY <1>1, <1>4, <1>6, <1>7, <1>8 DEF Chosen

(* Every entry has its count to itself.                                     *)
OneEach(pipes) == \A i, j \in 1..Len(pipes) : pipes[i].number = pipes[j].number => i = j

(* due is the entry at place i of pipes, which is one line away.            *)
IsDue(due, pipes, i) ==
    /\ i \in 1..Len(pipes) /\ pipes[i].number = 1
    /\ due[1].r = pipes[i].r /\ due[1].w = pipes[i].w

LEMMA DueAre ==
    ASSUME NEW pipes \in Seq(NumberEntry)
    PROVE  /\ Due(pipes) \in Seq(DueEntry)
           /\ Due(pipes) = <<>> => \A i \in 1..Len(pipes) : pipes[i].number # 1
           /\ Due(pipes) # <<>> => \E i : IsDue(Due(pipes), pipes, i)
           /\ OneEach(pipes) => Len(Due(pipes)) \in {0, 1}
           /\ Len(Waiting(pipes)) + Len(Due(pipes)) = Len(pipes)
<1> DEFINE counted == Counted(pipes)
           One == {i \in 1..Len(pipes) : pipes[i].number = 1}
           Rest == {i \in 1..Len(pipes) : pipes[i].number # 1}
<1>1. /\ counted \in Seq(CountedEntry)
      /\ Len(counted) = Len(pipes)
      /\ \A i \in 1..Len(pipes) : /\ counted[i].r = pipes[i].r /\ counted[i].w = pipes[i].w
                                  /\ counted[i].number = pipes[i].number - 1
  BY CountedAre
<1>2. Len(pipes) \in Nat /\ \A i \in 1..Len(pipes) : pipes[i].number \in Int
  <2>1. \A i \in 1..Len(pipes) : pipes[i] \in NumberEntry
    OBVIOUS
  <2> QED
    BY <2>1, NpShellAssumption DEF NumberEntry
<1>3. PICK due : due = Due(pipes)
  OBVIOUS
<1>4. {i \in 1..Len(counted) : counted[i].number = 0} = One
  BY <1>1, <1>2
<1> HIDE DEF counted
<1>5. /\ due \in Seq(CountedEntry)
      /\ \A i \in 1..Len(due) : \E j \in 1..Len(counted) : due[i] = counted[j] /\ counted[j].number = 0
      /\ Len(due) = Cardinality(One) /\ IsFiniteSet(One)
  <2>1. due = WithCount(counted, 0)
    BY <1>3 DEF Due, counted
  <2>2. Chosen(WithCount(counted, 0), CountedEntry, counted, 0)
    BY <1>1, WithCountAre
  <2> QED
    BY <1>4, <2>1, <2>2 DEF Chosen
<1>6. ASSUME NEW i \in 1..Len(due)
      PROVE  due[i] \in DueEntry /\ \E j \in 1..Len(pipes) :
                pipes[j].number = 1 /\ due[i].r = pipes[j].r /\ due[i].w = pipes[j].w
  <2>1. PICK j \in 1..Len(pipes) : due[i] = counted[j] /\ counted[j].number = 0
    BY <1>1, <1>5
  <2>2. due[i] \in CountedEntry
    BY <1>5
  <2>3. due[i] \in DueEntry
    BY <2>1, <2>2 DEF CountedEntry, DueEntry
  <2>4. pipes[j].number = 1
    BY <1>1, <1>2, <2>1
  <2> QED
    BY <1>1, <2>1, <2>3, <2>4
<1>7. due \in Seq(DueEntry)
  BY <1>5, <1>6
<1>8. ASSUME due = <<>> PROVE \A i \in 1..Len(pipes) : pipes[i].number # 1
  <2>1. Cardinality(One) = 0
    BY <1>5, <1>8
  <2> HIDE DEF One
  <2>2. One = {}
    BY <1>5, <2>1, FS_EmptySet
  <2> QED
    BY <2>2 DEF One
<1>9. ASSUME due # <<>> PROVE \E i : IsDue(due, pipes, i)
  <2>1. 1 \in 1..Len(due)
    BY <1>5, <1>9
  <2> QED
    BY <1>6, <2>1 DEF IsDue
<1>10. ASSUME OneEach(pipes) PROVE Len(due) \in {0, 1}
  <2>1. CASE One = {}
    BY <1>5, <2>1, FS_EmptySet
  <2>2. CASE One # {}
    <3>1. PICK i : One = {i}
      BY <1>10, <2>2 DEF OneEach
    <3> QED
      BY <1>5, <3>1, FS_Singleton
  <2> QED
    BY <2>1, <2>2
<1>11. Len(Waiting(pipes)) + Len(due) = Len(pipes)
  <2>1. PICK m \in Nat : m = Len(pipes)
    BY <1>2
  <2>2. IsFiniteSet(1..m) /\ Cardinality(1..m) = IF 1 > m THEN 0 ELSE m - 1 + 1
    BY FS_Interval
  <2>3. Cardinality(1..Len(pipes)) = Len(pipes) /\ IsFiniteSet(1..Len(pipes))
    BY <2>1, <2>2
  <2>4. Rest = (1..Len(pipes)) \ One /\ (1..Len(pipes)) \cap One = One
    OBVIOUS
  <2>5. Len(Waiting(pipes)) = Cardinality(Rest)
    BY WaitingAre
  <2>6. Cardinality(One) \in Nat
    BY <1>5, FS_CardinalityType
  <2> HIDE DEF One, Rest
  <2>7. Cardinality((1..Len(pipes)) \ One) = Cardinality(1..Len(pipes)) - Cardinality((1..Len(pipes)) \cap One)
    BY <2>3, FS_Difference
  <2> QED
    <3>1. Cardinality(Rest) = Len(pipes) - Cardinality(One)
      BY <2>3, <2>4, <2>7
    <3> QED
      BY <1>2, <1>5, <2>5, <2>6, <3>1
<1> QED
  BY <1>3, <1>7, <1>8, <1>9, <1>10, <1>11
-----------------------------------------------------------------------------
(* What is so of the numbered pipes that wait, of the file table F after    *)
(* line l, and of the lines that have aimed at them and written to them:    *)
(* each has both its ends in F, no two are the same pipe or have the same   *)
(* count, and it is the pipe of exactly the lines that mean the line it     *)
(* counts down to.                                                          *)
Behind(F, e) == F[e.r][1]

KeptWhole(F, pipes, l) ==
    \A i \in 1..Len(pipes) :
       \E m \in 1..l : F[pipes[i].r] = <<<<m, 0>>, "r">> /\ F[pipes[i].w] = <<<<m, 0>>, "w">>
Apart(F, pipes) ==
    \A i, j \in 1..Len(pipes) : Behind(F, pipes[i]) = Behind(F, pipes[j]) => i = j
Aiming(F, pipes, l, a, wr) ==
    \A i \in 1..Len(pipes), m \in 1..MaxLine :
       a[m] = l + pipes[i].number <=> wr[m] = Behind(F, pipes[i])
Ahead(pipes, l, a) ==
    \A m \in 1..MaxLine : /\ a[m] > l => \E i \in 1..Len(pipes) : a[m] = l + pipes[i].number
                          /\ m > l => a[m] = 0
Written(l, wr) ==
    \A m \in 1..MaxLine : wr[m] = Closed \/ \E x \in 1..l : wr[m] = <<x, 0>>

WaitsWell(F, pipes, l, a, wr) ==
    /\ KeptWhole(F, pipes, l) /\ Apart(F, pipes) /\ OneEach(pipes)
    /\ Aiming(F, pipes, l, a, wr) /\ Ahead(pipes, l, a) /\ Written(l, wr)

(* The ends of one that waits are open, and different from those of another.*)
LEMMA EndsApart ==
    ASSUME NEW F, NEW pipes, NEW l, KeptWhole(F, pipes, l), Apart(F, pipes),
           NEW i \in 1..Len(pipes)
    PROVE  /\ F[pipes[i].r] # Closed /\ F[pipes[i].w] # Closed /\ pipes[i].r # pipes[i].w
           /\ \A j \in 1..Len(pipes) \ {i} : /\ pipes[i].r \notin {pipes[j].r, pipes[j].w}
                                             /\ pipes[i].w \notin {pipes[j].r, pipes[j].w}
<1>1. PICK m : F[pipes[i].r] = <<<<m, 0>>, "r">> /\ F[pipes[i].w] = <<<<m, 0>>, "w">>
  BY DEF KeptWhole
<1>2. ASSUME NEW j \in 1..Len(pipes) \ {i}
      PROVE  pipes[i].r \notin {pipes[j].r, pipes[j].w} /\ pipes[i].w \notin {pipes[j].r, pipes[j].w}
  <2>1. PICK x : F[pipes[j].r] = <<<<x, 0>>, "r">> /\ F[pipes[j].w] = <<<<x, 0>>, "w">>
    BY DEF KeptWhole
  <2>2. <<m, 0>> # <<x, 0>>
    BY <1>1, <2>1 DEF Apart, Behind
  <2> QED
    BY <1>1, <2>1, <2>2
<1>3. F[pipes[i].r] # Closed /\ F[pipes[i].w] # Closed
  BY <1>1 DEF Closed
<1> QED
  BY <1>1, <1>2, <1>3

(* The next line, whose table keeps every open end but the due ones'.       *)
Survives(G, F, gone) == \A d \in Fd \ gone : F[d] # Closed => G[d] = F[d]

LEMMA WaitOn ==
    ASSUME NEW pipes \in Seq(NumberEntry), NEW F, NEW G, NEW l \in 0..MaxLine - 1,
           NEW a \in [1..MaxLine -> Nat], NEW wr, WaitsWell(F, pipes, l, a, wr),
           Survives(G, F, DueEnds(Due(pipes)))
    PROVE  /\ WaitsWell(G, Waiting(pipes), l + 1, a, wr)
           /\ \A j \in 1..Len(Waiting(pipes)) :
                 /\ Waiting(pipes)[j].r \notin DueEnds(Due(pipes))
                 /\ Waiting(pipes)[j].w \notin DueEnds(Due(pipes))
                 /\ F[Waiting(pipes)[j].r] # Closed /\ F[Waiting(pipes)[j].w] # Closed
                 /\ Waiting(pipes)[j].r # Waiting(pipes)[j].w
                 /\ \E i \in 1..Len(pipes) : /\ pipes[i].number # 1
                                            /\ Waiting(pipes)[j].r = pipes[i].r
                                            /\ Waiting(pipes)[j].w = pipes[i].w
<1>1. PICK waiting : waiting = Waiting(pipes)
  OBVIOUS
<1>2. PICK due : due = Due(pipes)
  OBVIOUS
<1>3. waiting \in Seq(NumberEntry)
  BY <1>1, WaitingAre
<1>4. PICK places : /\ Drawn(places, pipes, waiting, 1)
                    /\ Places(places, waiting) = {i \in 1..Len(pipes) : pipes[i].number # 1}
  BY <1>1, WaitingAre
<1>5. l \in Nat /\ MaxLine \in Nat /\ \A x \in Nat : (l + 1) + x = l + (x + 1)
  <2>1. l \in Nat /\ MaxLine \in Nat
    BY NpShellAssumption
  <2> QED
    BY <2>1
<1>6. \A i \in 1..Len(pipes) : /\ pipes[i].number \in Nat /\ pipes[i].number > 0
                               /\ pipes[i].r \in Fd /\ pipes[i].w \in Fd
  <2>1. \A i \in 1..Len(pipes) : pipes[i] \in NumberEntry
    OBVIOUS
  <2> QED
    BY <2>1, NpShellAssumption DEF NumberEntry
<1>7. ASSUME NEW j \in 1..Len(waiting)
      PROVE  /\ places[j] \in 1..Len(pipes) /\ pipes[places[j]].number # 1
             /\ waiting[j].r = pipes[places[j]].r /\ waiting[j].w = pipes[places[j]].w
             /\ waiting[j].number = pipes[places[j]].number - 1
             /\ pipes[places[j]].number = waiting[j].number + 1 /\ waiting[j].number \in Nat
  <2>1. places[j] \in Places(places, waiting)
    BY DEF Places
  <2>2. places[j] \in 1..Len(pipes) /\ waiting[j].number = pipes[places[j]].number - 1
    BY <1>4 DEF Drawn
  <2>3. PICK x \in Nat : x = pipes[places[j]].number /\ x > 0
    BY <1>6, <2>2
  <2>4. waiting[j].number = x - 1
    BY <2>2, <2>3
  <2>5. waiting[j].number \in Nat /\ x = waiting[j].number + 1
    BY <2>3, <2>4
  <2> QED
    BY <1>4, <2>1, <2>3, <2>5 DEF Drawn
<1>8. ASSUME NEW i \in 1..Len(pipes), pipes[i].number # 1
      PROVE  \E j \in 1..Len(waiting) : places[j] = i
  BY <1>4, <1>8 DEF Places
<1>9. ASSUME NEW i \in 1..Len(pipes), pipes[i].number # 1
      PROVE  /\ pipes[i].r \notin DueEnds(due) /\ pipes[i].w \notin DueEnds(due)
             /\ F[pipes[i].r] # Closed /\ F[pipes[i].w] # Closed /\ pipes[i].r # pipes[i].w
             /\ G[pipes[i].r] = F[pipes[i].r] /\ G[pipes[i].w] = F[pipes[i].w]
  <2>1. /\ F[pipes[i].r] # Closed /\ F[pipes[i].w] # Closed /\ pipes[i].r # pipes[i].w
        /\ \A j \in 1..Len(pipes) \ {i} : /\ pipes[i].r \notin {pipes[j].r, pipes[j].w}
                                          /\ pipes[i].w \notin {pipes[j].r, pipes[j].w}
    BY EndsApart DEF WaitsWell
  <2>2. pipes[i].r \notin DueEnds(due) /\ pipes[i].w \notin DueEnds(due)
    <3>1. CASE due = <<>>
      BY <3>1 DEF DueEnds
    <3>2. CASE due # <<>>
      <4>1. PICK k : IsDue(due, pipes, k)
        BY <1>2, <3>2, DueAre
      <4>2. k \in 1..Len(pipes) \ {i} /\ DueEnds(due) = {pipes[k].r, pipes[k].w}
        BY <1>9, <3>2, <4>1 DEF IsDue, DueEnds
      <4> QED
        BY <2>1, <4>2
    <3> QED
      BY <3>1, <3>2
  <2> QED
    BY <1>2, <1>6, <2>1, <2>2 DEF Survives
<1>10. KeptWhole(G, waiting, l + 1)
  <2> SUFFICES ASSUME NEW j \in 1..Len(waiting)
               PROVE  \E m \in 1..l + 1 : /\ G[waiting[j].r] = <<<<m, 0>>, "r">>
                                          /\ G[waiting[j].w] = <<<<m, 0>>, "w">>
    BY DEF KeptWhole
  <2>1. PICK m \in 1..l : /\ F[pipes[places[j]].r] = <<<<m, 0>>, "r">>
                          /\ F[pipes[places[j]].w] = <<<<m, 0>>, "w">>
    BY <1>7 DEF WaitsWell, KeptWhole
  <2>2. m \in 1..l + 1
    BY <1>5
  <2> QED
    BY <1>7, <1>9, <2>1, <2>2
<1>11. ASSUME NEW j \in 1..Len(waiting)
       PROVE  Behind(G, waiting[j]) = Behind(F, pipes[places[j]])
  BY <1>7, <1>9 DEF Behind
<1>12. Apart(G, waiting)
  <2> SUFFICES ASSUME NEW j \in 1..Len(waiting), NEW k \in 1..Len(waiting),
                      Behind(G, waiting[j]) = Behind(G, waiting[k])
               PROVE  j = k
    BY DEF Apart
  <2>1. places[j] = places[k]
    BY <1>7, <1>11 DEF WaitsWell, Apart
  <2> QED
    BY <1>4, <2>1 DEF Drawn
<1>13. OneEach(waiting)
  <2> SUFFICES ASSUME NEW j \in 1..Len(waiting), NEW k \in 1..Len(waiting),
                      waiting[j].number = waiting[k].number
               PROVE  j = k
    BY DEF OneEach
  <2>1. pipes[places[j]].number = pipes[places[k]].number
    <3>1. /\ pipes[places[j]].number = waiting[j].number + 1
          /\ pipes[places[k]].number = waiting[k].number + 1
      BY <1>7
    <3> QED
      BY <3>1
  <2>2. places[j] = places[k]
    BY <1>7, <2>1 DEF WaitsWell, OneEach
  <2> QED
    BY <1>4, <2>2 DEF Drawn
<1>14. Aiming(G, waiting, l + 1, a, wr)
  <2> SUFFICES ASSUME NEW j \in 1..Len(waiting), NEW m \in 1..MaxLine
               PROVE  a[m] = (l + 1) + waiting[j].number <=> wr[m] = Behind(G, waiting[j])
    BY DEF Aiming
  <2>1. (l + 1) + waiting[j].number = l + pipes[places[j]].number
    <3>1. PICK x \in Nat : x = waiting[j].number
      BY <1>7
    <3>2. pipes[places[j]].number = x + 1
      BY <1>7, <3>1
    <3>3. (l + 1) + x = l + (x + 1)
      BY <1>5
    <3> QED
      BY <3>1, <3>2, <3>3, Zenon
  <2> QED
    BY <1>7, <1>11, <2>1 DEF WaitsWell, Aiming
<1>15. Ahead(waiting, l + 1, a)
  <2>1. ASSUME NEW m \in 1..MaxLine, a[m] > l + 1
        PROVE  \E j \in 1..Len(waiting) : a[m] = (l + 1) + waiting[j].number
    <3>0. PICK y \in Nat : y = a[m]
      OBVIOUS
    <3>1. a[m] > l
      BY <1>5, <2>1, <3>0
    <3>2. PICK i \in 1..Len(pipes) : a[m] = l + pipes[i].number
      BY <3>1 DEF WaitsWell, Ahead
    <3>3. pipes[i].number # 1
      BY <1>5, <1>6, <2>1, <3>2
    <3>4. PICK j \in 1..Len(waiting) : places[j] = i
      BY <1>8, <3>3
    <3>5. a[m] = (l + 1) + waiting[j].number
      <4>1. PICK x \in Nat : x = waiting[j].number
        BY <1>7
      <4>2. pipes[i].number = x + 1
        BY <1>7, <3>4, <4>1
      <4>3. (l + 1) + x = l + (x + 1)
        BY <1>5
      <4> QED
        BY <3>2, <4>1, <4>2, <4>3, Zenon
    <3> QED
      BY <3>5
  <2>2. ASSUME NEW m \in 1..MaxLine, m > l + 1 PROVE a[m] = 0
    <3>1. m > l
      <4>1. m \in Nat
        BY <1>5
      <4> QED
        BY <1>5, <2>2, <4>1
    <3> QED
      BY <3>1 DEF WaitsWell, Ahead
  <2> QED
    BY <2>1, <2>2 DEF Ahead
<1>16. Written(l + 1, wr)
  <2>1. \A x \in 1..l : x \in 1..l + 1
    BY <1>5
  <2>2. Written(l, wr)
    BY DEF WaitsWell
  <2> QED
    BY <2>1, <2>2 DEF Written
<1> QED
  <2>1. WaitsWell(G, waiting, l + 1, a, wr)
    BY <1>10, <1>12, <1>13, <1>14, <1>15, <1>16 DEF WaitsWell
  <2>2. \A j \in 1..Len(waiting) :
           /\ waiting[j].r \notin DueEnds(due) /\ waiting[j].w \notin DueEnds(due)
           /\ F[waiting[j].r] # Closed /\ F[waiting[j].w] # Closed
           /\ waiting[j].r # waiting[j].w
           /\ \E i \in 1..Len(pipes) : /\ pipes[i].number # 1
                                      /\ waiting[j].r = pipes[i].r /\ waiting[j].w = pipes[i].w
    BY <1>7, <1>9
  <2> QED
    BY <1>1, <1>2, <2>1, <2>2

(* Line l has written to the pipe of the entry with the count n.            *)
LEMMA SharedOn ==
    ASSUME NEW pipes \in Seq(NumberEntry), NEW F, NEW l \in 1..MaxLine,
           NEW a \in [1..MaxLine -> Nat], NEW wr \in [1..MaxLine -> Pipe \cup {Closed}],
           WaitsWell(F, pipes, l, a, wr),
           NEW s \in 1..Len(pipes), Behind(F, pipes[s]) \in Pipe
    PROVE  WaitsWell(F, pipes, l, [a EXCEPT ![l] = l + pipes[s].number],
                     [wr EXCEPT ![l] = Behind(F, pipes[s])])
<1>1. PICK a1 : a1 = [a EXCEPT ![l] = l + pipes[s].number]
  OBVIOUS
<1>2. PICK w1 : w1 = [wr EXCEPT ![l] = Behind(F, pipes[s])]
  OBVIOUS
<1>3. /\ a1[l] = l + pipes[s].number /\ \A m \in 1..MaxLine : m # l => a1[m] = a[m]
      /\ w1[l] = Behind(F, pipes[s]) /\ \A m \in 1..MaxLine : m # l => w1[m] = wr[m]
  BY <1>1, <1>2
<1>4. l \in Nat /\ \A i \in 1..Len(pipes) : pipes[i].number \in Nat /\ pipes[i].number > 0
  <2>1. \A i \in 1..Len(pipes) : pipes[i] \in NumberEntry
    OBVIOUS
  <2> QED
    BY <2>1, NpShellAssumption DEF NumberEntry
<1>5. Aiming(F, pipes, l, a1, w1)
  <2> SUFFICES ASSUME NEW i \in 1..Len(pipes), NEW m \in 1..MaxLine
               PROVE  a1[m] = l + pipes[i].number <=> w1[m] = Behind(F, pipes[i])
    BY DEF Aiming
  <2>1. CASE m = l
    <3>1. l + pipes[s].number = l + pipes[i].number <=> i = s
      BY <1>4 DEF WaitsWell, OneEach
    <3>2. Behind(F, pipes[s]) = Behind(F, pipes[i]) <=> i = s
      BY DEF WaitsWell, Apart
    <3> QED
      BY <1>3, <2>1, <3>1, <3>2
  <2>2. CASE m # l
    BY <1>3, <2>2 DEF WaitsWell, Aiming
  <2> QED
    BY <2>1, <2>2
<1>6. Ahead(pipes, l, a1)
  <2> SUFFICES ASSUME NEW m \in 1..MaxLine
               PROVE  /\ a1[m] > l => \E i \in 1..Len(pipes) : a1[m] = l + pipes[i].number
                      /\ m > l => a1[m] = 0
    BY DEF Ahead
  <2>1. CASE m = l
    <3>1. a1[m] = l + pipes[s].number
      BY <1>3, <2>1
    <3>2. ~(m > l)
      BY <1>4, <2>1
    <3> QED
      BY <3>1, <3>2
  <2>2. CASE m # l
    BY <1>3, <2>2 DEF WaitsWell, Ahead
  <2> QED
    BY <2>1, <2>2
<1>7. Written(l, w1)
  <2> SUFFICES ASSUME NEW m \in 1..MaxLine
               PROVE  w1[m] = Closed \/ \E x \in 1..l : w1[m] = <<x, 0>>
    BY DEF Written
  <2>1. CASE m = l
    <3>1. PICK x \in 1..l : F[pipes[s].r] = <<<<x, 0>>, "r">>
      BY DEF WaitsWell, KeptWhole
    <3>2. w1[m] = <<x, 0>>
      BY <1>3, <2>1, <3>1 DEF Behind
    <3> QED
      BY <3>2
  <2>2. CASE m # l
    BY <1>3, <2>2 DEF WaitsWell, Written
  <2> QED
    BY <2>1, <2>2
<1> QED
  BY <1>1, <1>2, <1>5, <1>6, <1>7 DEF WaitsWell

(* Line l has opened the pipe behind entry and written to it.               *)
LEMMA FreshOn ==
    ASSUME NEW pipes \in Seq(NumberEntry), NEW F, NEW l \in 1..MaxLine,
           NEW a \in [1..MaxLine -> Nat], NEW wr \in [1..MaxLine -> Pipe \cup {Closed}],
           WaitsWell(F, pipes, l, a, wr),
           NEW entry \in NumberEntry, <<l, 0>> \in Pipe,
           F[entry.r] = <<<<l, 0>>, "r">>, F[entry.w] = <<<<l, 0>>, "w">>,
           \A i \in 1..Len(pipes) : pipes[i].number # entry.number /\ Behind(F, pipes[i]) # <<l, 0>>,
           \A m \in 1..MaxLine : wr[m] # <<l, 0>>
    PROVE  WaitsWell(F, Append(pipes, entry), l, [a EXCEPT ![l] = l + entry.number],
                     [wr EXCEPT ![l] = <<l, 0>>])
<1>1. PICK a1 : a1 = [a EXCEPT ![l] = l + entry.number]
  OBVIOUS
<1>2. PICK w1 : w1 = [wr EXCEPT ![l] = <<l, 0>>]
  OBVIOUS
<1>3. /\ a1[l] = l + entry.number /\ \A m \in 1..MaxLine : m # l => a1[m] = a[m]
      /\ w1[l] = <<l, 0>> /\ \A m \in 1..MaxLine : m # l => w1[m] = wr[m]
  BY <1>1, <1>2
<1>4. PICK more : more = Append(pipes, entry)
  OBVIOUS
<1>5. PICK k \in Nat : k = Len(pipes)
  <2>1. Len(pipes) \in Nat
    OBVIOUS
  <2> QED
    BY <2>1, Zenon
<1>6. /\ Len(more) = k + 1 /\ more[k + 1] = entry /\ k + 1 \in 1..Len(more)
      /\ \A i \in 1..k : more[i] = pipes[i] /\ i \in 1..Len(more)
      /\ \A i \in 1..Len(more) : i \in 1..Len(pipes) \/ i = k + 1
  BY <1>4, <1>5
<1>7. /\ l \in Nat /\ entry.number \in Nat
      /\ \A i \in 1..Len(pipes) : pipes[i].number \in Nat /\ pipes[i].number > 0
  <2>1. \A i \in 1..Len(pipes) : pipes[i] \in NumberEntry
    OBVIOUS
  <2> QED
    BY <2>1, NpShellAssumption DEF NumberEntry
<1>8. Behind(F, entry) = <<l, 0>>
  BY DEF Behind
<1>9. /\ KeptWhole(F, pipes, l) /\ Apart(F, pipes) /\ OneEach(pipes)
      /\ Aiming(F, pipes, l, a, wr) /\ Ahead(pipes, l, a) /\ Written(l, wr)
  BY DEF WaitsWell
<1>10. KeptWhole(F, more, l)
  <2> SUFFICES ASSUME NEW i \in 1..Len(more)
               PROVE  \E m \in 1..l : F[more[i].r] = <<<<m, 0>>, "r">> /\ F[more[i].w] = <<<<m, 0>>, "w">>
    BY DEF KeptWhole
  <2>1. CASE i \in 1..Len(pipes)
    BY <1>5, <1>6, <1>9, <2>1 DEF KeptWhole
  <2>2. CASE i = k + 1
    <3>1. l \in 1..l
      BY <1>7
    <3> QED
      BY <1>6, <2>2, <3>1
  <2> QED
    BY <1>6, <2>1, <2>2
<1>11. Apart(F, more)
  <2>1. \A i \in 1..Len(pipes) : more[i] = pipes[i]
    BY <1>5, <1>6
  <2> QED
    BY <1>6, <1>8, <1>9, <2>1 DEF Apart
<1>12. OneEach(more)
  <2>1. \A i \in 1..Len(pipes) : more[i] = pipes[i]
    BY <1>5, <1>6
  <2> QED
    BY <1>6, <1>9, <2>1 DEF OneEach
<1>13. ASSUME NEW m \in 1..MaxLine, m # l
       PROVE  a[m] # l + entry.number
  <2> SUFFICES ASSUME a[m] = l + entry.number PROVE FALSE
    OBVIOUS
  <2>1. entry.number > 0
    BY NpShellAssumption DEF NumberEntry
  <2>2. a[m] > l
    BY <1>7, <2>1
  <2>3. PICK i \in 1..Len(pipes) : a[m] = l + pipes[i].number
    BY <1>9, <2>2 DEF Ahead
  <2>4. pipes[i].number = entry.number
    BY <1>7, <2>3
  <2> QED
    BY <2>4
<1>14. Aiming(F, more, l, a1, w1)
  <2> SUFFICES ASSUME NEW i \in 1..Len(more), NEW m \in 1..MaxLine
               PROVE  a1[m] = l + more[i].number <=> w1[m] = Behind(F, more[i])
    BY DEF Aiming
  <2>1. CASE i = k + 1
    BY <1>3, <1>6, <1>8, <1>13, <2>1
  <2>2. CASE i \in 1..Len(pipes)
    <3>1. more[i] = pipes[i]
      BY <1>5, <1>6, <2>2
    <3>2. CASE m = l
      <4>1. l + entry.number # l + pipes[i].number
        BY <1>7, <2>2
      <4> QED
        BY <1>3, <2>2, <3>1, <3>2, <4>1
    <3>3. CASE m # l
      BY <1>3, <1>9, <2>2, <3>1, <3>3 DEF Aiming
    <3> QED
      BY <3>2, <3>3
  <2> QED
    BY <1>6, <2>1, <2>2
<1>15. Ahead(more, l, a1)
  <2> SUFFICES ASSUME NEW m \in 1..MaxLine
               PROVE  /\ a1[m] > l => \E i \in 1..Len(more) : a1[m] = l + more[i].number
                      /\ m > l => a1[m] = 0
    BY DEF Ahead
  <2>1. CASE m = l
    <3>1. a1[m] = l + more[k + 1].number
      BY <1>3, <1>6, <2>1
    <3>2. ~(m > l)
      BY <1>7, <2>1
    <3> QED
      BY <1>6, <3>1, <3>2
  <2>2. CASE m # l
    <3>1. a1[m] > l => \E i \in 1..Len(pipes) : a1[m] = l + pipes[i].number
      BY <1>3, <1>9, <2>2 DEF Ahead
    <3>2. \A i \in 1..Len(pipes) : more[i] = pipes[i] /\ i \in 1..Len(more)
      BY <1>5, <1>6
    <3>3. m > l => a1[m] = 0
      BY <1>3, <1>9, <2>2 DEF Ahead
    <3> QED
      BY <3>1, <3>2, <3>3
  <2> QED
    BY <2>1, <2>2
<1>16. Written(l, w1)
  <2> SUFFICES ASSUME NEW m \in 1..MaxLine
               PROVE  w1[m] = Closed \/ \E x \in 1..l : w1[m] = <<x, 0>>
    BY DEF Written
  <2>1. CASE m = l
    <3>1. l \in 1..l
      BY <1>7
    <3> QED
      BY <1>3, <2>1, <3>1
  <2>2. CASE m # l
    BY <1>3, <1>9, <2>2 DEF Written
  <2> QED
    BY <2>1, <2>2
<1>17. WaitsWell(F, more, l, a1, w1)
  BY <1>10, <1>11, <1>12, <1>14, <1>15, <1>16 DEF WaitsWell
<1> QED
  BY <1>1, <1>2, <1>4, <1>17

(* A line that is over has kept every open end but those of the pipe due.   *)
LEMMA LineSurvives ==
    ASSUME NEW T \in Table, NEW F, NEW gone, NEW k, LeavesTable(F, Shut(T, gone), k)
    PROVE  Survives(F, T, gone)
<1>1. \A d \in Fd : Shut(T, gone)[d] = IF d \in gone THEN Closed ELSE T[d]
  BY ShutIs
<1>2. CASE F = Shut(T, gone)
  BY <1>1, <1>2 DEF Survives
<1>3. CASE \E x : Left(F, Shut(T, gone), x, <<PipeNo(k), "r">>)
  <2>1. PICK x : Left(F, Shut(T, gone), x, <<PipeNo(k), "r">>)
    BY <1>3
  <2> QED
    BY <1>1, <2>1 DEF Left, Survives
<1> QED
  BY <1>2, <1>3 DEF LeavesTable

LEMMA EndNotTerminal == \A p, y : <<p, y>> # Terminal
<1>1. \A p, y : Len(<<p, y>>) = 2
  OBVIOUS
<1>2. Len(Terminal) = 1
  BY DEF Terminal
<1> QED
  BY <1>1, <1>2

(* What the first command of the next line hears.                           *)
Heard(x, wr) == IF x = Terminal THEN {} ELSE {m \in 1..MaxLine : x = <<wr[m], "r">>}

FirstRead(T, pipes, x) == x = IF Due(pipes) = <<>> THEN Terminal ELSE T[Due(pipes)[1].r]
Kept(a1, w1, a, wr, l, x) ==
    \A m \in 1..MaxLine : \/ a1[m] = a[m] /\ w1[m] = wr[m]
                          \/ a1[m] # l + 1 /\ x # <<w1[m], "r">>
HearsAimed(x, w1, a1, l) == Heard(x, w1) = {m \in 1..MaxLine : a1[m] = l + 1}

LEMMA HeardIs ==
    ASSUME NEW pipes \in Seq(NumberEntry), NEW F, NEW T, NEW l \in 0..MaxLine - 1,
           NEW a \in [1..MaxLine -> Nat], NEW wr, WaitsWell(F, pipes, l, a, wr),
           Survives(T, F, {}),
           NEW x, FirstRead(T, pipes, x),
           NEW a1, NEW w1, Kept(a1, w1, a, wr, l, x)
    PROVE  HearsAimed(x, w1, a1, l)
<1> USE DEF FirstRead, Kept, HearsAimed
<1>1. PICK due : due = Due(pipes)
  OBVIOUS
<1>2. l \in Nat /\ l + 1 > l
  BY NpShellAssumption
<1>3. /\ Aiming(F, pipes, l, a, wr) /\ Ahead(pipes, l, a) /\ KeptWhole(F, pipes, l)
  BY DEF WaitsWell
<1>4. \A i \in 1..Len(pipes) : pipes[i].number \in Nat /\ pipes[i].r \in Fd
  <2>1. \A i \in 1..Len(pipes) : pipes[i] \in NumberEntry
    OBVIOUS
  <2> QED
    BY <2>1, NpShellAssumption DEF NumberEntry
<1>5. CASE due = <<>>
  <2>1. x = Terminal
    BY <1>1, <1>5
  <2>2. \A m \in 1..MaxLine : a[m] # l + 1
    <3> SUFFICES ASSUME NEW m \in 1..MaxLine, a[m] = l + 1 PROVE FALSE
      OBVIOUS
    <3>1. PICK i \in 1..Len(pipes) : a[m] = l + pipes[i].number
      BY <1>2, <1>3 DEF Ahead
    <3>2. pipes[i].number = 1
      BY <1>2, <1>4, <3>1
    <3> QED
      BY <1>1, <1>5, <3>2, DueAre
  <2> QED
    BY <2>1, <2>2 DEF Heard
<1>6. CASE due # <<>>
  <2>1. PICK i : IsDue(due, pipes, i)
    BY <1>1, <1>6, DueAre
  <2>2. PICK q \in 1..l : F[pipes[i].r] = <<<<q, 0>>, "r">>
    BY <1>3, <2>1 DEF KeptWhole, IsDue
  <2>3. x = <<<<q, 0>>, "r">>
    <3>1. due[1].r = pipes[i].r /\ pipes[i].r \in Fd
      BY <1>4, <2>1 DEF IsDue
    <3>2. F[pipes[i].r] # Closed
      BY <2>2 DEF Closed
    <3>3. T[pipes[i].r] = F[pipes[i].r]
      BY <3>1, <3>2 DEF Survives
    <3> QED
      BY <1>1, <1>6, <2>2, <3>1, <3>3
  <2>4. x # Terminal
    BY <2>3, EndNotTerminal
  <2>5. \A m \in 1..MaxLine : a[m] = l + 1 <=> wr[m] = <<q, 0>>
    <3>1. i \in 1..Len(pipes) /\ pipes[i].number = 1 /\ Behind(F, pipes[i]) = <<q, 0>>
      BY <2>1, <2>2 DEF IsDue, Behind
    <3> QED
      BY <1>3, <3>1 DEF Aiming
  <2>6. \A m \in 1..MaxLine : a1[m] = l + 1 <=> x = <<w1[m], "r">>
    <3> SUFFICES ASSUME NEW m \in 1..MaxLine PROVE a1[m] = l + 1 <=> x = <<w1[m], "r">>
      OBVIOUS
    <3>1. CASE a1[m] = a[m] /\ w1[m] = wr[m]
      BY <2>3, <2>5, <3>1
    <3>2. CASE a1[m] # l + 1 /\ x # <<w1[m], "r">>
      BY <3>2
    <3> QED
      BY <3>1, <3>2
  <2> QED
    BY <2>4, <2>6 DEF Heard
<1> QED
  BY <1>5, <1>6
-----------------------------------------------------------------------------
(* A line |n in its parts.                                                  *)
Shares(n) == Sharing(n) # <<>>
NumberedEnds(n) == IF Shares(n) THEN [r |-> Sharing(n)[1].r, w |-> Sharing(n)[1].w] ELSE Ends(fds)
NumberedTable(n) == IF Shares(n) THEN fds ELSE Piped(fds, NumberedEnds(n), <<line + 1, 0>>)
NumberedEntry(n) == [r |-> NumberedEnds(n).r, w |-> NumberedEnds(n).w, number |-> n]
NumberedPipes(n) ==
    Waiting(number_pipe) \o IF Shares(n) THEN <<>> ELSE <<NumberedEntry(n)>>
NumberedWork(k, n) ==
    IF k = 1 THEN OneTo(AtStart(NumberedTable(n)), NumberedEnds(n))
    ELSE ManyTo(AtStart(NumberedTable(n)), NumberedEnds(n), k)
NoPipeFor(n) == ~Shares(n) /\ Cardinality(Free(fds)) < 2

NumberedRan(k, n) ==
    /\ Ran(NumberedWork(k, n), NumberedPipes(n)) /\ UNCHANGED missed
    /\ aim' = [aim EXCEPT ![line + 1] = line + 1 + n]
    /\ wrote' = [wrote EXCEPT ![line + 1] =
                    IF NumberedWork(k, n).ok /\ NumberedWork(k, n).outs[k] # Terminal
                    THEN NumberedWork(k, n).outs[k][1] ELSE Closed]

LEMMA NumberedIs ==
    ASSUME NEW k, NEW n, Numbered(k, n)
    PROVE  \/ /\ NoPipeFor(n)
              /\ Ran([AtStart(fds) EXCEPT !.ok = FALSE], Waiting(number_pipe))
              /\ UNCHANGED <<aim, wrote, missed>>
           \/ ~NoPipeFor(n) /\ NumberedRan(k, n)
<1>1. CASE Shares(n)
  BY <1>1, Zenon DEF Numbered, NumberedRan, NumberedWork, NumberedPipes, NumberedEntry, NumberedTable,
                     NumberedEnds, NoPipeFor, Shares
<1>2. CASE ~Shares(n)
  BY <1>2, Zenon DEF Numbered, NumberedRan, NumberedWork, NumberedPipes, NumberedEntry, NumberedTable,
                     NumberedEnds, NoPipeFor, Shares
<1> QED
  BY <1>1, <1>2

LEMMA FreeCount == \A F : Cardinality(Free(F)) \in Nat
<1> SUFFICES ASSUME NEW F PROVE Cardinality(Free(F)) \in Nat
  OBVIOUS
<1>1. IsFiniteSet(Fd) /\ Free(F) \subseteq Fd
  BY NpShellAssumption, FS_Interval DEF Fd, Free
<1>2. IsFiniteSet(Free(F))
  BY <1>1, FS_Subset
<1> QED
  BY <1>2, FS_CardinalityType

(* Each stage adds the stdout of one child.                                 *)
LEMMA StagesTyped ==
    ASSUME NEW work \in Works, NEW k \in 1..MaxStage, NEW sink, NEW releasing,
           line \in 0..MaxLine - 1, work.outs = <<>>
    PROVE  /\ Stages(work, k, sink, releasing) \in Works
           /\ Stages(work, k, sink, releasing).ok => Len(Stages(work, k, sink, releasing).outs) = k
<1>0. \A x \in Works, i \in 1..MaxStage, release \in BOOLEAN :
         Outcome(x, i, k, sink, release)
  BY StageOutcome, Zenon
<1>1. k \in Nat
  BY NpShellAssumption
<1>2. PICK v : WalksStages(v, work, k, sink, releasing)
  BY StagesWalk
<1>3. v \in [0..k -> Works] /\ v[0] = work /\ v[k] = Stages(work, k, sink, releasing)
  BY <1>2 DEF WalksStages
<1> DEFINE N == {i \in 0..k : v[i].ok => Len(v[i].outs) = i}
<1>4. 0 \in N
  BY <1>1, <1>3
<1>5. ASSUME NEW i \in 0..k, i < k, i \in N PROVE i + 1 \in N
  <2>1. PICK j \in 1..k : j = i + 1
    BY <1>1, <1>5
  <2>2. j - 1 = i /\ v[i] \in Works /\ j \in 1..MaxStage /\ (j \in releasing) \in BOOLEAN /\ i \in Nat
    BY <1>1, <1>3, <2>1, NpShellAssumption
  <2>3. PICK s : s = Stage(v[i], j, k, sink, j \in releasing)
    OBVIOUS
  <2>4. v[j] = s
    BY <1>2, <2>2, <2>3 DEF WalksStages
  <2>5. \/ s = [v[i] EXCEPT !.ok = FALSE]
        \/ v[i].ok /\ StageRuns(v[i], s, j, k, sink, j \in releasing)
    <3>1. v[i] \in Works /\ (j \in releasing) \in BOOLEAN /\ j \in 1..MaxStage
      BY <2>2
    <3> QED
      BY <1>0, <2>3, <3>1, Zenon DEF Outcome
  <2>6. CASE s = [v[i] EXCEPT !.ok = FALSE]
    <3>1. ~s.ok
      BY <2>2, <2>6 DEF Works
    <3> QED
      BY <2>1, <2>4, <3>1
  <2>7. CASE v[i].ok /\ StageRuns(v[i], s, j, k, sink, j \in releasing)
    <3>1. PICK y : s.outs = Append(v[i].outs, y)
      BY <2>7 DEF StageRuns
    <3>2. v[i].outs \in Seq(Stream) /\ Len(v[i].outs) = i
      BY <1>5, <2>2, <2>7 DEF Works
    <3>3. Len(s.outs) = i + 1
      BY <3>1, <3>2
    <3> QED
      BY <2>1, <2>4, <3>3
  <2> QED
    BY <2>5, <2>6, <2>7
<1>6. 0..k \subseteq N
  <2> HIDE DEF N
  <2> QED
    BY <1>1, <1>4, <1>5, UpTo
<1>7. k \in 0..k
  BY <1>1
<1>8. k \in N
  BY <1>6, <1>7
<1> QED
  BY <1>3, <1>7, <1>8

LEMMA OneTyped ==
    ASSUME NEW w \in Works, NEW X, NEW sink, w.outs = <<>>
    PROVE  /\ OneCommand(w, X, sink) \in Works
           /\ Len(OneCommand(w, X, sink).outs) = 1
<1> DEFINE u == ShutCurWrite(w)
           child == Shut(u.fds, X)
           x == Found(child, CurRead(u))
           y == Found(child, sink)
           f == Forked(u, x, y)
           s == Release(f)
<1>1. u \in Works /\ u.outs = <<>>
  <2>1. u \in Works /\ (u = w \/ u = [w EXCEPT !.fds = Shut(w.fds, {w.cur[1].w})])
    BY ShutCurWriteIs
  <2> HIDE DEF u
  <2> QED
    BY <2>1 DEF Works
<1> HIDE DEF u
<1>2. child \in Table
  BY <1>1, ShutIs DEF Works
<1> HIDE DEF child
<1>3. x \in Stream /\ y \in Stream
  BY <1>2, FoundIs
<1> HIDE DEF x, y
<1>4. f \in Works /\ f.outs = Append(<<>>, y)
  <2>1. f \in Works /\ f = [u EXCEPT !.ins = Append(u.ins, x), !.outs = Append(u.outs, y)]
    BY <1>1, <1>3, ForkedIs
  <2> HIDE DEF f
  <2> QED
    BY <1>1, <2>1 DEF Works
<1> HIDE DEF f
<1>5. s \in Works /\ s.outs = f.outs
  <2>1. /\ s \in Works
        /\ s = f \/ s = [f EXCEPT !.fds = Shut(f.fds, {f.cur[1].r, f.cur[1].w}),
                                  !.cur = SubSeq(f.cur, 1, Len(f.cur) - 1)]
    BY <1>4, ReleaseIs
  <2> HIDE DEF s
  <2> QED
    BY <1>4, <2>1 DEF Works
<1>6. Len(s.outs) = 1
  BY <1>4, <1>5
<1>7. OneCommand(w, X, sink) = s
  BY DEF OneCommand, s, f, x, y, child, u
<1> QED
  BY <1>5, <1>6, <1>7
-----------------------------------------------------------------------------
(* The values each variable can have.                                       *)
RanTyped ==
    /\ fds' \in Table /\ number_pipe' \in Seq(NumberEntry) /\ cur' \in Seq(DueEntry)
    /\ ended' \in {"no", "noPipe"} /\ ins' \in Seq(Stream) /\ outs' \in Seq(Stream)
    /\ line' \in 0..MaxLine

LEMMA RanIsTyped ==
    ASSUME TypeOK, NEW w \in Works, NEW pipes \in Seq(NumberEntry), Ran(w, pipes)
    PROVE  RanTyped
<1>1. line \in 0..MaxLine /\ line < MaxLine /\ MaxLine \in Nat
  BY NpShellAssumption DEF TypeOK, Ran
<1>2. line + 1 \in 0..MaxLine
  BY <1>1
<1> QED
  BY <1>2 DEF Ran, RanTyped, Works

LEMMA StartTyped ==
    ASSUME TypeOK
    PROVE  /\ number_pipe \in Seq(NumberEntry) /\ Waiting(number_pipe) \in Seq(NumberEntry)
           /\ fds \in Table
           /\ \A T \in Table : /\ AtStart(T) \in Works /\ AtStart(T).outs = <<>> /\ AtStart(T).ok
                               /\ AtStart(T) = Work(T, cur \o Due(number_pipe))
<1>1. number_pipe \in Seq(NumberEntry) /\ cur \in Seq(DueEntry) /\ fds \in Table
  BY DEF TypeOK, NumberEntry, DueEntry, Table
<1>2. Due(number_pipe) \in Seq(DueEntry) /\ Waiting(number_pipe) \in Seq(NumberEntry)
  BY <1>1, DueAre, WaitingAre
<1>3. cur \o Due(number_pipe) \in Seq(DueEntry)
  BY <1>1, <1>2
<1>4. \A T \in Table : AtStart(T) \in Works /\ AtStart(T) = Work(T, cur \o Due(number_pipe))
  BY <1>3, WorkIs DEF AtStart
<1>5. \A T, due : Work(T, due).outs = <<>> /\ Work(T, due).ok
  BY DEF Work
<1> QED
  BY <1>1, <1>2, <1>4, <1>5

LEMMA ShutCurWriteStarts ==
    ASSUME NEW w \in Works
    PROVE  /\ ShutCurWrite(w) \in Works
           /\ ShutCurWrite(w).outs = w.outs /\ ShutCurWrite(w).ins = w.ins /\ ShutCurWrite(w).pi = w.pi
           /\ ShutCurWrite(w).ok = w.ok /\ ShutCurWrite(w).cur = w.cur
           /\ ShutCurWrite(w).fds = Shut(w.fds, CurWrite(w))
<1>1. w.fds \in Table
  BY DEF Works
<1>2. CASE w.cur = <<>>
  <2>1. ShutCurWrite(w) = w /\ Shut(w.fds, {}) = w.fds
    BY <1>1, <1>2, ShutCurWriteIs, ShutNothing
  <2> QED
    BY <1>2, <2>1 DEF CurWrite
<1>3. CASE w.cur # <<>>
  <2>1. PICK u \in Works : u = ShutCurWrite(w)
    BY ShutCurWriteIs
  <2>2. u = [w EXCEPT !.fds = Shut(w.fds, {w.cur[1].w})]
    BY <1>3, <2>1, ShutCurWriteIs
  <2>3. /\ u.outs = w.outs /\ u.ins = w.ins /\ u.pi = w.pi /\ u.ok = w.ok /\ u.cur = w.cur
        /\ u.fds = Shut(w.fds, {w.cur[1].w})
    BY <2>2 DEF Works
  <2> QED
    BY <1>3, <2>1, <2>3 DEF CurWrite
<1> QED
  BY <1>2, <1>3

LEMMA EndsTyped ==
    ASSUME TypeOK, NEW n \in 1..MaxN, ~NoPipeFor(n)
    PROVE  NumberedEnds(n) \in PipeEnds
<1>1. CASE Shares(n)
  <2>1. PICK waiting \in Seq(NumberEntry) : waiting = Waiting(number_pipe)
    BY StartTyped
  <2>2. Chosen(Sharing(n), NumberEntry, waiting, n)
    BY <2>1, WithCountAre DEF Sharing
  <2>3. Sharing(n) \in Seq(NumberEntry) /\ Sharing(n) # <<>>
    BY <1>1, <2>2 DEF Chosen, Shares
  <2>4. Sharing(n)[1] \in NumberEntry
    BY <2>3
  <2> QED
    BY <1>1, <2>4 DEF NumberedEnds, NumberEntry, PipeEnds
<1>2. CASE ~Shares(n)
  <2>1. Cardinality(Free(fds)) >= 2
    BY <1>2, FreeCount DEF NoPipeFor
  <2> QED
    BY <1>2, <2>1, EndsAre DEF NumberedEnds
<1> QED
  BY <1>1, <1>2

LEMMA NumberedTyped ==
    ASSUME TypeOK, NEW k \in 1..MaxStage, NEW n \in 1..MaxN, ~NoPipeFor(n), line \in 0..MaxLine - 1
    PROVE  /\ NumberedWork(k, n) \in Works /\ NumberedPipes(n) \in Seq(NumberEntry)
           /\ NumberedWork(k, n).ok => Len(NumberedWork(k, n).outs) = k
<1>1. NumberedEnds(n) \in PipeEnds
  BY EndsTyped
<1>2. NumberedTable(n) \in Table
  <2>1. CASE Shares(n)
    BY <2>1, StartTyped DEF NumberedTable
  <2>2. CASE ~Shares(n)
    <3>1. Cardinality(Free(fds)) >= 2
      BY <2>2, FreeCount DEF NoPipeFor
    <3>2. NumberedEnds(n).r # NumberedEnds(n).w
      BY <2>2, <3>1, EndsAre DEF NumberedEnds
    <3>3. <<line + 1, 0>> \in Pipe
      BY NpShellAssumption DEF Pipe
    <3> QED
      BY <1>1, <2>2, <3>2, <3>3, StartTyped, PipedIs DEF NumberedTable
  <2> QED
    BY <2>1, <2>2
<1>3. PICK start \in Works : start = AtStart(NumberedTable(n)) /\ start.outs = <<>>
  BY <1>2, StartTyped
<1>4. ASSUME k = 1
      PROVE  /\ NumberedWork(k, n) \in Works
             /\ NumberedWork(k, n).ok => Len(NumberedWork(k, n).outs) = k
  <2>1. NumberedWork(k, n) = OneCommand(start, {NumberedEnds(n).r}, NumberedEnds(n).w)
    BY <1>3, <1>4 DEF NumberedWork, OneTo, OneCommand
  <2>2. PICK X : X = {NumberedEnds(n).r}
    OBVIOUS
  <2>3. PICK sink : sink = NumberedEnds(n).w
    OBVIOUS
  <2>4. OneCommand(start, X, sink) \in Works /\ Len(OneCommand(start, X, sink).outs) = 1
    BY <1>3, OneTyped
  <2> QED
    BY <1>4, <2>1, <2>2, <2>3, <2>4
<1>5. ASSUME k # 1
      PROVE  /\ NumberedWork(k, n) \in Works
             /\ NumberedWork(k, n).ok => Len(NumberedWork(k, n).outs) = k
  <2>1. NumberedWork(k, n) =
          Stages(ShutCurWrite(start), k, NumberedEnds(n).w, {i \in 1..k : LetGo(i, k)})
    BY <1>3, <1>5 DEF NumberedWork, ManyTo
  <2>2. ShutCurWrite(start) \in Works /\ ShutCurWrite(start).outs = <<>>
    BY <1>3, ShutCurWriteStarts
  <2>3. PICK X : X = {i \in 1..k : LetGo(i, k)}
    OBVIOUS
  <2>4. PICK sink : sink = NumberedEnds(n).w
    OBVIOUS
  <2>5. PICK u \in Works : u = ShutCurWrite(start) /\ u.outs = <<>>
    BY <2>2
  <2>6. Stages(u, k, sink, X) \in Works /\ (Stages(u, k, sink, X).ok => Len(Stages(u, k, sink, X).outs) = k)
    BY <2>5, StagesTyped
  <2>7. NumberedWork(k, n) = Stages(u, k, sink, X)
    BY <2>1, <2>3, <2>4, <2>5
  <2> QED
    BY <2>6, <2>7
<1>6. NumberedPipes(n) \in Seq(NumberEntry)
  <2>1. Waiting(number_pipe) \in Seq(NumberEntry)
    BY StartTyped
  <2>2. NumberedEntry(n) \in NumberEntry
    BY <1>1 DEF NumberedEntry, NumberEntry, PipeEnds
  <2>3. <<>> \in Seq(NumberEntry) /\ <<NumberedEntry(n)>> \in Seq(NumberEntry)
    BY <2>2
  <2>4. \A s, x \in Seq(NumberEntry) : s \o x \in Seq(NumberEntry)
    OBVIOUS
  <2> QED
    BY <2>1, <2>3, <2>4 DEF NumberedPipes
<1> QED
  BY <1>4, <1>5, <1>6

LEMMA SingleIs ==
    ASSUME AtStart(fds) \in Works, Single
    PROVE  /\ Ran(OneCommand(AtStart(fds), {}, Own), Waiting(number_pipe))
           /\ aim' = aim /\ wrote' = wrote /\ missed' = missed
<1>1. PICK w \in Works : w = ShutCurWrite(AtStart(fds))
  BY ShutCurWriteStarts
<1>2. Shut(w.fds, {}) = w.fds /\ w.fds \in Table
  BY ShutNothing DEF Works
<1>3. Found(w.fds, Own) = Terminal
  BY <1>2, FoundIs, OwnIsNone
<1>4. OneCommand(AtStart(fds), {}, Own) = Release(Forked(w, Found(w.fds, CurRead(w)), Terminal))
  BY <1>1, <1>2, <1>3 DEF OneCommand
<1> QED
  BY <1>1, <1>4 DEF Single

LEMMA RanOnly ==
    ASSUME TypeOK, NEW w \in Works, NEW pipes \in Seq(NumberEntry), Ran(w, pipes),
           aim' \in [1..MaxLine -> 0..MaxLine + MaxN],
           wrote' \in [1..MaxLine -> Pipe \cup {Closed}], missed' \in BOOLEAN
    PROVE  TypeOK'
<1>1. RanTyped
  BY RanIsTyped
<1> QED
  BY <1>1 DEF RanTyped, TypeOK, Table, NumberEntry, DueEntry, Stream

LEMMA NextTyped == TypeOK /\ [Next]_vars => TypeOK'
<1> SUFFICES ASSUME TypeOK, [Next]_vars PROVE TypeOK'
  OBVIOUS
<1>1. /\ fds \in Table /\ Waiting(number_pipe) \in Seq(NumberEntry)
      /\ AtStart(fds) \in Works /\ AtStart(fds).outs = <<>>
  BY StartTyped
<1>2. /\ aim \in [1..MaxLine -> 0..MaxLine + MaxN] /\ wrote \in [1..MaxLine -> Pipe \cup {Closed}]
      /\ missed \in BOOLEAN
  BY DEF TypeOK
<1>3. ASSUME NEW w, NEW pipes, Ran(w, pipes) PROVE line \in 0..MaxLine - 1
  BY <1>3, NpShellAssumption DEF Ran, TypeOK
<1>4. CASE BuiltIn
  <2>1. Ran(AtStart(fds), Waiting(number_pipe)) /\ aim' = aim /\ wrote' = wrote /\ missed' \in BOOLEAN
    BY <1>2, <1>4 DEF BuiltIn
  <2> QED
    BY <1>1, <1>2, <2>1, RanOnly
<1>5. CASE Exit
  BY <1>5 DEF Exit, TypeOK
<1>6. CASE Single
  <2>1. PICK w \in Works : w = OneCommand(AtStart(fds), {}, Own)
    BY <1>1, OneTyped
  <2>2. Ran(w, Waiting(number_pipe)) /\ aim' = aim /\ wrote' = wrote /\ missed' = missed
    BY <1>1, <1>6, <2>1, SingleIs
  <2> QED
    BY <1>1, <1>2, <2>1, <2>2, RanOnly
<1>7. ASSUME NEW k \in 2..MaxStage, Pipeline(k)
      PROVE  TypeOK'
  <2>1. line \in 0..MaxLine - 1 /\ k \in 1..MaxStage
    BY <1>3, <1>7, NpShellAssumption DEF Pipeline
  <2>2. PICK X : X = 1..k
    OBVIOUS
  <2>3. PICK w \in Works : w = Stages(AtStart(fds), k, Own, X)
    BY <1>1, <2>1, StagesTyped
  <2>4. Ran(w, Waiting(number_pipe)) /\ aim' = aim /\ wrote' = wrote /\ missed' = missed
    BY <1>7, <2>2, <2>3 DEF Pipeline
  <2> QED
    BY <1>1, <1>2, <2>3, <2>4, RanOnly
<1>8. ASSUME NEW k \in 1..MaxStage, NEW n \in 1..MaxN, Numbered(k, n)
      PROVE  TypeOK'
  <2>1. CASE /\ Ran([AtStart(fds) EXCEPT !.ok = FALSE], Waiting(number_pipe))
             /\ UNCHANGED <<aim, wrote, missed>>
    <3>1. PICK w \in Works : w = [AtStart(fds) EXCEPT !.ok = FALSE]
      BY <1>1 DEF Works
    <3> QED
      BY <1>1, <1>2, <2>1, <3>1, RanOnly
  <2>2. CASE ~NoPipeFor(n) /\ NumberedRan(k, n)
    <3>1. line \in 0..MaxLine - 1
      BY <1>3, <2>2 DEF NumberedRan
    <3>2. PICK w \in Works : w = NumberedWork(k, n)
      BY <2>2, <3>1, NumberedTyped
    <3>3. w.ok => Len(w.outs) = k
      BY <2>2, <3>1, <3>2, NumberedTyped
    <3>4. PICK pipes \in Seq(NumberEntry) : pipes = NumberedPipes(n)
      BY <2>2, <3>1, NumberedTyped
    <3>5. /\ Ran(w, pipes) /\ missed' = missed
          /\ aim' = [aim EXCEPT ![line + 1] = line + 1 + n]
          /\ wrote' = [wrote EXCEPT ![line + 1] =
                          IF w.ok /\ w.outs[k] # Terminal THEN w.outs[k][1] ELSE Closed]
      BY <2>2, <3>2, <3>4 DEF NumberedRan
    <3>6. line + 1 \in 1..MaxLine /\ line + 1 + n \in 0..MaxLine + MaxN
      BY <3>1, NpShellAssumption
    <3>7. ASSUME w.ok, w.outs[k] # Terminal PROVE w.outs[k][1] \in Pipe
      <4>1. w.outs \in Seq(Stream) /\ k \in 1..Len(w.outs)
        BY <3>3, <3>7, NpShellAssumption DEF Works
      <4>2. w.outs[k] \in End
        BY <3>7, <4>1 DEF Stream
      <4> QED
        BY <4>2 DEF End
    <3>8. aim' \in [1..MaxLine -> 0..MaxLine + MaxN]
      BY <1>2, <3>5, <3>6
    <3>9. wrote' \in [1..MaxLine -> Pipe \cup {Closed}]
      BY <1>2, <3>5, <3>6, <3>7
    <3> QED
      BY <1>2, <3>2, <3>4, <3>5, <3>8, <3>9, RanOnly
  <2> QED
    BY <1>8, <2>1, <2>2, NumberedIs
<1>9. CASE UNCHANGED vars
  BY <1>9 DEF vars, TypeOK
<1> QED
  BY <1>4, <1>5, <1>6, <1>7, <1>8, <1>9 DEF Next

LEMMA InitTyped == Init => TypeOK
<1> SUFFICES ASSUME Init PROVE TypeOK
  OBVIOUS
<1>1. line \in 0..MaxLine
  BY NpShellAssumption DEF Init
<1>2. aim \in [1..MaxLine -> 0..MaxLine + MaxN] /\ wrote \in [1..MaxLine -> Pipe \cup {Closed}]
  BY NpShellAssumption DEF Init
<1>3. fds \in [Fd -> End \cup {Closed}]
  BY DEF Init
<1>4. number_pipe = <<>> /\ cur = <<>> /\ ins = <<>> /\ outs = <<>>
  BY DEF Init
<1>5. \A S : <<>> \in Seq(S)
  OBVIOUS
<1>6. ended \in {"no", "exit", "noPipe"} /\ missed \in BOOLEAN
  BY DEF Init
<1> QED
  BY <1>1, <1>2, <1>3, <1>4, <1>5, <1>6 DEF TypeOK

(* Whatever lines are entered, and when descriptors run out or pipes that   *)
(* are due stay behind, the shell's table holds ends of the pipes it has    *)
(* opened, its vector entries of two descriptors and a count from 1 to MaxN,*)
(* and every child ends of such pipes or the terminal (NpShell: shell()).   *)
THEOREM AlwaysTyped == Spec => []TypeOK
  BY InitTyped, NextTyped, PTL DEF Spec
-----------------------------------------------------------------------------
(* The inductive invariant.                                                 *)
WaitingInv == cur = <<>> /\ WaitsWell(fds, number_pipe, line, aim, wrote)
Sane == ended # "noPipe" /\ ~missed => WaitingInv

(* The shell's table when a line |N starts its commands: p is the pipe they *)
(* write to, due the one they read.                                         *)
ReadyFor(table, ends, p, due) ==
    /\ table \in Table /\ ends \in PipeEnds /\ ends.r # ends.w
    /\ table[ends.r] = <<p, "r">> /\ table[ends.w] = <<p, "w">> /\ p \in Pipe
    /\ ends.r \notin DueEnds(due) /\ ends.w \notin DueEnds(due)
    /\ DueIn(table, due, ends.w) /\ Survives(table, fds, {})

LEMMA WaitTypes ==
    ASSUME TypeOK
    PROVE  /\ number_pipe \in Seq(NumberEntry) /\ fds \in Table /\ line \in 0..MaxLine
           /\ aim \in [1..MaxLine -> Nat] /\ wrote \in [1..MaxLine -> Pipe \cup {Closed}]
           /\ Due(number_pipe) \in Seq(DueEntry)
           /\ Waiting(number_pipe) \in Seq(NumberEntry)
<1>1. number_pipe \in Seq(NumberEntry) /\ fds \in Table
  BY StartTyped
<1>2. aim \in [1..MaxLine -> Nat]
  BY NpShellAssumption DEF TypeOK
<1> QED
  BY <1>1, <1>2, DueAre, WaitingAre DEF TypeOK

LEMMA DueInTable ==
    ASSUME TypeOK, WaitingInv
    PROVE  /\ DueIn(fds, Due(number_pipe), Own)
           /\ Due(number_pipe) = <<>> \/ (Len(Due(number_pipe)) = 1 /\ Due(number_pipe) # <<>>)
           /\ \A d \in DueEnds(Due(number_pipe)) : d \in Fd /\ fds[d] # Closed
<1>1. PICK due \in Seq(DueEntry) : due = Due(number_pipe)
  BY WaitTypes
<1>2. fds \in Table /\ number_pipe \in Seq(NumberEntry)
  BY WaitTypes
<1>3. KeptWhole(fds, number_pipe, line) /\ Apart(fds, number_pipe) /\ OneEach(number_pipe)
  BY DEF WaitingInv, WaitsWell
<1>4. due = <<>> \/ (Len(due) = 1 /\ due # <<>>)
  <2>1. Len(due) \in {0, 1}
    BY <1>1, <1>2, <1>3, DueAre
  <2> QED
    BY <2>1
<1>5. ASSUME due # <<>>
      PROVE  /\ due[1] \in DueEntry /\ fds[due[1].r] # Closed /\ fds[due[1].w] # Closed
             /\ due[1].r # due[1].w
  <2>1. PICK i : IsDue(due, number_pipe, i)
    BY <1>1, <1>2, <1>5, DueAre
  <2>2. /\ fds[number_pipe[i].r] # Closed /\ fds[number_pipe[i].w] # Closed
        /\ number_pipe[i].r # number_pipe[i].w
    BY <1>3, <2>1, EndsApart DEF IsDue
  <2>3. due[1] \in DueEntry
    BY <1>4, <1>5
  <2> QED
    BY <2>1, <2>2, <2>3 DEF IsDue
<1>6. DueIn(fds, due, Own)
  BY <1>2, <1>4, <1>5 DEF DueIn
<1>7. \A d \in DueEnds(due) : d \in Fd /\ fds[d] # Closed
  BY <1>5 DEF DueEnds, DueEntry
<1> QED
  BY <1>1, <1>4, <1>6, <1>7

(* The pipe this line shares: that of an entry that waits on.               *)
SharedReady(n, j) ==
    /\ j \in 1..Len(Waiting(number_pipe)) /\ Waiting(number_pipe)[j].number = n
    /\ NumberedEnds(n).r = Waiting(number_pipe)[j].r /\ NumberedEnds(n).w = Waiting(number_pipe)[j].w
    /\ ReadyFor(fds, NumberedEnds(n), Behind(fds, Waiting(number_pipe)[j]), Due(number_pipe))

LEMMA SharedIsReady ==
    ASSUME TypeOK, WaitingInv, line \in 0..MaxLine - 1, NEW n \in 1..MaxN, Shares(n)
    PROVE  \E j : SharedReady(n, j)
<1>1. PICK waiting \in Seq(NumberEntry) : waiting = Waiting(number_pipe)
  BY WaitTypes
<1>2. PICK due : due = Due(number_pipe)
  OBVIOUS
<1>3. PICK j \in 1..Len(waiting) : Sharing(n)[1] = waiting[j] /\ waiting[j].number = n
  <2>1. Chosen(Sharing(n), NumberEntry, waiting, n)
    BY <1>1, WithCountAre DEF Sharing
  <2>2. Sharing(n) \in Seq(NumberEntry) /\ Sharing(n) # <<>>
    BY <2>1 DEF Chosen, Shares
  <2>3. 1 \in 1..Len(Sharing(n))
    BY <2>2
  <2> QED
    BY <2>1, <2>3 DEF Chosen
<1>4. waiting[j] \in NumberEntry
  OBVIOUS
<1>5. PICK ends \in PipeEnds : ends = NumberedEnds(n) /\ ends.r = waiting[j].r /\ ends.w = waiting[j].w
  <2>1. NumberedEnds(n) = [r |-> waiting[j].r, w |-> waiting[j].w]
    BY <1>3 DEF NumberedEnds
  <2> QED
    BY <1>4, <2>1 DEF NumberEntry, PipeEnds
<1>6. /\ number_pipe \in Seq(NumberEntry) /\ fds \in Table /\ aim \in [1..MaxLine -> Nat]
      /\ WaitsWell(fds, number_pipe, line, aim, wrote)
  BY WaitTypes DEF WaitingInv
<1>7. Survives(fds, fds, DueEnds(Due(number_pipe))) /\ Survives(fds, fds, {})
  BY DEF Survives
<1>8. /\ waiting[j].r \notin DueEnds(due) /\ waiting[j].w \notin DueEnds(due)
      /\ fds[waiting[j].r] # Closed /\ fds[waiting[j].w] # Closed
      /\ waiting[j].r # waiting[j].w
      /\ \E i \in 1..Len(number_pipe) : /\ number_pipe[i].number # 1
                                        /\ waiting[j].r = number_pipe[i].r
                                        /\ waiting[j].w = number_pipe[i].w
  BY <1>1, <1>2, <1>6, <1>7, WaitOn
<1>9. PICK i \in 1..Len(number_pipe) : waiting[j].r = number_pipe[i].r /\ waiting[j].w = number_pipe[i].w
  BY <1>8
<1>10. PICK m \in 1..line : fds[number_pipe[i].r] = <<<<m, 0>>, "r">> /\ fds[number_pipe[i].w] = <<<<m, 0>>, "w">>
  BY <1>6 DEF WaitsWell, KeptWhole
<1>11. PICK p : p = <<m, 0>>
  OBVIOUS
<1>12. p \in Pipe /\ fds[ends.r] = <<p, "r">> /\ fds[ends.w] = <<p, "w">> /\ Behind(fds, waiting[j]) = p
  <2>1. p \in Pipe
    BY <1>11, NpShellAssumption DEF Pipe
  <2> QED
    BY <1>5, <1>9, <1>10, <1>11, <2>1 DEF Behind
<1>13. DueIn(fds, due, ends.w)
  <2>1. DueIn(fds, due, Own)
    BY <1>2, DueInTable
  <2>2. ends.w \in Fd /\ fds[ends.w] # Closed /\ ends.w \notin DueEnds(due)
    BY <1>5, <1>8 DEF PipeEnds
  <2> QED
    BY <2>1, <2>2 DEF DueIn
<1>14. ReadyFor(fds, ends, p, due)
  BY <1>5, <1>6, <1>7, <1>8, <1>12, <1>13 DEF ReadyFor
<1> QED
  BY <1>1, <1>2, <1>3, <1>5, <1>12, <1>14 DEF SharedReady

(* A pipe of its own.                                                       *)
LEMMA FreshIsReady ==
    ASSUME TypeOK, WaitingInv, line \in 0..MaxLine - 1, NEW n \in 1..MaxN,
           ~Shares(n), ~NoPipeFor(n)
    PROVE  /\ ReadyFor(NumberedTable(n), NumberedEnds(n), <<line + 1, 0>>, Due(number_pipe))
           /\ NumberedEnds(n).r \in Free(fds) /\ NumberedEnds(n).w \in Free(fds)
           /\ \A j \in 1..Len(Waiting(number_pipe)) : Waiting(number_pipe)[j].number # n
           /\ \A d \in Fd \ {NumberedEnds(n).r, NumberedEnds(n).w} : NumberedTable(n)[d] = fds[d]
<1>1. PICK waiting \in Seq(NumberEntry) : waiting = Waiting(number_pipe)
  BY WaitTypes
<1>2. PICK due : due = Due(number_pipe)
  OBVIOUS
<1>3. PICK ends \in PipeEnds : /\ ends = NumberedEnds(n) /\ ends = Ends(fds)
                               /\ ends.r \in Free(fds) /\ ends.w \in Free(fds) /\ ends.r # ends.w
  <2>1. Cardinality(Free(fds)) >= 2
    BY FreeCount DEF NoPipeFor
  <2> QED
    BY <2>1, EndsAre DEF NumberedEnds
<1>4. PICK p \in Pipe : p = <<line + 1, 0>>
  <2>1. <<line + 1, 0>> \in Pipe
    BY NpShellAssumption DEF Pipe
  <2> QED
    BY <2>1
<1>5. PICK table : table = NumberedTable(n)
  OBVIOUS
<1>6. /\ table \in Table /\ table[ends.r] = <<p, "r">> /\ table[ends.w] = <<p, "w">>
      /\ \A d \in Fd \ {ends.r, ends.w} : table[d] = fds[d]
  <2>1. fds \in Table /\ table = Piped(fds, ends, p)
    BY <1>3, <1>4, <1>5, WaitTypes DEF NumberedTable
  <2> QED
    BY <1>3, <2>1, PipedIs
<1>7. fds[ends.r] = Closed /\ fds[ends.w] = Closed /\ ends.r \in Fd /\ ends.w \in Fd
  BY <1>3 DEF Free
<1>8. Survives(table, fds, {})
  BY <1>6, <1>7 DEF Survives
<1>9. /\ DueIn(fds, due, Own) /\ \A d \in DueEnds(due) : d \in Fd /\ fds[d] # Closed
  BY <1>2, DueInTable
<1>10. ends.r \notin DueEnds(due) /\ ends.w \notin DueEnds(due)
  BY <1>7, <1>9
<1>11. DueIn(table, due, ends.w)
  <2>1. table[ends.w] # Closed
    BY <1>6 DEF Closed
  <2>2. ASSUME due # <<>>
        PROVE  /\ due[1] \in DueEntry /\ due[1].r # due[1].w
               /\ table[due[1].r] # Closed /\ table[due[1].w] # Closed
    <3>1. /\ due[1] \in DueEntry /\ due[1].r # due[1].w
          /\ fds[due[1].r] # Closed /\ fds[due[1].w] # Closed
      BY <1>9, <2>2 DEF DueIn
    <3>2. due[1].r \in Fd /\ due[1].w \in Fd
      BY <3>1 DEF DueEntry
    <3> QED
      BY <1>8, <3>1, <3>2 DEF Survives
  <2> QED
    BY <1>6, <1>7, <1>9, <1>10, <2>1, <2>2 DEF DueIn
<1>12. ReadyFor(table, ends, p, due)
  BY <1>3, <1>6, <1>8, <1>10, <1>11 DEF ReadyFor
<1>13. \A j \in 1..Len(waiting) : waiting[j].number # n
  <2>1. Chosen(Sharing(n), NumberEntry, waiting, n)
    BY <1>1, WithCountAre DEF Sharing
  <2>2. Sharing(n) = <<>>
    BY DEF Shares
  <2>3. Cardinality({j \in 1..Len(waiting) : waiting[j].number = n}) = 0
    BY <2>1, <2>2 DEF Chosen
  <2>4. PICK S : S = {j \in 1..Len(waiting) : waiting[j].number = n}
    OBVIOUS
  <2>5. S = {}
    BY <2>1, <2>3, <2>4, FS_EmptySet DEF Chosen
  <2> QED
    BY <2>4, <2>5
<1> QED
  BY <1>1, <1>2, <1>3, <1>4, <1>5, <1>6, <1>12, <1>13

(* A line's commands, when the pipes that wait are well.                    *)
LEMMA StartWell ==
    ASSUME TypeOK, WaitingInv, NEW T \in Table
    PROVE  /\ AtStart(T) = Work(T, Due(number_pipe)) /\ AtStart(T) \in Works
           /\ AtStart(T).cur = Due(number_pipe) /\ AtStart(T).fds = T /\ AtStart(T).ok
           /\ AtStart(T).pi = <<>> /\ AtStart(T).ins = <<>> /\ AtStart(T).outs = <<>>
<1>1. AtStart(T) \in Works /\ AtStart(T) = Work(T, cur \o Due(number_pipe))
  BY StartTyped
<1>2. cur = <<>> /\ Due(number_pipe) \in Seq(DueEntry)
  BY WaitTypes DEF WaitingInv
<1>3. cur \o Due(number_pipe) = Due(number_pipe)
  BY <1>2
<1> QED
  BY <1>1, <1>3 DEF Work

LEMMA SingleFinishes ==
    ASSUME TypeOK, WaitingInv
    PROVE  Finished(OneCommand(AtStart(fds), {}, Own), fds, Due(number_pipe), 1, Own)
<1>1. PICK due \in Seq(DueEntry) : due = Due(number_pipe)
  BY WaitTypes
<1>2. DueIn(fds, due, Own) /\ fds \in Table
  BY <1>1, DueInTable, WaitTypes
<1>3. AtStart(fds) = Work(fds, due)
  BY <1>1, <1>2, StartWell
<1>4. PICK X \in SUBSET Fd : X = {}
  OBVIOUS
<1>5. Finished(OneCommand(Work(fds, due), X, Own), fds, due, 1, Own)
  <2>1. X \cap DueEnds(due) = {} /\ Own \notin X
    BY <1>4
  <2> QED
    BY <1>2, <2>1, OneFinishes
<1> QED
  BY <1>1, <1>3, <1>4, <1>5

LEMMA PipelineFinishes ==
    ASSUME TypeOK, WaitingInv, line \in 0..MaxLine - 1, NEW k \in 2..MaxStage
    PROVE  Finished(Stages(AtStart(fds), k, Own, 1..k), fds, Due(number_pipe), k, Own)
<1>1. PICK due \in Seq(DueEntry) : due = Due(number_pipe)
  BY WaitTypes
<1>2. DueIn(fds, due, Own) /\ fds \in Table
  BY <1>1, DueInTable, WaitTypes
<1>3. PICK w \in Works : /\ w = AtStart(fds) /\ w.cur = due /\ w.fds = fds /\ w.ok
                         /\ w.pi = <<>> /\ w.ins = <<>> /\ w.outs = <<>>
  BY <1>1, <1>2, StartWell
<1>4. PICK X : X = 1..k
  OBVIOUS
<1>5. \A i \in 1..k : LetsGo(i, k, Own, i \in X)
  BY <1>4 DEF LetsGo
<1>6. w.fds = Shut(fds, IF due = <<>> \/ Own = Own THEN {} ELSE {due[1].w})
  BY <1>2, <1>3, ShutNothing
<1>7. Finished(Stages(w, k, Own, X), fds, due, k, Own)
  BY <1>2, <1>3, <1>5, <1>6, StagesFinish
<1> QED
  BY <1>1, <1>3, <1>4, <1>7

LEMMA NumberedFinishes ==
    ASSUME TypeOK, WaitingInv, line \in 0..MaxLine - 1, NEW k \in 1..MaxStage, NEW n, NEW p,
           ReadyFor(NumberedTable(n), NumberedEnds(n), p, Due(number_pipe))
    PROVE  Finished(NumberedWork(k, n), NumberedTable(n), Due(number_pipe), k, NumberedEnds(n).w)
<1>1. PICK due \in Seq(DueEntry) : due = Due(number_pipe)
  BY WaitTypes
<1>2. PICK T \in Table : T = NumberedTable(n)
  BY DEF ReadyFor
<1>3. PICK ends \in PipeEnds : ends = NumberedEnds(n)
  BY DEF ReadyFor
<1>4. PICK sink : sink = ends.w
  OBVIOUS
<1>5. /\ DueIn(T, due, sink) /\ ends.r \notin DueEnds(due) /\ ends.r # ends.w /\ ends.r \in Fd
      /\ sink \in Fd /\ sink # Own
  BY <1>1, <1>2, <1>3, <1>4, OwnIsNone DEF ReadyFor, PipeEnds
<1>6. PICK w \in Works : /\ w = AtStart(T) /\ w = Work(T, due) /\ w.cur = due /\ w.fds = T /\ w.ok
                         /\ w.pi = <<>> /\ w.ins = <<>> /\ w.outs = <<>>
  BY <1>1, StartWell
<1>7. CASE k = 1
  <2>1. PICK X \in SUBSET Fd : X = {ends.r}
    BY <1>5
  <2>2. X \cap DueEnds(due) = {} /\ sink \notin X
    BY <1>4, <1>5, <2>1
  <2>3. Finished(OneCommand(Work(T, due), X, sink), T, due, 1, sink)
    BY <1>5, <2>2, OneFinishes
  <2>4. NumberedWork(k, n) = OneCommand(w, X, sink)
    BY <1>2, <1>3, <1>4, <1>6, <1>7, <2>1 DEF NumberedWork, OneTo, OneCommand
  <2> QED
    BY <1>1, <1>2, <1>3, <1>4, <1>6, <1>7, <2>3, <2>4
<1>8. CASE k # 1
  <2>1. k \in 2..MaxStage
    BY <1>8, NpShellAssumption
  <2>2. PICK X : X = {i \in 1..k : LetGo(i, k)}
    OBVIOUS
  <2>3. PICK u \in Works : /\ u = ShutCurWrite(w) /\ u.cur = due /\ u.ok
                           /\ u.pi = <<>> /\ u.ins = <<>> /\ u.outs = <<>>
                           /\ u.fds = Shut(T, CurWrite(w))
    BY <1>6, ShutCurWriteStarts
  <2>4. u.fds = Shut(T, IF due = <<>> \/ sink = Own THEN {} ELSE {due[1].w})
    BY <1>5, <1>6, <2>3 DEF CurWrite
  <2>5. \A i \in 1..k : LetsGo(i, k, sink, i \in X)
    BY <1>5, <2>2 DEF LetsGo, LetGo
  <2>6. Finished(Stages(u, k, sink, X), T, due, k, sink)
    BY <1>5, <2>1, <2>3, <2>4, <2>5, StagesFinish
  <2>7. NumberedWork(k, n) = Stages(u, k, sink, X)
    BY <1>2, <1>3, <1>4, <1>6, <1>8, <2>2, <2>3 DEF NumberedWork, ManyTo
  <2> QED
    BY <1>1, <1>2, <1>3, <1>4, <2>6, <2>7
<1> QED
  BY <1>7, <1>8
-----------------------------------------------------------------------------
(* A step from a state in which the pipes that wait are well: a line whose  *)
(* last command writes to the terminal, a line |N, a built-in line, a line  *)
(* that finds no descriptors, or no line.                                   *)
PlainLine(w, k) ==
    /\ Ran(w, Waiting(number_pipe)) /\ UNCHANGED <<aim, wrote, missed>>
    /\ k \in Nat /\ k >= 1 /\ (k = 1 \/ k \in 1..MaxStage)
    /\ Finished(w, fds, Due(number_pipe), k, Own)
NumberedLine(w, k, n, p) ==
    /\ n \in 1..MaxN /\ ~NoPipeFor(n) /\ k \in 1..MaxStage
    /\ Ran(w, NumberedPipes(n)) /\ UNCHANGED missed
    /\ aim' = [aim EXCEPT ![line + 1] = line + 1 + n]
    /\ wrote' = [wrote EXCEPT ![line + 1] = IF w.ok /\ w.outs[k] # Terminal THEN w.outs[k][1] ELSE Closed]
    /\ ReadyFor(NumberedTable(n), NumberedEnds(n), p, Due(number_pipe))
    /\ IF Shares(n) THEN \E j : SharedReady(n, j) /\ p = Behind(fds, Waiting(number_pipe)[j])
       ELSE p = <<line + 1, 0>>
    /\ Finished(w, NumberedTable(n), Due(number_pipe), k, NumberedEnds(n).w)
BuiltInLine ==
    /\ ended = "no" /\ line < MaxLine
    /\ line' = line + 1 /\ fds' = fds /\ number_pipe' = Waiting(number_pipe) /\ ended' = "no"
    /\ ins' = <<>> /\ outs' = <<>> /\ UNCHANGED <<aim, wrote>>
    /\ cur' = Due(number_pipe) /\ (~missed' => Due(number_pipe) = <<>>)
FailedLine == ended' = "noPipe" /\ ins' = <<>>
NoLine ==
    /\ UNCHANGED <<fds, number_pipe, cur, ins, outs, line, aim, wrote, missed>>
    /\ ended' = ended \/ ended' = "exit"

LEMMA StepWell ==
    ASSUME TypeOK, WaitingInv, ended # "noPipe", ~missed, [Next]_vars
    PROVE  \/ \E w, k : PlainLine(w, k)
           \/ \E w, k, n, p : NumberedLine(w, k, n, p)
           \/ BuiltInLine \/ FailedLine \/ NoLine
<1>1. fds \in Table /\ line \in 0..MaxLine /\ MaxLine \in Nat
  BY WaitTypes, NpShellAssumption
<1>2. ASSUME NEW w, NEW pipes, Ran(w, pipes) PROVE line \in 0..MaxLine - 1
  BY <1>1, <1>2 DEF Ran
<1>3. PICK w \in Works : /\ w = AtStart(fds) /\ w.cur = Due(number_pipe) /\ w.fds = fds /\ w.ok
                         /\ w.ins = <<>> /\ w.outs = <<>>
  BY <1>1, StartWell
<1>4. CASE BuiltIn
  <2>1. BuiltInLine
    BY <1>3, <1>4 DEF BuiltIn, BuiltInLine, Ran
  <2> QED
    BY <2>1
<1>5. CASE Exit
  BY <1>5 DEF Exit, NoLine
<1>6. CASE Single
  <2>1. PICK u : u = OneCommand(AtStart(fds), {}, Own)
    OBVIOUS
  <2>2. Ran(u, Waiting(number_pipe)) /\ aim' = aim /\ wrote' = wrote /\ missed' = missed
    BY <1>3, <1>6, <2>1, SingleIs
  <2>3. Finished(u, fds, Due(number_pipe), 1, Own)
    BY <2>1, SingleFinishes
  <2>4. PlainLine(u, 1)
    BY <2>2, <2>3 DEF PlainLine
  <2> QED
    BY <2>4
<1>7. ASSUME NEW k \in 2..MaxStage, Pipeline(k)
      PROVE  \E u, m : PlainLine(u, m)
  <2>1. PICK u : u = Stages(AtStart(fds), k, Own, 1..k)
    OBVIOUS
  <2>2. Ran(u, Waiting(number_pipe)) /\ UNCHANGED <<aim, wrote, missed>>
    BY <1>7, <2>1 DEF Pipeline
  <2>3. Finished(u, fds, Due(number_pipe), k, Own)
    BY <1>2, <2>1, <2>2, PipelineFinishes
  <2>4. k \in Nat /\ k >= 1 /\ k \in 1..MaxStage
    BY NpShellAssumption
  <2>5. PlainLine(u, k)
    BY <2>2, <2>3, <2>4 DEF PlainLine
  <2> QED
    BY <2>5
<1>8. ASSUME NEW k \in 1..MaxStage, NEW n \in 1..MaxN, Numbered(k, n)
      PROVE  FailedLine \/ \E u, m, q, p : NumberedLine(u, m, q, p)
  <2>1. CASE Ran([AtStart(fds) EXCEPT !.ok = FALSE], Waiting(number_pipe))
    <3>1. PICK u : u = [w EXCEPT !.ok = FALSE]
      OBVIOUS
    <3>2. ~u.ok /\ u.ins = <<>>
      BY <1>3, <3>1 DEF Works
    <3>3. Ran(u, Waiting(number_pipe))
      BY <1>3, <2>1, <3>1
    <3> QED
      BY <3>2, <3>3 DEF Ran, FailedLine
  <2>2. CASE ~NoPipeFor(n) /\ NumberedRan(k, n)
    <3>1. line \in 0..MaxLine - 1
      BY <1>2, <2>2 DEF NumberedRan
    <3>2. PICK p : /\ ReadyFor(NumberedTable(n), NumberedEnds(n), p, Due(number_pipe))
                   /\ IF Shares(n) THEN \E j : SharedReady(n, j) /\ p = Behind(fds, Waiting(number_pipe)[j])
                      ELSE p = <<line + 1, 0>>
      <4>1. CASE Shares(n)
        <5>1. PICK j : SharedReady(n, j)
          BY <3>1, <4>1, SharedIsReady
        <5>2. NumberedTable(n) = fds
          BY <4>1 DEF NumberedTable
        <5>3. ReadyFor(NumberedTable(n), NumberedEnds(n), Behind(fds, Waiting(number_pipe)[j]), Due(number_pipe))
          BY <5>1, <5>2 DEF SharedReady
        <5> QED
          BY <4>1, <5>1, <5>3
      <4>2. CASE ~Shares(n)
        <5>1. ReadyFor(NumberedTable(n), NumberedEnds(n), <<line + 1, 0>>, Due(number_pipe))
          BY <2>2, <3>1, <4>2, FreshIsReady
        <5> QED
          BY <4>2, <5>1
      <4> QED
        BY <4>1, <4>2
    <3>3. PICK u : u = NumberedWork(k, n)
      OBVIOUS
    <3>4. Finished(u, NumberedTable(n), Due(number_pipe), k, NumberedEnds(n).w)
      BY <3>1, <3>2, <3>3, NumberedFinishes
    <3>5. NumberedLine(u, k, n, p)
      BY <2>2, <3>2, <3>3, <3>4 DEF NumberedLine, NumberedRan
    <3> QED
      BY <3>5
  <2> QED
    BY <1>8, <2>1, <2>2, NumberedIs
<1>9. CASE UNCHANGED vars
  BY <1>9 DEF vars, NoLine
<1> QED
  BY <1>4, <1>5, <1>6, <1>7, <1>8, <1>9 DEF Next
-----------------------------------------------------------------------------
(* A line that ran keeps the ends of every pipe that is not due.            *)
LEMMA PlainSurvives ==
    ASSUME TypeOK, NEW w, NEW T, NEW k, NEW sink, T \in Table, Survives(T, fds, {}),
           Finished(w, T, Due(number_pipe), k, sink), w.ok
    PROVE  Survives(w.fds, fds, DueEnds(Due(number_pipe)))
<1>1. PICK gone : gone = DueEnds(Due(number_pipe))
  OBVIOUS
<1>2. LeavesTable(w.fds, Shut(T, gone), k)
  BY <1>1 DEF Finished
<1>3. Survives(w.fds, T, gone)
  BY <1>2, LineSurvives
<1> QED
  BY <1>1, <1>3 DEF Survives

LEMMA PlainWell ==
    ASSUME TypeOK, WaitingInv, NEW w, NEW k, PlainLine(w, k), ended' # "noPipe"
    PROVE  WaitingInv'
<1>1. /\ w.ok /\ w.cur = <<>> /\ line \in 0..MaxLine - 1 /\ line' = line + 1
      /\ fds' = w.fds /\ cur' = w.cur /\ number_pipe' = Waiting(number_pipe)
      /\ aim' = aim /\ wrote' = wrote
  BY NpShellAssumption, WaitTypes DEF PlainLine, Ran, Finished
<1>2. Survives(fds, fds, {})
  BY DEF Survives
<1>3. Survives(w.fds, fds, DueEnds(Due(number_pipe)))
  BY <1>1, <1>2, PlainSurvives, WaitTypes DEF PlainLine
<1>4. WaitsWell(w.fds, Waiting(number_pipe), line + 1, aim, wrote)
  BY <1>1, <1>3, WaitOn, WaitTypes DEF WaitingInv
<1> QED
  BY <1>1, <1>4 DEF WaitingInv

LEMMA BuiltInWell ==
    ASSUME TypeOK, WaitingInv, BuiltInLine, ~missed'
    PROVE  WaitingInv'
<1>1. /\ line \in 0..MaxLine - 1 /\ line' = line + 1
      /\ fds' = fds /\ cur' = <<>> /\ number_pipe' = Waiting(number_pipe)
      /\ aim' = aim /\ wrote' = wrote
  BY NpShellAssumption, WaitTypes DEF BuiltInLine
<1>2. Survives(fds, fds, DueEnds(Due(number_pipe)))
  BY DEF Survives
<1>3. WaitsWell(fds, Waiting(number_pipe), line + 1, aim, wrote)
  BY <1>1, <1>2, WaitOn, WaitTypes DEF WaitingInv
<1> QED
  BY <1>1, <1>3 DEF WaitingInv

(* What a line |N that ran has written to, and what it has done to aim.     *)
LEMMA NumberedWrites ==
    ASSUME TypeOK, WaitingInv, NEW w, NEW k, NEW n, NEW p, NumberedLine(w, k, n, p),
           ended' # "noPipe"
    PROVE  /\ w.ok /\ w.cur = <<>> /\ line \in 0..MaxLine - 1 /\ line' = line + 1
           /\ fds' = w.fds /\ cur' = <<>> /\ number_pipe' = NumberedPipes(n) /\ ins' = w.ins
           /\ wrote' = [wrote EXCEPT ![line + 1] = p] /\ line + 1 \in 1..MaxLine
           /\ aim' = [aim EXCEPT ![line + 1] = line + 1 + n]
           /\ Survives(w.fds, fds, DueEnds(Due(number_pipe)))
<1>1. /\ w.ok /\ line \in 0..MaxLine - 1 /\ line' = line + 1 /\ line + 1 \in 1..MaxLine
      /\ fds' = w.fds /\ cur' = w.cur /\ number_pipe' = NumberedPipes(n) /\ ins' = w.ins
  BY NpShellAssumption, WaitTypes DEF NumberedLine, Ran
<1>2. PICK T \in Table : T = NumberedTable(n) /\ Survives(T, fds, {})
  BY DEF NumberedLine, ReadyFor
<1>3. PICK sink \in Fd : sink = NumberedEnds(n).w /\ T[sink] = <<p, "w">>
  BY <1>2 DEF NumberedLine, ReadyFor, PipeEnds
<1>4. Finished(w, T, Due(number_pipe), k, sink)
  BY <1>2, <1>3 DEF NumberedLine
<1>5. w.cur = <<>> /\ w.outs[k] = <<p, "w">>
  BY <1>1, <1>3, <1>4, OwnIsNone DEF Finished
<1>6. w.outs[k] # Terminal /\ w.outs[k][1] = p
  BY <1>5, EndNotTerminal
<1>7. Survives(w.fds, fds, DueEnds(Due(number_pipe)))
  BY <1>1, <1>2, <1>4, PlainSurvives
<1> QED
  BY <1>1, <1>5, <1>6, <1>7 DEF NumberedLine

LEMMA SharedWell ==
    ASSUME TypeOK, WaitingInv, NEW w, NEW k, NEW n, NEW p, NumberedLine(w, k, n, p),
           ended' # "noPipe", Shares(n)
    PROVE  WaitingInv'
<1>1. /\ line \in 0..MaxLine - 1 /\ line' = line + 1 /\ line + 1 \in 1..MaxLine
      /\ fds' = w.fds /\ cur' = <<>> /\ number_pipe' = NumberedPipes(n)
      /\ wrote' = [wrote EXCEPT ![line + 1] = p]
      /\ aim' = [aim EXCEPT ![line + 1] = line + 1 + n]
      /\ Survives(w.fds, fds, DueEnds(Due(number_pipe)))
  BY NumberedWrites
<1>2. PICK waiting \in Seq(NumberEntry) : waiting = Waiting(number_pipe)
  BY WaitTypes
<1>3. PICK j \in 1..Len(waiting) : /\ waiting[j].number = n /\ p = Behind(fds, waiting[j])
  BY <1>2 DEF NumberedLine, SharedReady
<1>4. number_pipe' = waiting
  <2>1. \A s \in Seq(NumberEntry) : s \o <<>> = s
    OBVIOUS
  <2> QED
    BY <1>1, <1>2, <2>1 DEF NumberedPipes
<1>5. PICK G : G = w.fds
  OBVIOUS
<1>6. /\ WaitsWell(G, waiting, line + 1, aim, wrote)
      /\ waiting[j].r \notin DueEnds(Due(number_pipe)) /\ fds[waiting[j].r] # Closed
  <2>1. /\ WaitsWell(G, waiting, line + 1, aim, wrote)
        /\ \A i \in 1..Len(waiting) :
              waiting[i].r \notin DueEnds(Due(number_pipe)) /\ fds[waiting[i].r] # Closed
    BY <1>1, <1>2, <1>5, WaitOn, WaitTypes DEF WaitingInv
  <2> QED
    BY <2>1
<1>7. Behind(G, waiting[j]) = p
  <2>1. waiting[j] \in NumberEntry
    OBVIOUS
  <2>2. waiting[j].r \in Fd
    BY <2>1 DEF NumberEntry
  <2> QED
    BY <1>1, <1>3, <1>5, <1>6, <2>2 DEF Survives, Behind
<1>8. p \in Pipe
  BY DEF NumberedLine, ReadyFor
<1>9. PICK l \in 1..MaxLine : l = line + 1
  BY <1>1
<1>10. WaitsWell(G, waiting, l, [aim EXCEPT ![l] = l + waiting[j].number],
                 [wrote EXCEPT ![l] = Behind(G, waiting[j])])
  BY <1>6, <1>7, <1>8, <1>9, SharedOn, WaitTypes
<1> QED
  BY <1>1, <1>3, <1>4, <1>5, <1>7, <1>9, <1>10 DEF WaitingInv

LEMMA FreshWell ==
    ASSUME TypeOK, WaitingInv, NEW w, NEW k, NEW n, NEW p, NumberedLine(w, k, n, p),
           ended' # "noPipe", ~Shares(n)
    PROVE  WaitingInv'
<1>1. /\ w.ok /\ line \in 0..MaxLine - 1 /\ line' = line + 1 /\ line + 1 \in 1..MaxLine
      /\ fds' = w.fds /\ cur' = <<>> /\ number_pipe' = NumberedPipes(n)
      /\ wrote' = [wrote EXCEPT ![line + 1] = p]
      /\ aim' = [aim EXCEPT ![line + 1] = line + 1 + n]
      /\ Survives(w.fds, fds, DueEnds(Due(number_pipe)))
  BY NumberedWrites
<1>2. PICK waiting \in Seq(NumberEntry) : waiting = Waiting(number_pipe)
  BY WaitTypes
<1>3. PICK l \in 1..MaxLine : l = line + 1
  BY <1>1
<1>4. p = <<l, 0>> /\ p \in Pipe
  BY <1>3 DEF NumberedLine, ReadyFor
<1>5. PICK entry \in NumberEntry : entry = NumberedEntry(n) /\ entry.number = n
  <2>1. PICK ends \in PipeEnds : ends = NumberedEnds(n)
    BY DEF NumberedLine, ReadyFor
  <2>2. n \in 1..MaxN /\ ends.r \in Fd /\ ends.w \in Fd
    BY <2>1 DEF NumberedLine, PipeEnds
  <2>3. PICK e : e = [r |-> ends.r, w |-> ends.w, number |-> n]
    OBVIOUS
  <2>4. e \in NumberEntry /\ e.number = n
    BY <2>2, <2>3 DEF NumberEntry
  <2>5. e = NumberedEntry(n)
    BY <2>1, <2>3 DEF NumberedEntry
  <2> QED
    BY <2>4, <2>5
<1>6. number_pipe' = Append(waiting, entry)
  <2>1. \A s \in Seq(NumberEntry), x \in NumberEntry : s \o <<x>> = Append(s, x)
    OBVIOUS
  <2> QED
    BY <1>1, <1>2, <1>5, <2>1 DEF NumberedPipes
<1>7. PICK G : G = w.fds
  OBVIOUS
<1>8. /\ WaitsWell(G, waiting, l, aim, wrote)
      /\ \A j \in 1..Len(waiting) :
            /\ waiting[j].r \notin DueEnds(Due(number_pipe)) /\ fds[waiting[j].r] # Closed
            /\ \E i \in 1..Len(number_pipe) : waiting[j].r = number_pipe[i].r
  BY <1>1, <1>2, <1>3, <1>7, WaitOn, WaitTypes DEF WaitingInv
<1>9. \A j \in 1..Len(waiting) : waiting[j].number # n
  BY <1>1, <1>2, FreshIsReady DEF NumberedLine
<1>10. ASSUME NEW j \in 1..Len(waiting) PROVE Behind(G, waiting[j]) # <<l, 0>>
  <2>1. waiting[j] \in NumberEntry
    OBVIOUS
  <2>2. G[waiting[j].r] = fds[waiting[j].r]
    BY <1>1, <1>7, <1>8, <2>1 DEF Survives, NumberEntry
  <2>3. PICK i \in 1..Len(number_pipe) : waiting[j].r = number_pipe[i].r
    BY <1>8
  <2>4. PICK m \in 1..line : fds[number_pipe[i].r] = <<<<m, 0>>, "r">>
    BY DEF WaitingInv, WaitsWell, KeptWhole
  <2>5. m # l
    BY <1>1, <1>3
  <2> QED
    BY <2>2, <2>3, <2>4, <2>5 DEF Behind
<1>11. \A m \in 1..MaxLine : wrote[m] # <<l, 0>>
  <2> SUFFICES ASSUME NEW m \in 1..MaxLine PROVE wrote[m] # <<l, 0>>
    OBVIOUS
  <2>1. wrote[m] = Closed \/ \E x \in 1..line : wrote[m] = <<x, 0>>
    BY DEF WaitingInv, WaitsWell, Written
  <2>2. CASE wrote[m] = Closed
    BY <2>2 DEF Closed
  <2>3. CASE \E x \in 1..line : wrote[m] = <<x, 0>>
    <3>1. PICK x \in 1..line : wrote[m] = <<x, 0>>
      BY <2>3
    <3>2. x # l
      BY <1>1, <1>3
    <3> QED
      BY <3>1, <3>2
  <2> QED
    BY <2>1, <2>2, <2>3
<1>12. G[entry.r] = <<<<l, 0>>, "r">> /\ G[entry.w] = <<<<l, 0>>, "w">>
  <2>1. PICK T \in Table : /\ T = NumberedTable(n) /\ T[entry.r] = <<p, "r">> /\ T[entry.w] = <<p, "w">>
                           /\ entry.r \notin DueEnds(Due(number_pipe))
                           /\ entry.w \notin DueEnds(Due(number_pipe))
    BY <1>5 DEF NumberedLine, ReadyFor, NumberedEntry
  <2>2. LeavesTable(G, Shut(T, DueEnds(Due(number_pipe))), k)
    BY <1>1, <1>7, <2>1 DEF NumberedLine, Finished
  <2>3. Survives(G, T, DueEnds(Due(number_pipe)))
    BY <2>2, LineSurvives
  <2>4. T[entry.r] # Closed /\ T[entry.w] # Closed /\ entry.r \in Fd /\ entry.w \in Fd
    BY <2>1 DEF Closed, NumberEntry
  <2> QED
    BY <1>4, <2>1, <2>3, <2>4 DEF Survives
<1>13. WaitsWell(G, Append(waiting, entry), l, [aim EXCEPT ![l] = l + entry.number],
                 [wrote EXCEPT ![l] = <<l, 0>>])
  <2>1. aim \in [1..MaxLine -> Nat] /\ wrote \in [1..MaxLine -> Pipe \cup {Closed}]
    BY WaitTypes
  <2>2. \A i \in 1..Len(waiting) : waiting[i].number # entry.number /\ Behind(G, waiting[i]) # <<l, 0>>
    BY <1>5, <1>9, <1>10
  <2> QED
    BY <1>4, <1>8, <1>11, <1>12, <2>1, <2>2, FreshOn
<1> QED
  BY <1>1, <1>3, <1>4, <1>5, <1>6, <1>7, <1>13 DEF WaitingInv

(* No line runs after a pipe() that failed; missed is never reset.          *)
LEMMA EndedStays ==
    ASSUME [Next]_vars, ended' # "noPipe", ~missed', missed \in BOOLEAN
    PROVE  ended # "noPipe" /\ ~missed
<1>1. ASSUME NEW w, NEW pipes, Ran(w, pipes) PROVE ended = "no"
  BY <1>1 DEF Ran
<1>2. CASE BuiltIn
  BY <1>1, <1>2 DEF BuiltIn
<1>3. CASE Exit
  BY <1>3 DEF Exit
<1>4. CASE Single
  BY <1>1, <1>4 DEF Single
<1>5. ASSUME NEW k \in 2..MaxStage, Pipeline(k) PROVE ended # "noPipe" /\ ~missed
  BY <1>1, <1>5 DEF Pipeline
<1>6. ASSUME NEW k \in 1..MaxStage, NEW n \in 1..MaxN, Numbered(k, n)
      PROVE  ended # "noPipe" /\ ~missed
  <2>1. (\E w, pipes : Ran(w, pipes)) /\ missed' = missed
    BY <1>6, NumberedIs DEF NumberedRan
  <2> QED
    BY <1>1, <2>1
<1>7. CASE UNCHANGED vars
  BY <1>7 DEF vars
<1> QED
  BY <1>2, <1>3, <1>4, <1>5, <1>6, <1>7 DEF Next

LEMMA MissedStays ==
    ASSUME [Next]_vars, ~missed', missed \in BOOLEAN
    PROVE  ~missed /\ (ended # "noPipe" \/ UNCHANGED vars)
<1>1. ASSUME NEW w, NEW pipes, Ran(w, pipes) PROVE ended = "no"
  BY <1>1 DEF Ran
<1>2. CASE BuiltIn
  BY <1>1, <1>2 DEF BuiltIn
<1>3. CASE Exit
  BY <1>3 DEF Exit
<1>4. CASE Single
  BY <1>1, <1>4 DEF Single
<1>5. ASSUME NEW k \in 2..MaxStage, Pipeline(k) PROVE ended # "noPipe" /\ ~missed
  BY <1>1, <1>5 DEF Pipeline
<1>6. ASSUME NEW k \in 1..MaxStage, NEW n \in 1..MaxN, Numbered(k, n)
      PROVE  ended # "noPipe" /\ ~missed
  <2>1. (\E w, pipes : Ran(w, pipes)) /\ missed' = missed
    BY <1>6, NumberedIs DEF NumberedRan
  <2> QED
    BY <1>1, <2>1
<1>7. CASE UNCHANGED vars
  BY <1>7 DEF vars
<1> QED
  BY <1>2, <1>3, <1>4, <1>5, <1>6, <1>7 DEF Next

LEMMA NextSane == TypeOK /\ Sane /\ [Next]_vars => Sane'
<1> SUFFICES ASSUME TypeOK, Sane, [Next]_vars, ended' # "noPipe", ~missed' PROVE WaitingInv'
  BY DEF Sane
<1>1. ended # "noPipe" /\ ~missed
  <2>1. missed \in BOOLEAN
    BY DEF TypeOK
  <2> QED
    BY <2>1, EndedStays
<1>2. WaitingInv
  BY <1>1 DEF Sane
<1>3. ASSUME NEW w, NEW k, PlainLine(w, k) PROVE WaitingInv'
  BY <1>2, <1>3, PlainWell
<1>4. ASSUME NEW w, NEW k, NEW n, NEW p, NumberedLine(w, k, n, p) PROVE WaitingInv'
  BY <1>2, <1>4, SharedWell, FreshWell
<1>5. CASE BuiltInLine
  BY <1>2, <1>5, BuiltInWell
<1>6. CASE FailedLine
  BY <1>6 DEF FailedLine
<1>7. CASE NoLine
  BY <1>2, <1>7 DEF NoLine, WaitingInv
<1> QED
  BY <1>1, <1>2, <1>3, <1>4, <1>5, <1>6, <1>7, StepWell

LEMMA SaneAlways == Spec => [](TypeOK /\ Sane)
<1>1. Init => TypeOK /\ Sane
  <2> SUFFICES ASSUME Init PROVE TypeOK /\ Sane
    OBVIOUS
  <2>1. TypeOK
    BY InitTyped
  <2>2. number_pipe = <<>> /\ cur = <<>> /\ line = 0
    BY DEF Init
  <2>3. Len(<<>>) = 0
    OBVIOUS
  <2>4. \A m \in 1..MaxLine : aim[m] = 0 /\ wrote[m] = Closed /\ m > 0
    BY DEF Init
  <2>5. KeptWhole(fds, number_pipe, line) /\ Apart(fds, number_pipe) /\ OneEach(number_pipe)
    BY <2>2, <2>3 DEF KeptWhole, Apart, OneEach
  <2>6. Aiming(fds, number_pipe, line, aim, wrote)
    BY <2>2, <2>3 DEF Aiming
  <2>7. Ahead(number_pipe, line, aim) /\ Written(line, wrote)
    BY <2>2, <2>4 DEF Ahead, Written
  <2> QED
    BY <2>1, <2>2, <2>5, <2>6, <2>7 DEF Sane, WaitingInv, WaitsWell
<1> QED
  BY <1>1, NextTyped, NextSane, PTL DEF Spec

LEMMA SanePending == TypeOK /\ Sane => PendingIntact
<1> SUFFICES ASSUME TypeOK, WaitingInv
             PROVE  /\ cur = <<>>
                    /\ \A i \in DOMAIN number_pipe :
                          \E l \in 1..MaxLine : BothEnds(<<l, 0>>, number_pipe[i])
                    /\ \A i, j \in DOMAIN number_pipe : number_pipe[i].r = number_pipe[j].r => i = j
  BY DEF Sane, PendingIntact
<1>1. DOMAIN number_pipe = 1..Len(number_pipe) /\ line \in 0..MaxLine /\ MaxLine \in Nat
  BY WaitTypes, NpShellAssumption
<1>2. KeptWhole(fds, number_pipe, line) /\ Apart(fds, number_pipe) /\ cur = <<>>
  BY DEF WaitingInv, WaitsWell
<1>3. ASSUME NEW i \in 1..Len(number_pipe)
      PROVE  \E l \in 1..MaxLine : BothEnds(<<l, 0>>, number_pipe[i])
  <2>1. PICK m \in 1..line : /\ fds[number_pipe[i].r] = <<<<m, 0>>, "r">>
                             /\ fds[number_pipe[i].w] = <<<<m, 0>>, "w">>
    BY <1>2 DEF KeptWhole
  <2>2. m \in 1..MaxLine
    BY <1>1
  <2> QED
    BY <2>1, <2>2 DEF BothEnds
<1>4. ASSUME NEW i \in 1..Len(number_pipe), NEW j \in 1..Len(number_pipe),
             number_pipe[i].r = number_pipe[j].r
      PROVE  i = j
  BY <1>2, <1>4, EndsApart
<1> QED
  BY <1>1, <1>2, <1>3, <1>4

(* Whatever lines come, in any order and number, and whatever they open and *)
(* close in between: both ends of each numbered pipe that waits are in the  *)
(* shell's file table under the descriptors noted for it (NpShell: the      *)
(* closes of shell() and the vector<Number_Pipe>).                          *)
THEOREM PendingAlwaysIntact == Spec => []PendingIntact
  BY SaneAlways, SanePending, PTL
-----------------------------------------------------------------------------
(* The first command of a line hears exactly the lines that mean it.        *)
LEMMA PlainHears ==
    ASSUME TypeOK, WaitingInv, NEW w, NEW k, PlainLine(w, k), ended' # "noPipe"
    PROVE  OnTime'
<1>1. /\ w.ok /\ line \in 0..MaxLine - 1 /\ line' = line + 1 /\ ins' = w.ins
      /\ aim' = aim /\ wrote' = wrote
  BY NpShellAssumption, WaitTypes DEF PlainLine, Ran
<1>2. /\ w.ins \in Seq(Stream) /\ Len(w.ins) = k /\ k \in Nat /\ k >= 1
      /\ w.ins[1] = IF Due(number_pipe) = <<>> THEN Terminal ELSE fds[Due(number_pipe)[1].r]
  BY <1>1 DEF PlainLine, Finished, Works
<1>3. w.ins # <<>> /\ Head(w.ins) = w.ins[1]
  BY <1>2
<1>4. PICK x : x = w.ins[1]
  OBVIOUS
<1>5. Survives(fds, fds, {})
  BY DEF Survives
<1>6. FirstRead(fds, number_pipe, x)
  BY <1>2, <1>4 DEF FirstRead
<1>7. Kept(aim, wrote, aim, wrote, line, x)
  BY DEF Kept
<1>8. WaitsWell(fds, number_pipe, line, aim, wrote)
  BY DEF WaitingInv
<1>9. number_pipe \in Seq(NumberEntry) /\ aim \in [1..MaxLine -> Nat]
  BY WaitTypes
<1>10. HearsAimed(x, wrote, aim, line)
  BY <1>1, <1>5, <1>6, <1>7, <1>8, <1>9, HeardIs
<1> QED
  BY <1>1, <1>3, <1>4, <1>10 DEF HearsAimed, OnTime, Input, Aimed, Heard

LEMMA NumberedHears ==
    ASSUME TypeOK, WaitingInv, NEW w, NEW k, NEW n, NEW p, NumberedLine(w, k, n, p),
           ended' # "noPipe"
    PROVE  OnTime'
<1>1. /\ w.ok /\ line \in 0..MaxLine - 1 /\ line' = line + 1 /\ line + 1 \in 1..MaxLine
      /\ ins' = w.ins
      /\ wrote' = [wrote EXCEPT ![line + 1] = p]
      /\ aim' = [aim EXCEPT ![line + 1] = line + 1 + n]
  BY NumberedWrites
<1>2. PICK due : due = Due(number_pipe)
  OBVIOUS
<1>3. PICK T \in Table : T = NumberedTable(n) /\ Survives(T, fds, {})
  BY DEF NumberedLine, ReadyFor
<1>4. /\ w.ins \in Seq(Stream) /\ Len(w.ins) = k /\ k \in Nat /\ k >= 1
      /\ w.ins[1] = IF due = <<>> THEN Terminal ELSE T[due[1].r]
  BY <1>1, <1>2, <1>3, NpShellAssumption DEF NumberedLine, Finished, Works
<1>5. w.ins # <<>> /\ Head(w.ins) = w.ins[1]
  BY <1>4
<1>6. PICK x : x = w.ins[1]
  OBVIOUS
<1>7. x # <<p, "r">>
  <2>1. CASE due = <<>>
    BY <1>4, <1>6, <2>1, EndNotTerminal
  <2>2. CASE due # <<>>
    <3>1. number_pipe \in Seq(NumberEntry)
      BY WaitTypes
    <3>2. PICK i : IsDue(due, number_pipe, i)
      BY <1>2, <2>2, <3>1, DueAre
    <3>3. PICK m \in 1..line : fds[number_pipe[i].r] = <<<<m, 0>>, "r">>
      BY <3>2 DEF WaitingInv, WaitsWell, KeptWhole, IsDue
    <3>4. number_pipe[i] \in NumberEntry
      BY <3>1, <3>2 DEF IsDue
    <3>5. T[number_pipe[i].r] = <<<<m, 0>>, "r">>
      <4>1. number_pipe[i].r \in Fd /\ fds[number_pipe[i].r] # Closed
        BY <3>3, <3>4 DEF NumberEntry, Closed
      <4> QED
        BY <1>3, <3>3, <4>1 DEF Survives
    <3>6. x = <<<<m, 0>>, "r">>
      BY <1>4, <1>6, <2>2, <3>2, <3>5 DEF IsDue
    <3>7. p # <<m, 0>>
      <4>1. CASE Shares(n)
        <5>1. PICK j : SharedReady(n, j) /\ p = Behind(fds, Waiting(number_pipe)[j])
          BY <4>1 DEF NumberedLine
        <5>2. Survives(fds, fds, DueEnds(Due(number_pipe)))
          BY DEF Survives
        <5>3. \A c \in 1..Len(Waiting(number_pipe)) :
                 \E b \in 1..Len(number_pipe) : /\ number_pipe[b].number # 1
                                                /\ Waiting(number_pipe)[c].r = number_pipe[b].r
          BY <1>1, <5>2, WaitOn, WaitTypes DEF WaitingInv
        <5>4. PICK b \in 1..Len(number_pipe) : /\ number_pipe[b].number # 1
                                               /\ Waiting(number_pipe)[j].r = number_pipe[b].r
          BY <5>1, <5>3 DEF SharedReady
        <5>5. b # i /\ p = Behind(fds, number_pipe[b]) /\ Behind(fds, number_pipe[i]) = <<m, 0>>
          BY <3>2, <3>3, <5>1, <5>4 DEF IsDue, Behind
        <5> QED
          BY <3>2, <5>5 DEF WaitingInv, WaitsWell, Apart, IsDue
      <4>2. CASE ~Shares(n)
        <5>1. p = <<line + 1, 0>> /\ m # line + 1
          BY <1>1, <4>2 DEF NumberedLine
        <5> QED
          BY <5>1
      <4> QED
        BY <4>1, <4>2
    <3> QED
      BY <3>6, <3>7
  <2> QED
    BY <2>1, <2>2
<1>8. PICK a1 : a1 = aim'
  OBVIOUS
<1>9. PICK w1 : w1 = wrote'
  OBVIOUS
<1>10. /\ aim \in [1..MaxLine -> Nat] /\ wrote \in [1..MaxLine -> Pipe \cup {Closed}]
       /\ number_pipe \in Seq(NumberEntry) /\ n \in Nat /\ n > 0 /\ line \in Nat
  BY WaitTypes, NpShellAssumption DEF NumberedLine
<1>11. \A m \in 1..MaxLine : \/ a1[m] = aim[m] /\ w1[m] = wrote[m]
                             \/ a1[m] # line + 1 /\ x # <<w1[m], "r">>
  <2> SUFFICES ASSUME NEW m \in 1..MaxLine
               PROVE  \/ a1[m] = aim[m] /\ w1[m] = wrote[m]
                      \/ a1[m] # line + 1 /\ x # <<w1[m], "r">>
    OBVIOUS
  <2>1. CASE m = line + 1
    <3>1. a1[m] = line + 1 + n /\ w1[m] = p
      BY <1>1, <1>8, <1>9, <1>10, <2>1
    <3> QED
      BY <1>7, <1>10, <3>1
  <2>2. CASE m # line + 1
    BY <1>1, <1>8, <1>9, <1>10, <2>2
  <2> QED
    BY <2>1, <2>2
<1>12. HearsAimed(x, w1, a1, line)
  <2>1. FirstRead(T, number_pipe, x)
    BY <1>2, <1>4, <1>6 DEF FirstRead
  <2>2. WaitsWell(fds, number_pipe, line, aim, wrote)
    BY DEF WaitingInv
  <2>3. Kept(a1, w1, aim, wrote, line, x)
    BY <1>11 DEF Kept
  <2> QED
    BY <1>1, <1>3, <1>10, <2>1, <2>2, <2>3, HeardIs
<1> QED
  BY <1>1, <1>5, <1>6, <1>8, <1>9, <1>12 DEF HearsAimed, OnTime, Input, Aimed, Heard

LEMMA NextOnTime == TypeOK /\ Sane /\ OnTime /\ [Next]_vars => OnTime'
<1> SUFFICES ASSUME TypeOK, Sane, OnTime, [Next]_vars, ended' # "noPipe", ~missed' PROVE OnTime'
  BY DEF OnTime
<1>1. ended # "noPipe" /\ ~missed
  <2>1. missed \in BOOLEAN
    BY DEF TypeOK
  <2> QED
    BY <2>1, EndedStays
<1>2. WaitingInv
  BY <1>1 DEF Sane
<1>3. ASSUME NEW w, NEW k, PlainLine(w, k) PROVE OnTime'
  BY <1>2, <1>3, PlainHears
<1>4. ASSUME NEW w, NEW k, NEW n, NEW p, NumberedLine(w, k, n, p) PROVE OnTime'
  BY <1>2, <1>4, NumberedHears
<1>5. CASE BuiltInLine
  BY <1>5 DEF BuiltInLine, OnTime
<1>6. CASE FailedLine
  BY <1>6 DEF FailedLine
<1>7. CASE NoLine
  BY <1>1, <1>7 DEF NoLine, OnTime, Input, Aimed
<1> QED
  BY <1>1, <1>2, <1>3, <1>4, <1>5, <1>6, <1>7, StepWell

(* However the lines |N are spread, shared and interleaved, and as long as  *)
(* no built-in line has come when a pipe was due: the first command of each *)
(* line reads the output of exactly the lines whose N counts down to it     *)
(* (NpShell: Number_Pipe::is_pop and the search for an equal count).        *)
THEOREM AlwaysOnTime == Spec => []OnTime
<1>1. Init => OnTime
  BY DEF Init, OnTime
<1> QED
  BY <1>1, SaneAlways, NextOnTime, PTL DEF Spec

(* The commands of the last line are joined.                                *)
LEMMA ChainedJoins ==
    ASSUME NEW w, NEW k, NEW sink, Chained(w, k, k, sink), w \in Works, k \in 1..MaxStage \/ k = 1,
           ~ReleaseEarly, line \in 0..MaxLine - 1, ins' = w.ins, outs' = w.outs
    PROVE  Joined'
<1> SUFFICES ASSUME NEW i \in 2..Len(w.ins)
             PROVE  \E pipe \in Pipe : w.outs[i - 1] = <<pipe, "w">> /\ w.ins[i] = <<pipe, "r">>
  BY DEF Joined
<1>1. w.outs[i - 1] = <<PipeNo(i - 1), "w">> /\ w.ins[i] = <<PipeNo(i - 1), "r">>
  BY DEF Chained, Still
<1>2. i \in 2..k /\ k \in 1..MaxStage /\ MaxStage \in Nat /\ MaxLine \in Nat
  <2>1. Len(w.ins) <= k /\ Len(w.ins) \in Nat /\ MaxStage \in Nat /\ MaxLine \in Nat
    BY NpShellAssumption DEF Chained, Works
  <2> QED
    BY <2>1
<1>3. PipeNo(i - 1) \in Pipe
  BY <1>2 DEF PipeNo, Pipe
<1> QED
  BY <1>1, <1>3

LEMMA NextJoined == ~ReleaseEarly /\ TypeOK /\ Sane /\ Joined /\ [Next]_vars => Joined'
<1> SUFFICES ASSUME ~ReleaseEarly, TypeOK, Sane, Joined, [Next]_vars, ~missed' PROVE Joined'
  BY DEF Joined
<1>1. ~missed /\ (ended # "noPipe" \/ UNCHANGED vars)
  <2>1. missed \in BOOLEAN
    BY DEF TypeOK
  <2> QED
    BY <2>1, MissedStays
<1>2. CASE UNCHANGED vars
  BY <1>1, <1>2 DEF vars, Joined
<1>3. CASE ended # "noPipe"
  <2>1. WaitingInv
    BY <1>1, <1>3 DEF Sane
  <2>2. ASSUME NEW w, NEW k, PlainLine(w, k) PROVE Joined'
    <3>1. /\ Chained(w, k, k, Own) /\ w \in Works /\ (k \in 1..MaxStage \/ k = 1)
          /\ line \in 0..MaxLine - 1 /\ ins' = w.ins /\ outs' = w.outs
      BY <2>2, NpShellAssumption, WaitTypes DEF PlainLine, Finished, Ran
    <3> QED
      BY <3>1, ChainedJoins
  <2>3. ASSUME NEW w, NEW k, NEW n, NEW p, NumberedLine(w, k, n, p) PROVE Joined'
    <3>1. PICK sink : sink = NumberedEnds(n).w
      OBVIOUS
    <3>2. /\ Chained(w, k, k, sink) /\ w \in Works /\ k \in 1..MaxStage
          /\ line \in 0..MaxLine - 1 /\ ins' = w.ins /\ outs' = w.outs
      BY <2>3, <3>1, NpShellAssumption, WaitTypes DEF NumberedLine, Finished, Ran
    <3> QED
      BY <3>2, ChainedJoins
  <2>4. ins' = <<>> => Joined'
    BY DEF Joined
  <2>5. CASE BuiltInLine
    BY <2>4, <2>5 DEF BuiltInLine
  <2>6. CASE FailedLine
    BY <2>4, <2>6 DEF FailedLine
  <2>7. CASE NoLine
    BY <1>1, <2>7 DEF NoLine, Joined
  <2> QED
    BY <1>1, <1>3, <2>1, <2>2, <2>3, <2>5, <2>6, <2>7, StepWell
<1> QED
  BY <1>1, <1>2, <1>3

(* In the shell of hw2/1, which closes a numbered pipe it reads only after  *)
(* the last stage: each command of a line of any length reads the pipe that *)
(* the command before it writes, also when descriptors run out half way     *)
(* (NpShell: shell(), Number_Pipe::release).                                *)
THEOREM AlwaysJoined == ASSUME ~ReleaseEarly PROVE Spec => []Joined
<1>1. Init => Joined
  BY DEF Init, Joined
<1>2. TypeOK /\ Sane /\ Joined /\ [Next]_vars => Joined'
  BY NextJoined
<1> QED
  BY <1>1, <1>2, SaneAlways, PTL DEF Spec
-----------------------------------------------------------------------------
(* How many descriptors a line leaves open.                                 *)
Count(F) == Cardinality(Open(F))
Gives(more, k) == more \in IF k > 1 THEN {0, 1} ELSE {0}

LEMMA OpenCount == \A F : IsFiniteSet(Open(F)) /\ Count(F) \in Nat
<1> SUFFICES ASSUME NEW F PROVE IsFiniteSet(Open(F)) /\ Count(F) \in Nat
  OBVIOUS
<1>1. IsFiniteSet(Fd) /\ Open(F) \subseteq Fd
  BY NpShellAssumption, FS_Interval DEF Fd, Open
<1>2. IsFiniteSet(Open(F))
  BY <1>1, FS_Subset
<1> QED
  BY <1>2, FS_CardinalityType DEF Count

LEMMA OpenIs == \A F : \A d : d \in Open(F) <=> d \in Fd /\ F[d] # Closed
  BY DEF Open, Free

LEMMA TwoFewer ==
    ASSUME NEW S, IsFiniteSet(S), NEW a \in S, NEW b \in S, a # b
    PROVE  Cardinality(S \ {a, b}) = Cardinality(S) - 2
<1>1. PICK R : R = S \ {a}
  OBVIOUS
<1>2. IsFiniteSet(R) /\ Cardinality(R) = Cardinality(S) - 1
  BY <1>1, FS_RemoveElement
<1>3. Cardinality(R \ {b}) = Cardinality(R) - 1
  BY <1>1, <1>2, FS_RemoveElement
<1>4. R \ {b} = S \ {a, b}
  BY <1>1
<1>5. Cardinality(S) \in Nat
  BY FS_CardinalityType
<1> QED
  BY <1>2, <1>3, <1>4, <1>5

(* The two ends of the pipe that is due are gone, and one may be left.      *)
LEMMA LineGives ==
    ASSUME NEW T, NEW due, NEW sink, DueIn(T, due, sink), NEW F, NEW k \in Nat,
           LeavesTable(F, Shut(T, DueEnds(due)), k)
    PROVE  Gives(Count(F) - (Count(T) - 2 * Len(due)), k)
<1>1. PICK B : B = Shut(T, DueEnds(due))
  OBVIOUS
<1>2. T \in Table /\ B \in Table /\ \A d \in Fd : B[d] = IF d \in DueEnds(due) THEN Closed ELSE T[d]
  BY <1>1, ShutIs DEF DueIn
<1>3. /\ IsFiniteSet(Open(B)) /\ Count(B) \in Nat /\ IsFiniteSet(Open(F)) /\ Count(F) \in Nat
      /\ IsFiniteSet(Open(T)) /\ Count(T) \in Nat
  BY OpenCount
<1>4. Open(B) = Open(T) \ DueEnds(due)
  BY <1>2, OpenIs
<1>5. Count(B) = Count(T) - 2 * Len(due)
  <2>1. CASE due = <<>>
    <3>1. DueEnds(due) = {} /\ Len(due) = 0
      BY <2>1 DEF DueEnds
    <3>2. Open(B) = Open(T)
      BY <1>4, <3>1
    <3> QED
      BY <1>3, <3>1, <3>2 DEF Count
  <2>2. CASE due # <<>>
    <3>1. PICK r, w : r = due[1].r /\ w = due[1].w
      OBVIOUS
    <3>2. Len(due) = 1 /\ DueEnds(due) = {r, w} /\ r # w
      BY <2>2, <3>1 DEF DueIn, DueEnds
    <3>3. r \in Fd /\ w \in Fd /\ T[r] # Closed /\ T[w] # Closed
      BY <2>2, <3>1 DEF DueIn, DueEntry
    <3>4. r \in Open(T) /\ w \in Open(T)
      BY <3>3, OpenIs
    <3>5. Cardinality(Open(T) \ {r, w}) = Cardinality(Open(T)) - 2
      BY <1>3, <3>2, <3>4, TwoFewer
    <3>6. Count(B) = Count(T) - 2
      BY <1>4, <3>2, <3>5 DEF Count
    <3> QED
      BY <1>3, <3>2, <3>6
  <2> QED
    BY <2>1, <2>2
<1>6. CASE F = B
  BY <1>3, <1>5, <1>6 DEF Gives
<1>7. CASE k > 1 /\ \E x : Left(F, B, x, <<PipeNo(k), "r">>)
  <2>1. PICK x : Left(F, B, x, <<PipeNo(k), "r">>)
    BY <1>7
  <2>2. x \in Fd /\ x \notin Open(B) /\ \A d \in Fd \ {x} : d \in Open(F) <=> d \in Open(B)
    BY <2>1, OpenIs DEF Left
  <2>3. Open(F) \subseteq Fd /\ Open(B) \subseteq Fd
    BY OpenIs
  <2>4. Open(F) = Open(B) \/ Open(F) = Open(B) \cup {x}
    BY <2>2, <2>3
  <2>5. Cardinality(Open(B) \cup {x}) = Cardinality(Open(B)) + 1
    BY <1>3, <2>2, FS_AddElement
  <2>6. Count(F) = Count(B) \/ Count(F) = Count(B) + 1
    BY <2>4, <2>5 DEF Count
  <2>7. Count(F) - Count(B) \in {0, 1}
    BY <1>3, <2>6
  <2> QED
    BY <1>5, <1>7, <2>7 DEF Gives
<1> QED
  BY <1>1, <1>6, <1>7 DEF LeavesTable

(* A line |N that shares no pipe has opened two ends.                       *)
LEMMA FreshOpens ==
    ASSUME TypeOK, WaitingInv, line \in 0..MaxLine - 1, NEW n \in 1..MaxN,
           ~Shares(n), ~NoPipeFor(n)
    PROVE  Count(NumberedTable(n)) = Count(fds) + 2
<1>1. PICK T : T = NumberedTable(n)
  OBVIOUS
<1>2. PICK r, w : r = NumberedEnds(n).r /\ w = NumberedEnds(n).w
  OBVIOUS
<1>3. PICK p : ReadyFor(T, NumberedEnds(n), p, Due(number_pipe))
  BY <1>1, FreshIsReady
<1>4. /\ r \in Free(fds) /\ w \in Free(fds) /\ \A d \in Fd \ {r, w} : T[d] = fds[d]
  BY <1>1, <1>2, FreshIsReady
<1>5. r # w /\ T[r] = <<p, "r">> /\ T[w] = <<p, "w">>
  BY <1>2, <1>3 DEF ReadyFor
<1>6. r \in Open(T) /\ w \in Open(T)
  <2>1. T[r] # Closed /\ T[w] # Closed
    BY <1>5 DEF Closed
  <2>2. r \in Fd /\ w \in Fd
    BY <1>4 DEF Free
  <2> QED
    BY <2>1, <2>2, OpenIs
<1>7. Open(fds) = Open(T) \ {r, w}
  <2>1. r \notin Open(fds) /\ w \notin Open(fds)
    BY <1>4 DEF Open
  <2> QED
    BY <1>4, <2>1, OpenIs
<1>8. Cardinality(Open(T) \ {r, w}) = Cardinality(Open(T)) - 2
  BY <1>5, <1>6, OpenCount, TwoFewer
<1>9. Count(fds) = Count(T) - 2
  BY <1>7, <1>8 DEF Count
<1> QED
  BY <1>1, <1>9, OpenCount

LEMMA SpareIs ==
    ASSUME NEW F, NEW G, NEW k, NEW a \in Nat, NEW b \in Nat, NEW c \in Nat, NEW d \in Nat,
           NEW e \in Nat, a = Count(F), b = Count(G), Gives(b - (a + 2 * e - 2 * d), k),
           NEW pipes, NEW left, Len(pipes) = c, Len(left) = c - d + e, d <= c
    PROVE  Gives(Spare(G, left) - Spare(F, pipes), k)
<1>1. Spare(G, left) - Spare(F, pipes) = b - (a + 2 * e - 2 * d)
  BY DEF Spare, Count
<1> QED
  BY <1>1

LEMMA PlainSpare ==
    ASSUME TypeOK, WaitingInv, NEW w, NEW k, PlainLine(w, k), ended' # "noPipe"
    PROVE  Gives(Spare(fds', number_pipe') - Spare(fds, number_pipe), Len(ins'))
<1>1. /\ w.ok /\ fds' = w.fds /\ number_pipe' = Waiting(number_pipe) /\ ins' = w.ins /\ k \in Nat
  BY DEF PlainLine, Ran
<1>2. Len(ins') = k /\ LeavesTable(w.fds, Shut(fds, DueEnds(Due(number_pipe))), k)
  BY <1>1 DEF PlainLine, Finished
<1>3. DueIn(fds, Due(number_pipe), Own)
  BY DueInTable
<1>4. Gives(Count(w.fds) - (Count(fds) - 2 * Len(Due(number_pipe))), k)
  BY <1>1, <1>2, <1>3, LineGives
<1>5. PICK a, b : a = Count(fds) /\ b = Count(w.fds)
  OBVIOUS
<1>6. PICK c, d : c = Len(number_pipe) /\ d = Len(Due(number_pipe))
  OBVIOUS
<1>7. a \in Nat /\ b \in Nat
  BY <1>5, OpenCount
<1>8. c \in Nat /\ d \in Nat /\ Len(Waiting(number_pipe)) \in Nat /\ Len(Waiting(number_pipe)) + d = c
  BY <1>6, WaitTypes, DueAre
<1>9. Len(number_pipe) = c /\ Len(Waiting(number_pipe)) = c - d + 0 /\ d <= c
  BY <1>6, <1>8
<1>10. a - 2 * d = a + 2 * 0 - 2 * d
  BY <1>7, <1>8
<1>11. Gives(b - (a + 2 * 0 - 2 * d), k)
  BY <1>4, <1>5, <1>6, <1>10
<1>12. Gives(Spare(w.fds, Waiting(number_pipe)) - Spare(fds, number_pipe), k)
  BY <1>5, <1>7, <1>8, <1>9, <1>11, SpareIs
<1> QED
  BY <1>1, <1>2, <1>12

LEMMA NumberedSpare ==
    ASSUME TypeOK, WaitingInv, NEW w, NEW k, NEW n, NEW p, NumberedLine(w, k, n, p),
           ended' # "noPipe"
    PROVE  Gives(Spare(fds', number_pipe') - Spare(fds, number_pipe), Len(ins'))
<1>1. /\ w.ok /\ fds' = w.fds /\ number_pipe' = NumberedPipes(n) /\ ins' = w.ins
      /\ line \in 0..MaxLine - 1 /\ n \in 1..MaxN /\ ~NoPipeFor(n) /\ k \in Nat
  <2>1. n \in 1..MaxN /\ ~NoPipeFor(n) /\ k \in 1..MaxStage
    BY DEF NumberedLine
  <2>2. k \in Nat
    BY <2>1, NpShellAssumption
  <2> QED
    BY <2>1, <2>2, NumberedWrites
<1>2. PICK T : T = NumberedTable(n)
  OBVIOUS
<1>3. Finished(w, T, Due(number_pipe), k, NumberedEnds(n).w) /\ NumberedEnds(n).w \in Fd
  BY <1>2 DEF NumberedLine, ReadyFor, PipeEnds
<1>4. Len(ins') = k /\ LeavesTable(w.fds, Shut(T, DueEnds(Due(number_pipe))), k)
  BY <1>1, <1>3 DEF Finished
<1>5. DueIn(T, Due(number_pipe), NumberedEnds(n).w)
  BY <1>2 DEF NumberedLine, ReadyFor
<1>6. Gives(Count(w.fds) - (Count(T) - 2 * Len(Due(number_pipe))), k)
  BY <1>1, <1>4, <1>5, LineGives
<1>7. PICK a, b : a = Count(fds) /\ b = Count(w.fds)
  OBVIOUS
<1>8. PICK c, d : c = Len(number_pipe) /\ d = Len(Due(number_pipe))
  OBVIOUS
<1>9. PICK e : e = IF Shares(n) THEN 0 ELSE 1
  OBVIOUS
<1>10. a \in Nat /\ b \in Nat /\ e \in Nat
  BY <1>7, <1>9, OpenCount
<1>11. c \in Nat /\ d \in Nat /\ Len(Waiting(number_pipe)) \in Nat /\ Len(Waiting(number_pipe)) + d = c
  BY <1>8, WaitTypes, DueAre
<1>12. Len(NumberedPipes(n)) = Len(Waiting(number_pipe)) + e
  BY <1>9, WaitTypes DEF NumberedPipes
<1>13. Len(number_pipe) = c /\ Len(NumberedPipes(n)) = c - d + e /\ d <= c
  BY <1>8, <1>10, <1>11, <1>12
<1>14. Count(T) = a + 2 * e
  <2>1. CASE Shares(n)
    BY <1>2, <1>7, <1>9, <1>10, <2>1 DEF NumberedTable
  <2>2. CASE ~Shares(n)
    BY <1>1, <1>2, <1>7, <1>9, <2>2, FreshOpens
  <2> QED
    BY <2>1, <2>2
<1>15. Gives(b - (a + 2 * e - 2 * d), k)
  <2>1. Gives(b - ((a + 2 * e) - 2 * d), k)
    BY <1>6, <1>7, <1>8, <1>14
  <2>2. (a + 2 * e) - 2 * d = a + 2 * e - 2 * d
    BY <1>10, <1>11
  <2> QED
    BY <2>1, <2>2
<1>16. Gives(Spare(w.fds, NumberedPipes(n)) - Spare(fds, number_pipe), k)
  BY <1>7, <1>10, <1>11, <1>13, <1>15, SpareIs
<1> QED
  BY <1>1, <1>4, <1>16

LEMMA SpareStays ==
    ASSUME TypeOK, NEW pipes, fds' = fds, number_pipe' = pipes, Len(pipes) = Len(number_pipe), NEW k
    PROVE  Gives(Spare(fds', number_pipe') - Spare(fds, number_pipe), k)
<1>1. Count(fds) \in Nat /\ Len(number_pipe) \in Nat
  BY WaitTypes, OpenCount
<1>2. Spare(fds', number_pipe') - Spare(fds, number_pipe) = 0
  BY <1>1 DEF Spare, Count
<1> QED
  BY <1>2 DEF Gives

SparesStep == Gives(Spare(fds', number_pipe') - Spare(fds, number_pipe), Len(ins'))

LEMMA NextSpare ==
    TypeOK /\ Sane /\ [Next]_vars =>
        [~missed' /\ ended' # "noPipe" =>
            Spare(fds', number_pipe') - Spare(fds, number_pipe) \in
                IF Len(ins') > 1 THEN {0, 1} ELSE {0}]_vars
<1> SUFFICES ASSUME TypeOK, Sane, [Next]_vars, ~missed', ended' # "noPipe"
             PROVE  SparesStep
  BY DEF SparesStep, Gives
<1>1. ended # "noPipe" /\ ~missed
  <2>1. missed \in BOOLEAN
    BY DEF TypeOK
  <2> QED
    BY <2>1, EndedStays
<1>2. WaitingInv
  BY <1>1 DEF Sane
<1>3. ASSUME NEW w, NEW k, PlainLine(w, k) PROVE SparesStep
  BY <1>2, <1>3, PlainSpare DEF SparesStep
<1>4. ASSUME NEW w, NEW k, NEW n, NEW p, NumberedLine(w, k, n, p) PROVE SparesStep
  BY <1>2, <1>4, NumberedSpare DEF SparesStep
<1>5. CASE BuiltInLine
  <2>1. Due(number_pipe) = <<>> /\ Len(Due(number_pipe)) = 0
    BY <1>5 DEF BuiltInLine
  <2>2. Len(Waiting(number_pipe)) + Len(Due(number_pipe)) = Len(number_pipe)
    BY WaitTypes, DueAre
  <2>3. Len(Waiting(number_pipe)) \in Nat
    BY WaitTypes
  <2>4. Len(Waiting(number_pipe)) = Len(number_pipe)
    BY <2>1, <2>2, <2>3
  <2> QED
    BY <1>5, <2>4, SpareStays DEF BuiltInLine, SparesStep
<1>6. CASE FailedLine
  BY <1>6 DEF FailedLine
<1>7. CASE NoLine
  BY <1>7, SpareStays DEF NoLine, SparesStep
<1> QED
  BY <1>1, <1>2, <1>3, <1>4, <1>5, <1>6, <1>7, StepWell

(* Until a pipe is due at a built-in line: a line that ran leaves in the    *)
(* shell's file table what it found there, less the pipe it read, plus the  *)
(* pipe of its |N if that is new, and after several commands at most one    *)
(* more read end, the one nobody closes (NpShell: the closes of the fork    *)
(* loop and of shell()).                                                    *)
THEOREM AlwaysOneEndLeftAtMost == Spec => OneEndLeftAtMost
  BY SaneAlways, NextSpare, PTL DEF Spec, OneEndLeftAtMost
=============================================================================
