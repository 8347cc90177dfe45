--------------------------- MODULE ShellIOProofs ---------------------------
(***************************************************************************)
(* Theorems about ShellIO for lines of any number of commands of any kinds *)
(* and any N: the types, and that no filter misses a part of its input.    *)
(* They rest on who holds which end of a pipe.                             *)
(***************************************************************************)
EXTENDS ShellIO, Induction

End    == Pipe \X {"r", "w"}
Waiter == [pipe : Pipe, number : 1..MaxN]
Kid    == [in : Pipe \cup {None}, out : Pipe \cup {None}, todo : 0..Big,
           reads : BOOLEAN, holds : SUBSET End]

(* A pipe that is used is one of a line that has been entered. *)
Old(p) == p # None => p[1] <= line

(* The shell holds both ends of every numbered pipe that waits, and goes on *)
(* holding them; each has a line of its own.                                *)
WaitsWell ==
    /\ \A i \in 1..Len(number_pipe) :
          LET p == number_pipe[i].pipe IN
          p[1] \in 1..line /\ p[2] = 0 /\ {R(p), W(p)} \subseteq held \ closing
    /\ \A i, j \in 1..Len(number_pipe) : number_pipe[i].pipe = number_pipe[j].pipe => i = j

KidsAreOld ==
    /\ \A c \in live \cup cut : c[1] <= line
    /\ \A c \in Child : Old(child[c].in) /\ Old(child[c].out)

(* A child holds the ends it works with. *)
HoldsOwn(kid) ==
    /\ kid.in # None => R(kid.in) \in kid.holds
    /\ kid.out # None => W(kid.out) \in kid.holds
HoldOwn == \A c \in live : HoldsOwn(child[c])

(* Nobody reads a numbered pipe before its line comes, and while it waits    *)
(* nobody who writes to it gets SIGPIPE.                                    *)
NotYetUsed ==
    \A i \in 1..Len(number_pipe) :
        /\ \A d \in Child : child[d].in # number_pipe[i].pipe
        /\ \A c \in cut : child[c].out # number_pipe[i].pipe

(* A reader stays until its writers are gone, unless it gets SIGPIPE itself. *)
ReadersStay ==
    /\ \A c \in live, d \in Child :
          child[c].out # None /\ child[d].in = child[c].out /\ child[d].reads
              => d \in live \cup cut
    /\ \A c \in cut : child[c].out # None

IInv == /\ TypeOK /\ WaitsWell /\ KidsAreOld /\ HoldOwn /\ NotYetUsed /\ ReadersStay
        /\ FilterGetsAll
-----------------------------------------------------------------------------
LEMMA AtStart == ASSUME Init PROVE IInv
<1>1. Idle \in Kid /\ ~Idle.reads /\ Idle.in = None /\ Idle.out = None
  BY DEF Idle, Kid, Big
<1>2. /\ line = 0 /\ exited = FALSE /\ number_pipe = <<>> /\ held = {} /\ waits = {}
      /\ closing = {} /\ live = {} /\ cut = {} /\ level = [p \in Pipe |-> 0]
  BY DEF Init
<1>3. \A c \in Child : child[c] = Idle
  BY DEF Init
<1>4. child \in [Child -> Kid]
  BY <1>1 DEF Init
<1>5. Len(number_pipe) = 0 /\ number_pipe \in Seq(Waiter)
  BY <1>2
<1>6. TypeOK
  <2>1. 0 \in 0..MaxLine /\ level \in [Pipe -> 0..Room]
    BY <1>2, ShellIOAssumption DEF Room
  <2>2. number_pipe \in Seq([pipe : Pipe, number : 1..MaxN])
    BY <1>5 DEF Waiter
  <2> QED
    BY <1>2, <1>4, <2>1, <2>2 DEF TypeOK, Kid, End
<1>7. WaitsWell /\ NotYetUsed
  BY <1>5 DEF WaitsWell, NotYetUsed
<1>8. KidsAreOld /\ HoldOwn /\ ReadersStay /\ FilterGetsAll
  BY <1>1, <1>2, <1>3 DEF KidsAreOld, Old, HoldOwn, ReadersStay, FilterGetsAll
<1> QED
  BY <1>6, <1>7, <1>8 DEF IInv

(* A step of the children: what it leaves alone. *)
LEMMA KidsStep ==
    ASSUME IInv, NEW c \in Child, Step(c)
    PROVE  IInv'
<1>1. /\ UNCHANGED OfShell
      /\ child \in [Child -> Kid] /\ level \in [Pipe -> 0..Room] /\ cut \subseteq Child
      /\ live \subseteq Child
  BY DEF Step, Read, Write, Broken, Done, Ended, IInv, TypeOK, Kid, End
<1>2. child[c] \in Kid
  BY <1>1
<1>3. /\ \A d \in Child : child'[d].in = child[d].in /\ child'[d].out = child[d].out
                          /\ child'[d].reads = child[d].reads
      /\ \A d \in Child \ {c} : child'[d] = child[d]
      /\ child' \in [Child -> Kid]
  <2>1. CASE Read(c)
    <3>1. child' = [child EXCEPT ![c].todo = 1] /\ 1 \in 0..Big
      BY <2>1 DEF Read, Big
    <3> QED
      BY <1>1, <1>2, <3>1 DEF Kid
  <2>2. CASE Write(c)
    <3>1. child' = [child EXCEPT ![c].todo = @ - 1] /\ child[c].todo > 0
      BY <2>2 DEF Write
    <3>2. child[c].todo - 1 \in 0..Big
      BY <1>2, <3>1 DEF Kid, Big
    <3> QED
      BY <1>1, <1>2, <3>1, <3>2 DEF Kid
  <2>3. CASE Broken(c) \/ Done(c)
    <3>1. child' = [child EXCEPT ![c].holds = {}, ![c].todo = 0] /\ 0 \in 0..Big
      BY <2>3 DEF Broken, Done, Ended, Big
    <3> QED
      BY <1>1, <1>2, <3>1 DEF Kid
  <2> QED
    BY <2>1, <2>2, <2>3 DEF Step
<1>4. level' \in [Pipe -> 0..Room]
  <2>1. child[c].in \in Pipe \cup {None} /\ child[c].out \in Pipe \cup {None}
    BY <1>2 DEF Kid
  <2>2. CASE Read(c)
    BY <1>1, <2>1, <2>2 DEF Read, Room
  <2>3. CASE Write(c)
    BY <1>1, <2>1, <2>3 DEF Write, Room
  <2>4. CASE Broken(c) \/ Done(c)
    BY <1>1, <2>4 DEF Broken, Done, Ended
  <2> QED
    BY <2>2, <2>3, <2>4 DEF Step
<1>5. /\ live' \subseteq live /\ (live' # live => live' = live \ {c})
      /\ cut \subseteq cut' /\ cut' \subseteq cut \cup {c}
      /\ c \in live
      /\ c \in live' => child'[c].holds = child[c].holds
  <2>1. CASE Read(c)
    BY <1>1, <1>2, <2>1 DEF Read, Kid
  <2>2. CASE Write(c)
    BY <1>1, <1>2, <2>2 DEF Write, Kid
  <2>3. CASE Broken(c) \/ Done(c)
    BY <2>3 DEF Broken, Done, Ended
  <2> QED
    BY <2>1, <2>2, <2>3 DEF Step
<1>6. TypeOK'
  BY <1>1, <1>3, <1>4, <1>5 DEF IInv, TypeOK, OfShell, Kid, End
<1>7. WaitsWell'
  BY <1>1 DEF IInv, WaitsWell, OfShell
<1>8. KidsAreOld'
  BY <1>1, <1>3, <1>5 DEF IInv, KidsAreOld, OfShell, Old
<1>9. HoldOwn'
  <2>1. ASSUME NEW d \in live' PROVE child'[d].holds = child[d].holds /\ d \in live /\ d \in Child
    BY <1>1, <1>3, <1>5
  <2> QED
    BY <1>3, <2>1 DEF IInv, HoldOwn, HoldsOwn
<1>10. c \in cut' => /\ child[c].out # None
                     /\ c \in cut \/ ~Held(R(child[c].out))
  <2>1. c \in cut => child[c].out # None
    BY DEF IInv, ReadersStay
  <2>2. CASE Read(c) \/ Write(c) \/ Done(c)
    BY <2>1, <2>2 DEF Read, Write, Done
  <2>3. CASE Broken(c)
    BY <2>3 DEF Broken
  <2> QED
    BY <2>2, <2>3 DEF Step
<1>11. NotYetUsed'
  <2>1. ASSUME NEW i \in 1..Len(number_pipe), c \in cut' PROVE child[c].out # number_pipe[i].pipe
    <3>1. R(number_pipe[i].pipe) \in held
      BY DEF IInv, WaitsWell
    <3>2. CASE c \in cut
      BY <3>2 DEF IInv, NotYetUsed
    <3>3. CASE ~Held(R(child[c].out))
      BY <3>1, <3>3 DEF Held
    <3> QED
      BY <1>10, <2>1, <3>2, <3>3
  <2> QED
    BY <1>1, <1>3, <1>5, <2>1 DEF IInv, NotYetUsed, OfShell
<1>12. ASSUME NEW d \in live, child[d].in # None PROVE Held(R(child[d].in))
  BY <1>12 DEF IInv, HoldOwn, HoldsOwn, Held
<1>13. FilterGetsAll'
  <2>1. ASSUME c \in cut', NEW d \in Child, child[d].reads, child[d].in = child[c].out
        PROVE  d \in cut'
    <3>1. CASE c \in cut
      BY <1>5, <2>1, <3>1 DEF IInv, FilterGetsAll
    <3>2. CASE ~Held(R(child[c].out))
      <4>1. d \in live \cup cut
        BY <1>5, <1>10, <2>1 DEF IInv, ReadersStay
      <4>2. d \notin live
        BY <1>10, <1>12, <2>1, <3>2
      <4> QED
        BY <1>5, <4>1, <4>2
    <3> QED
      BY <1>10, <2>1, <3>1, <3>2
  <2>2. ASSUME NEW e \in cut, NEW d \in Child, child[d].reads, child[d].in = child[e].out
        PROVE  d \in cut'
    BY <1>5, <2>2 DEF IInv, FilterGetsAll
  <2> QED
    BY <1>1, <1>3, <1>5, <2>1, <2>2 DEF FilterGetsAll
<1>14. ReadersStay'
  <2>1. ASSUME NEW e \in live', NEW d \in Child, child[e].out # None, child[d].in = child[e].out,
               child[d].reads
        PROVE  d \in live' \cup cut'
    <3>1. e \in live /\ d \in live \cup cut
      BY <1>5, <2>1 DEF IInv, ReadersStay
    <3>2. Held(W(child[e].out))
      BY <2>1, <3>1 DEF IInv, HoldOwn, HoldsOwn, Held
    <3>3. ASSUME d = c, Done(c) PROVE FALSE
      BY <2>1, <3>2, <3>3 DEF Done
    <3>4. d = c /\ ~Done(c) => c \in live' \cup cut'
      BY <1>5 DEF Step, Read, Write, Broken, Ended
    <3> QED
      BY <1>5, <3>1, <3>3, <3>4
  <2> QED
    BY <1>1, <1>3, <1>5, <1>10, <2>1 DEF IInv, ReadersStay
<1> QED
  BY <1>6, <1>7, <1>8, <1>9, <1>11, <1>13, <1>14 DEF IInv
-----------------------------------------------------------------------------
(* The numbered pipes at the next line: those that wait on, and the one     *)
(* that is due.                                                             *)
CountedEntry == [pipe : Pipe, number : 0..MaxN - 1]

LEMMA CountedAre ==
    ASSUME NEW pipes \in Seq(Waiter)
    PROVE  /\ Counted(pipes) \in Seq(CountedEntry) /\ Len(Counted(pipes)) = Len(pipes)
           /\ \A i \in 1..Len(pipes) : /\ Counted(pipes)[i].pipe = pipes[i].pipe
                                       /\ Counted(pipes)[i].number = pipes[i].number - 1
<1>1. Len(pipes) \in Nat /\ DOMAIN pipes = 1..Len(pipes)
  OBVIOUS
<1>2. ASSUME NEW i \in 1..Len(pipes)
      PROVE  /\ [pipes[i] EXCEPT !.number = @ - 1] \in CountedEntry
             /\ [pipes[i] EXCEPT !.number = @ - 1].pipe = pipes[i].pipe
             /\ [pipes[i] EXCEPT !.number = @ - 1].number = pipes[i].number - 1
  <2>1. pipes[i] \in Waiter
    OBVIOUS
  <2>2. pipes[i].number \in 1..MaxN /\ pipes[i].number - 1 \in 0..MaxN - 1
    BY <2>1, ShellIOAssumption DEF Waiter
  <2> QED
    BY <2>1, <2>2 DEF Waiter, CountedEntry
<1>3. Counted(pipes) = [i \in 1..Len(pipes) |-> [pipes[i] EXCEPT !.number = @ - 1]]
  BY <1>1 DEF Counted
<1>4. \A i \in 1..Len(pipes) : Counted(pipes)[i] = [pipes[i] EXCEPT !.number = @ - 1]
  BY <1>3
<1>5. Counted(pipes) \in [1..Len(pipes) -> CountedEntry]
  BY <1>2, <1>3
<1>6. Counted(pipes) \in Seq(CountedEntry) /\ Len(Counted(pipes)) = Len(pipes)
  <2>1. \A f \in [1..Len(pipes) -> CountedEntry] : f \in Seq(CountedEntry) /\ Len(f) = Len(pipes)
    BY <1>1
  <2> QED
    BY <1>5, <2>1
<1> QED
  BY <1>2, <1>4, <1>6

LEMMA WithCountAre ==
    ASSUME NEW S, NEW pipes \in Seq(S), NEW n
    PROVE  /\ WithCount(pipes, n) \in Seq(S)
           /\ \A i \in 1..Len(WithCount(pipes, n)) :
                 \E j \in 1..Len(pipes) : WithCount(pipes, n)[i] = pipes[j] /\ pipes[j].number = n
<1> DEFINE wanted == {p \in ToSet(pipes) : p.number = n}
<1>1. PICK found : found = WithCount(pipes, n)
  OBVIOUS
<1>2. found = Among(pipes, wanted)
  BY <1>1 DEF WithCount
<1>3. Len(pipes) \in Nat /\ \A i \in 1..Len(pipes) : pipes[i] \in wanted <=> pipes[i].number = n
  BY DEF ToSet
<1> HIDE DEF wanted
<1>4. found \in Seq(S)
  BY <1>2, AmongLeaves
<1>5. PICK places : /\ Leaves(places, pipes, Len(pipes), found)
                    /\ Places(places, found) = {i \in 1..Len(pipes) : pipes[i] \in wanted}
  BY <1>2, AmongLeaves
<1>6. ASSUME NEW i \in 1..Len(found)
      PROVE  \E j \in 1..Len(pipes) : found[i] = pipes[j] /\ pipes[j].number = n
  <2>1. places[i] \in Places(places, found) /\ found[i] = pipes[places[i]]
    BY <1>5 DEF Places, Leaves
  <2> QED
    BY <1>3, <1>5, <2>1
<1> QED
  BY <1>1, <1>4, <1>6

(* Every entry has its pipe to itself, and none has the pipe that is due.   *)
Each(pipes) ==
    /\ pipes \in Seq(Waiter)
    /\ \A i, j \in 1..Len(pipes) : pipes[i].pipe = pipes[j].pipe => i = j

Remain(pipes) ==
    /\ Each(pipes)
    /\ \A i \in 1..Len(pipes) :
          /\ pipes[i].pipe # Due
          /\ \E j \in 1..Len(number_pipe) : pipes[i].pipe = number_pipe[j].pipe

LEMMA DueIs ==
    ASSUME Each(number_pipe), Due # None
    PROVE  \E j \in 1..Len(number_pipe) : number_pipe[j].pipe = Due /\ number_pipe[j].number = 1
<1>1. PICK counted : counted = Counted(number_pipe)
  OBVIOUS
<1>2. PICK due : due = WithCount(counted, 0)
  OBVIOUS
<1>3. due # <<>> /\ Due = due[1].pipe
  BY <1>1, <1>2 DEF Due
<1>4. /\ counted \in Seq(CountedEntry) /\ Len(counted) = Len(number_pipe)
      /\ \A i \in 1..Len(number_pipe) : /\ counted[i].pipe = number_pipe[i].pipe
                                        /\ counted[i].number = number_pipe[i].number - 1
  BY <1>1, CountedAre DEF Each
<1>5. /\ due \in Seq(CountedEntry)
      /\ \A i \in 1..Len(due) : \E j \in 1..Len(counted) : due[i] = counted[j] /\ counted[j].number = 0
  BY <1>2, <1>4, WithCountAre
<1>6. 1 \in 1..Len(due)
  BY <1>3, <1>5
<1>7. PICK j \in 1..Len(counted) : due[1] = counted[j] /\ counted[j].number = 0
  BY <1>5, <1>6
<1>8. number_pipe[j].number \in Int
  <2>1. number_pipe[j] \in Waiter
    BY <1>4 DEF Each
  <2> QED
    BY <2>1, ShellIOAssumption DEF Waiter
<1> QED
  BY <1>3, <1>4, <1>7, <1>8

LEMMA WaitingRemain ==
    ASSUME Each(number_pipe)
    PROVE  Remain(Waiting(number_pipe))
<1> DEFINE counted == Counted(number_pipe)
           wanted == {p \in ToSet(counted) : p.number # 0}
<1>1. PICK waiting : waiting = Waiting(number_pipe)
  OBVIOUS
<1>2. /\ counted \in Seq(CountedEntry) /\ Len(counted) = Len(number_pipe)
      /\ \A i \in 1..Len(number_pipe) : /\ counted[i].pipe = number_pipe[i].pipe
                                        /\ counted[i].number = number_pipe[i].number - 1
  BY CountedAre DEF Each
<1>3. waiting = Among(counted, wanted)
  BY <1>1 DEF Waiting
<1>4. Len(number_pipe) \in Nat /\ \A i \in 1..Len(number_pipe) : number_pipe[i].number \in Int
  <2>1. \A i \in 1..Len(number_pipe) : number_pipe[i] \in Waiter
    BY DEF Each
  <2> QED
    BY <2>1, ShellIOAssumption DEF Waiter, Each
<1>5. \A i \in 1..Len(counted) : counted[i] \in wanted <=> counted[i].number # 0
  BY <1>2 DEF ToSet
<1> HIDE DEF counted, wanted
<1>6. waiting \in Seq(CountedEntry)
  BY <1>2, <1>3, AmongLeaves
<1>7. PICK places : /\ Leaves(places, counted, Len(counted), waiting)
                    /\ Places(places, waiting) = {i \in 1..Len(counted) : counted[i] \in wanted}
  BY <1>2, <1>3, AmongLeaves
<1>8. Len(waiting) \in Nat /\ DOMAIN waiting = 1..Len(waiting)
  BY <1>6
<1>9. /\ \A i, j \in 1..Len(waiting) : i < j => places[i] < places[j]
      /\ places \in [1..Len(waiting) -> 1..Len(number_pipe)]
      /\ \A i \in 1..Len(waiting) : waiting[i] = counted[places[i]]
  BY <1>2, <1>7 DEF Leaves
<1>10. ASSUME NEW i \in 1..Len(waiting)
       PROVE  /\ places[i] \in 1..Len(number_pipe)
              /\ waiting[i].pipe = number_pipe[places[i]].pipe
              /\ counted[places[i]].number # 0 /\ number_pipe[places[i]].number # 1
              /\ waiting[i] \in Waiter
  <2>1. places[i] \in Places(places, waiting) /\ places[i] \in 1..Len(number_pipe)
    BY <1>9 DEF Places
  <2>2. counted[places[i]].number # 0 /\ waiting[i] = counted[places[i]]
    BY <1>5, <1>7, <1>9, <2>1
  <2>3. number_pipe[places[i]].number # 1
    BY <1>2, <1>4, <2>1, <2>2
  <2>4. waiting[i] \in CountedEntry
    BY <1>6
  <2>5. waiting[i] \in Waiter
    BY <2>2, <2>4, ShellIOAssumption DEF Waiter, CountedEntry
  <2> QED
    BY <1>2, <2>1, <2>2, <2>3, <2>5
<1>11. waiting \in Seq(Waiter)
  BY <1>6, <1>8, <1>10
<1>12. ASSUME NEW i \in 1..Len(waiting), NEW j \in 1..Len(waiting), waiting[i].pipe = waiting[j].pipe
       PROVE  i = j
  <2>1. places[i] = places[j]
    BY <1>10, <1>12 DEF Each
  <2>2. ~(i < j) /\ ~(j < i)
    BY <1>8, <1>9, <1>10, <2>1
  <2> QED
    BY <1>8, <2>2
<1>13. ASSUME NEW i \in 1..Len(waiting) PROVE waiting[i].pipe # Due
  <2>1. waiting[i].pipe # None
    BY <1>10, ShellIOAssumption DEF Waiter, Pipe, Line
  <2>2. ASSUME waiting[i].pipe = Due PROVE FALSE
    <3>1. PICK j \in 1..Len(number_pipe) : number_pipe[j].pipe = Due /\ number_pipe[j].number = 1
      BY <2>1, <2>2, DueIs
    <3>2. places[i] = j
      BY <1>10, <2>2, <3>1 DEF Each
    <3> QED
      BY <1>10, <3>1, <3>2
  <2> QED
    BY <2>2
<1>14. Remain(waiting)
  BY <1>10, <1>11, <1>12, <1>13 DEF Remain, Each
<1> QED
  BY <1>1, <1>14

LEMMA PipesEach == ASSUME IInv PROVE Each(number_pipe)
  BY DEF IInv, WaitsWell, Each, TypeOK, Waiter
-----------------------------------------------------------------------------
(* What a line leaves: child i of k reads the pipe before it and writes its  *)
(* own, the last one the sink, and the numbered pipes are those that remain *)
(* and perhaps a new one.                                                   *)
PipeNo(i) == <<line + 1, i>>

KidFits(kid, i, k, sink) ==
    /\ kid \in Kid /\ HoldsOwn(kid)
    /\ kid.in = IF i = 1 THEN Due ELSE PipeNo(i - 1)
    /\ kid.out = IF i = k THEN sink ELSE PipeNo(i)

GoOn(pipes, ends, shut) ==
    /\ Each(pipes)
    /\ \A i \in 1..Len(pipes) :
          /\ pipes[i].pipe # Due
          /\ \/ \E j \in 1..Len(number_pipe) : pipes[i].pipe = number_pipe[j].pipe
             \/ pipes[i].pipe = PipeNo(0)
          /\ {R(pipes[i].pipe), W(pipes[i].pipe)} \subseteq ends \ shut

IsSink(sink, pipes) == sink # None => \E j \in 1..Len(pipes) : pipes[j].pipe = sink

LEMMA LineStarts ==
    ASSUME IInv, NEW k \in 1..MaxStage, NEW kinds, DOMAIN kinds = 1..k,
           NEW kids, NEW ends \in SUBSET End, NEW pipes, NEW sink, NEW wait \in BOOLEAN,
           \A i \in 1..k : KidFits(kids[i], i, k, sink),
           GoOn(pipes, ends, closing'), IsSink(sink, pipes),
           closing' \subseteq (Pipe \cup {None}) \X {"r", "w"},
           Start(kinds, kids, ends, pipes, wait)
    PROVE  IInv'
<1> DEFINE mine == {<<line + 1, i>> : i \in 1..k}
<1>1. /\ line < MaxLine /\ line' = line + 1 /\ held' = ends /\ number_pipe' = pipes
      /\ waits' = IF wait THEN mine ELSE {}
      /\ live' = live \cup mine
      /\ child' = [c \in Child |-> IF c \in mine THEN kids[c[2]] ELSE child[c]]
      /\ UNCHANGED <<exited, level, cut>>
  BY DEF Start
<1>2. line \in Nat /\ MaxLine \in Nat /\ line + 1 \in Line /\ MaxStage \in Nat
  BY <1>1, ShellIOAssumption DEF IInv, TypeOK, Line
<1>3. \A c \in Child : c[1] <= line => c \notin mine
  BY <1>2
<1>4. mine \subseteq Child /\ \A c \in mine : c[1] = line + 1 /\ c[2] \in 1..k /\ c = PipeNo(c[2])
  BY <1>2 DEF Child, PipeNo
<1>5. ASSUME NEW c \in mine
      PROVE  child'[c] = kids[c[2]] /\ KidFits(child'[c], c[2], k, sink)
  BY <1>1, <1>4
<1> HIDE DEF mine
<1>6. \A c \in Child \ mine : child'[c] = child[c]
  BY <1>1
<1>7. live \subseteq Child /\ cut \subseteq Child /\ \A c \in live \cup cut : c \notin mine
  BY <1>3 DEF IInv, TypeOK, KidsAreOld
<1>8. child' \in [Child -> Kid]
  <2>1. ASSUME NEW c \in Child PROVE child'[c] \in Kid
    <3>1. child[c] \in Kid
      BY DEF IInv, TypeOK, Kid, End
    <3> QED
      BY <1>5, <1>6, <3>1 DEF KidFits
  <2> QED
    BY <1>1, <2>1
<1>9. TypeOK'
  <2>1. waits' \subseteq Child /\ live' \subseteq Child
    BY <1>1, <1>4, <1>7
  <2>2. number_pipe' \in Seq([pipe : Pipe, number : 1..MaxN])
    BY <1>1 DEF GoOn, Each, Waiter
  <2> QED
    BY <1>1, <1>2, <1>8, <2>1, <2>2 DEF IInv, TypeOK, Kid, End, Line
<1>10. \A i \in 1..Len(number_pipe) : /\ number_pipe[i].pipe[1] <= line
                                      /\ number_pipe[i].pipe[1] \in 1..line
                                      /\ number_pipe[i].pipe[2] = 0
  BY <1>2 DEF IInv, WaitsWell
<1>11. WaitsWell'
  <2>1. ASSUME NEW i \in 1..Len(pipes)
        PROVE  pipes[i].pipe[1] \in 1..line + 1 /\ pipes[i].pipe[2] = 0
    BY <1>2, <1>10 DEF GoOn, PipeNo
  <2> QED
    BY <1>1, <2>1 DEF WaitsWell, GoOn, Each
<1>12. Due # None => Due[1] <= line /\ \E i \in 1..Len(number_pipe) : number_pipe[i].pipe = Due
  BY <1>10, PipesEach, DueIs
<1>13. ASSUME NEW c \in Child \ mine PROVE Old(child[c].in) /\ Old(child[c].out)
  BY DEF IInv, KidsAreOld
<1>14. sink # None => sink = PipeNo(0) \/ \E i \in 1..Len(number_pipe) : sink = number_pipe[i].pipe
  BY DEF IsSink, GoOn
<1>15. ASSUME NEW c \in mine
       PROVE  /\ child'[c].in = Due \/ (child'[c].in[1] = line + 1 /\ child'[c].in[2] > 0)
              /\ child'[c].out # None => \/ child'[c].out[1] = line + 1
                                         \/ \E i \in 1..Len(number_pipe) : child'[c].out = number_pipe[i].pipe
              /\ HoldsOwn(child'[c])
  <2>1. PICK i \in 1..k : i = c[2]
    BY <1>4
  <2>2. PICK kid : kid = child'[c]
    OBVIOUS
  <2>3. /\ HoldsOwn(kid)
        /\ kid.in = IF i = 1 THEN Due ELSE PipeNo(i - 1)
        /\ kid.out = IF i = k THEN sink ELSE PipeNo(i)
    BY <1>5, <2>1, <2>2 DEF KidFits
  <2>4. \A n : PipeNo(n)[1] = line + 1 /\ PipeNo(n)[2] = n
    BY DEF PipeNo
  <2>5. kid.in = Due \/ (kid.in[1] = line + 1 /\ kid.in[2] > 0)
    BY <2>3, <2>4
  <2>6. kid.out # None => \/ kid.out[1] = line + 1
                          \/ \E j \in 1..Len(number_pipe) : kid.out = number_pipe[j].pipe
    BY <1>14, <2>3, <2>4
  <2> QED
    BY <2>2, <2>3, <2>5, <2>6
<1>16. ASSUME NEW c \in mine
       PROVE  /\ child'[c].in # None => child'[c].in[1] <= line + 1
              /\ child'[c].out # None => child'[c].out[1] <= line + 1
  BY <1>2, <1>10, <1>12, <1>15
<1>17. KidsAreOld'
  <2>1. ASSUME NEW c \in live' \cup cut' PROVE c[1] <= line + 1
    BY <1>1, <1>2, <1>4 DEF IInv, KidsAreOld, TypeOK, Child, Line
  <2>2. ASSUME NEW c \in Child
        PROVE  /\ child'[c].in # None => child'[c].in[1] <= line + 1
               /\ child'[c].out # None => child'[c].out[1] <= line + 1
    <3>1. CASE c \in mine
      BY <1>16, <3>1
    <3>2. CASE c \notin mine
      <4>1. child[c] \in Kid
        BY DEF IInv, TypeOK, Kid, End
      <4>2. \A p \in Pipe : p[1] \in Nat
        BY <1>2 DEF Pipe, Line
      <4> QED
        BY <1>2, <1>6, <1>13, <3>2, <4>1, <4>2 DEF Old, Kid
    <3> QED
      BY <3>1, <3>2
  <2> QED
    BY <1>1, <2>1, <2>2 DEF KidsAreOld, Old
<1>18. HoldOwn'
  <2>1. ASSUME NEW c \in live' PROVE HoldsOwn(child'[c])
    <3>1. CASE c \in mine
      BY <1>15, <3>1
    <3>2. CASE c \notin mine
      BY <1>1, <1>6, <1>7, <3>2 DEF IInv, HoldOwn
    <3> QED
      BY <3>1, <3>2
  <2> QED
    BY <2>1 DEF HoldOwn, HoldsOwn
<1>19. NotYetUsed'
  <2>1. ASSUME NEW i \in 1..Len(pipes), NEW d \in Child PROVE child'[d].in # pipes[i].pipe
    <3>1. pipes[i].pipe # Due /\ pipes[i].pipe[2] = 0 /\ pipes[i].pipe # None
      <4>1. pipes[i] \in Waiter
        BY DEF GoOn, Each
      <4> QED
        BY <1>10, <4>1, ShellIOAssumption DEF GoOn, PipeNo, Waiter, Pipe, Line
    <3>2. CASE d \in mine
      BY <1>15, <3>1, <3>2
    <3>3. CASE d \notin mine
      <4>1. child[d].in # PipeNo(0)
        <5>1. PipeNo(0) \in Pipe
          BY <1>2 DEF PipeNo, Pipe
        <5>2. PipeNo(0) # None /\ PipeNo(0)[1] = line + 1
          BY <5>1, ShellIOAssumption DEF Pipe, Line, PipeNo
        <5> QED
          BY <1>2, <1>13, <3>3, <5>2 DEF Old
      <4>2. \A j \in 1..Len(number_pipe) : child[d].in # number_pipe[j].pipe
        BY DEF IInv, NotYetUsed
      <4> QED
        BY <1>6, <3>3, <4>1, <4>2 DEF GoOn
    <3> QED
      BY <3>2, <3>3
  <2>2. ASSUME NEW i \in 1..Len(pipes), NEW c \in cut PROVE child'[c].out # pipes[i].pipe
    <3>1. c \in Child \ mine /\ child'[c] = child[c] /\ child[c].out # None
      BY <1>6, <1>7 DEF IInv, ReadersStay
    <3>2. child[c].out # PipeNo(0)
      BY <1>2, <1>13, <3>1 DEF Old, PipeNo
    <3>3. \A j \in 1..Len(number_pipe) : child[c].out # number_pipe[j].pipe
      BY DEF IInv, NotYetUsed
    <3> QED
      BY <3>1, <3>2, <3>3 DEF GoOn
  <2> QED
    BY <1>1, <2>1, <2>2 DEF NotYetUsed
<1>20. ReadersStay'
  <2>1. ASSUME NEW c \in live', NEW d \in Child, child'[c].out # None,
               child'[d].in = child'[c].out, child'[d].reads
        PROVE  d \in live' \cup cut'
    <3>1. CASE d \in mine
      BY <1>1, <3>1
    <3>2. CASE d \notin mine /\ c \in mine
      <4>1. child'[d] = child[d] /\ child[d].in # None /\ child[d].in[1] <= line
        BY <1>6, <1>13, <2>1, <3>2 DEF Old
      <4>2. \A i \in 1..Len(number_pipe) : child[d].in # number_pipe[i].pipe
        BY DEF IInv, NotYetUsed
      <4>3. child'[c].out[1] # line + 1
        BY <1>2, <2>1, <4>1
      <4> QED
        BY <1>15, <2>1, <3>2, <4>1, <4>2, <4>3
    <3>3. CASE d \notin mine /\ c \notin mine
      BY <1>1, <1>6, <1>7, <2>1, <3>3 DEF IInv, ReadersStay
    <3> QED
      BY <3>1, <3>2, <3>3
  <2>2. ASSUME NEW c \in cut' PROVE child'[c].out # None
    BY <1>1, <1>6, <1>7 DEF IInv, ReadersStay
  <2> QED
    BY <2>1, <2>2 DEF ReadersStay
<1>21. FilterGetsAll'
  <2>1. ASSUME NEW c \in cut, NEW d \in Child, child'[d].reads, child'[d].in = child'[c].out
        PROVE  d \in cut
    <3>1. /\ c \in Child \ mine /\ child'[c] = child[c]
          /\ child[c].out # None /\ child[c].out[1] <= line
      BY <1>6, <1>7, <1>13 DEF IInv, ReadersStay, Old
    <3>2. CASE d \in mine
      <4>1. child'[d].in = Due
        BY <1>2, <1>15, <2>1, <3>1, <3>2
      <4>2. \A i \in 1..Len(number_pipe) : child[c].out # number_pipe[i].pipe
        BY DEF IInv, NotYetUsed
      <4> QED
        BY <1>12, <2>1, <3>1, <4>1, <4>2
    <3>3. CASE d \notin mine
      BY <1>6, <2>1, <3>1, <3>3 DEF IInv, FilterGetsAll
    <3> QED
      BY <3>2, <3>3
  <2> QED
    BY <1>1, <2>1 DEF FilterGetsAll
<1> QED
  BY <1>9, <1>11, <1>17, <1>18, <1>19, <1>20, <1>21 DEF IInv
-----------------------------------------------------------------------------
(* A line at work, followed stage by stage. *)
Works == [held : SUBSET End, kids : Seq(Kid)]

OpenAt(w, i) == WithoutDueWrite(w.held \cup {R(PipeNo(i)), W(PipeNo(i))})

ForkedAt(w, kid, i, k, sink) ==
    /\ kid \in Kid
    /\ kid.in = IF i = 1 THEN Due ELSE PipeNo(i - 1)
    /\ kid.out = IF i = k THEN sink ELSE PipeNo(i)
    /\ kid.holds = OpenAt(w, i) \ Dropped(i, PipeNo(i))

StageDoes(w, s, i, k, sink) ==
    /\ s \in Works
    /\ \E kid : ForkedAt(w, kid, i, k, sink) /\ s.kids = Append(w.kids, kid)
    /\ s.held \subseteq OpenAt(w, i)
    /\ \A e \in OpenAt(w, i) \ s.held :
          e = W(PipeNo(i)) \/ e \in DueEnds \/ (i > 1 /\ e = R(PipeNo(i - 1)))

(* A line can be entered; it has k commands. *)
Ready(kinds, k, sink) ==
    /\ line \in 0..MaxLine - 1 /\ k \in 1..MaxStage
    /\ kinds \in [1..k -> Kinds] /\ Len(kinds) = k
    /\ Due \in Pipe \cup {None} /\ sink \in Pipe \cup {None}

LEMMA PipeNoIs ==
    ASSUME line \in 0..MaxLine - 1, NEW i \in 0..MaxStage
    PROVE  PipeNo(i) \in Pipe /\ R(PipeNo(i)) \in End /\ W(PipeNo(i)) \in End
  BY ShellIOAssumption DEF PipeNo, Pipe, Line, End, R, W

LEMMA DoingIs ==
    ASSUME NEW kind, NEW in \in Pipe \cup {None}, NEW out \in Pipe \cup {None},
           NEW holds \in SUBSET End
    PROVE  /\ Doing(kind, in, out, holds) \in Kid
           /\ Doing(kind, in, out, holds).in = in /\ Doing(kind, in, out, holds).out = out
           /\ Doing(kind, in, out, holds).holds = holds
  BY DEF Doing, Kid, Big

LEMMA StageIs ==
    ASSUME NEW kinds, NEW k, NEW sink, Ready(kinds, k, sink), NEW w \in Works,
           NEW i \in 1..k, NEW release
    PROVE  StageDoes(w, Stage(w, i, kinds, sink, release), i, k, sink)
<1> DEFINE open == OpenAt(w, i)
           in == IF i = 1 THEN Due ELSE PipeNo(i - 1)
           out == IF i = k THEN sink ELSE PipeNo(i)
           freed == {W(PipeNo(i))} \cup (IF i = 1 THEN {} ELSE {R(PipeNo(i - 1))})
                                   \cup (IF i = release THEN DueEnds ELSE {})
           holds == open \ Dropped(i, PipeNo(i))
<1>1. /\ i \in 1..MaxStage /\ i \in 0..MaxStage /\ i - 1 \in 0..MaxStage /\ Len(kinds) = k
      /\ line \in 0..MaxLine - 1
  BY ShellIOAssumption DEF Ready
<1>2. open \in SUBSET End
  BY <1>1, PipeNoIs DEF OpenAt, WithoutDueWrite, Works
<1>3. in \in Pipe \cup {None} /\ out \in Pipe \cup {None} /\ holds \in SUBSET End
  BY <1>1, <1>2, PipeNoIs DEF Ready
<1>4. PICK kind : Stage(w, i, kinds, sink, release) =
                    [held |-> open \ freed, kids |-> Append(w.kids, Doing(kind, in, out, holds))]
  BY <1>1, Zenon DEF Stage, PipeNo, OpenAt
<1>5. PICK kid : kid = Doing(kind, in, out, holds)
  OBVIOUS
<1>6. kid \in Kid /\ kid.in = in /\ kid.out = out /\ kid.holds = holds
  BY <1>3, <1>5, DoingIs
<1>7. ForkedAt(w, kid, i, k, sink)
  BY <1>6 DEF ForkedAt
<1>8. PICK s : s = [held |-> open \ freed, kids |-> Append(w.kids, kid)]
  OBVIOUS
<1>9. s \in Works
  BY <1>2, <1>6, <1>8 DEF Works
<1>10. \A e \in open \ s.held :
          e = W(PipeNo(i)) \/ e \in DueEnds \/ (i > 1 /\ e = R(PipeNo(i - 1)))
  BY <1>8
<1>11. StageDoes(w, s, i, k, sink)
  BY <1>7, <1>8, <1>9, <1>10 DEF StageDoes
<1> QED
  BY <1>4, <1>5, <1>8, <1>11

(* v has the line after each stage. *)
WalksStages(v, ends, kinds, k, sink, release) ==
    /\ v \in [0..k -> Works]
    /\ v[0] = [held |-> ends, kids |-> <<>>]
    /\ \A i \in 1..k : v[i] = Stage(v[i - 1], i, kinds, sink, release)
    /\ v[k] = Stages(ends, kinds, sink, release)

LEMMA StagesWalk ==
    ASSUME NEW kinds, NEW k, NEW sink, Ready(kinds, k, sink), NEW ends \in SUBSET End,
           NEW release
    PROVE  \E v : WalksStages(v, ends, kinds, k, sink, release)
<1> DEFINE work == [held |-> ends, kids |-> <<>>]
           Do(w, i) == Stage(w, i, kinds, sink, release)
           seq == [i \in DOMAIN kinds |-> i]
           step == [x \in Works \X (1..k) |-> Do(x[1], seq[x[2]])]
           Loop(f) == f = [s \in SUBSET DOMAIN seq |->
                             IF s = {} THEN work ELSE Do(f[s \ {Max(s)}], seq[Max(s)])]
           iter == CHOOSE f : Loop(f)
<1>1. k \in Nat /\ DOMAIN seq = 1..k /\ \A i \in 1..k : seq[i] = i
  BY ShellIOAssumption DEF Ready
<1>2. work \in Works
  <2>1. <<>> \in Seq(Kid)
    OBVIOUS
  <2> QED
    BY <2>1 DEF Works
<1>3. ASSUME NEW w \in Works, NEW i \in 1..k PROVE Do(w, i) \in Works
  BY StageIs DEF StageDoes
<1> HIDE DEF Do, seq, work
<1>4. step \in [Works \X (1..k) -> Works]
  BY <1>1, <1>3
<1>5. \E f : Loop(f)
  <2>1. PICK f \in [SUBSET (1..k) -> Works] : Folding(k, work, step, f)
    <3> HIDE DEF step
    <3> QED
      BY <1>1, <1>2, <1>4, FoldingExists
  <2>2. ASSUME NEW s \in SUBSET (1..k), s # {}
        PROVE  f[s] = Do(f[s \ {Max(s)}], seq[Max(s)])
    <3>1. Max(s) \in s
      BY <2>2, <1>1, MaxIsIn
    <3>2. <<f[s \ {Max(s)}], Max(s)>> \in Works \X (1..k)
      BY <3>1, <2>1
    <3>3. f[s] = step[<<f[s \ {Max(s)}], Max(s)>>]
      BY <2>2, <2>1 DEF Folding
    <3> QED
      BY <3>2, <3>3
  <2>3. f[{}] = work
    BY <2>1 DEF Folding
  <2>4. Loop(f)
    BY <2>1, <2>2, <2>3, <1>1
  <2> QED
    BY <2>4
<1>6. Loop(iter)
  <2> HIDE DEF Loop
  <2> QED
    BY <1>5, Zenon
<1>7. Stages(ends, kinds, sink, release) = iter[DOMAIN seq]
  BY Zenon DEF Stages, FoldLeft, MapThenFoldSet, Do, seq, work
<1> HIDE DEF iter
<1>8. iter[{}] = work
  BY <1>6
<1>9. ASSUME NEW i \in 1..k, iter[1..i - 1] \in Works
      PROVE  iter[1..i] = step[<<iter[1..i - 1], i>>]
  <2>1. Max(1..i) = i /\ (1..i) \ {i} = 1..i - 1 /\ 1..i # {}
    BY <1>1, MaxUpTo
  <2>2. 1..i \in SUBSET DOMAIN seq
    BY <1>1
  <2>3. iter[1..i] = Do(iter[(1..i) \ {Max(1..i)}], seq[Max(1..i)])
    BY <1>6, <2>1, <2>2
  <2>4. step[<<iter[1..i - 1], i>>] = Do(iter[1..i - 1], seq[i])
    BY <1>9
  <2> HIDE DEF step
  <2> QED
    BY <2>1, <2>3, <2>4
<1>10. PICK v : WalksBy(v, k, Works, work, step, iter[1..k])
  <2> HIDE DEF step
  <2> QED
    BY <1>1, <1>2, <1>4, <1>8, <1>9, FoldingWalks
<1>11. v \in [0..k -> Works] /\ v[0] = work /\ v[k] = iter[1..k]
  BY <1>10 DEF WalksBy
<1>12. ASSUME NEW i \in 1..k
       PROVE  v[i] = Stage(v[i - 1], i, kinds, sink, release)
  <2>1. i - 1 \in 0..k
    BY <1>1
  <2>2. <<v[i - 1], i>> \in Works \X (1..k)
    BY <1>11, <2>1
  <2>3. v[i] = step[<<v[i - 1], i>>]
    BY <1>10 DEF WalksBy
  <2>4. v[i] = Do(v[i - 1], i)
    BY <1>1, <2>2, <2>3
  <2> QED
    BY <2>4 DEF Do
<1>13. v[k] = Stages(ends, kinds, sink, release)
  BY <1>1, <1>7, <1>11
<1> HIDE DEF step, Loop
<1>14. WalksStages(v, ends, kinds, k, sink, release)
  BY <1>11, <1>12, <1>13 DEF WalksStages, work
<1> QED
  BY <1>14

(* The ends in keep are those that the line must not close. *)
Apart(keep, sink) ==
    /\ keep \subseteq End
    /\ \A e \in keep : e \notin DueEnds /\ \A i \in 1..MaxStage : e[1] # PipeNo(i)
    /\ sink # None => W(sink) \in keep

AtWork(w, n, k, sink, keep) ==
    /\ Len(w.kids) = n
    /\ \A j \in 1..n : KidFits(w.kids[j], j, k, sink)
    /\ keep \subseteq w.held
    /\ n = 0 /\ Due # None => R(Due) \in w.held
    /\ n > 0 => R(PipeNo(n)) \in w.held

LEMMA StageWorks ==
    ASSUME NEW kinds, NEW k, NEW sink, Ready(kinds, k, sink), NEW keep, Apart(keep, sink),
           \A i \in 1..MaxStage : Due # PipeNo(i),
           NEW w \in Works, NEW s, NEW i \in 1..k, StageDoes(w, s, i, k, sink),
           AtWork(w, i - 1, k, sink, keep)
    PROVE  AtWork(s, i, k, sink, keep)
<1>1. i \in 1..MaxStage /\ i \in Nat /\ (i > 1 => i - 1 \in 1..MaxStage)
  BY ShellIOAssumption DEF Ready
<1>2. PICK kid : ForkedAt(w, kid, i, k, sink) /\ s.kids = Append(w.kids, kid)
  BY DEF StageDoes
<1>3. \A p, q : R(p) # W(q) /\ (R(p) = R(q) => p = q) /\ (W(p) = W(q) => p = q)
                /\ R(p)[1] = p /\ W(p)[1] = p
  BY DEF R, W
<1>4. R(PipeNo(i)) \in OpenAt(w, i) /\ W(PipeNo(i)) \in OpenAt(w, i)
  BY <1>1, <1>3 DEF OpenAt, WithoutDueWrite
<1>5. keep \subseteq OpenAt(w, i)
  BY DEF AtWork, OpenAt, WithoutDueWrite, Apart, DueEnds
<1>6. keep \cap Dropped(i, PipeNo(i)) = {}
  BY <1>1, <1>3 DEF Dropped, Apart
<1>7. HoldsOwn(kid)
  <2>1. ASSUME kid.in # None PROVE R(kid.in) \in kid.holds
    <3>1. CASE i = 1
      <4>1. kid.in = Due /\ R(Due) \in w.held
        BY <1>2, <2>1, <3>1 DEF ForkedAt, AtWork
      <4>2. R(Due) \in OpenAt(w, i) /\ R(Due) \notin Dropped(i, PipeNo(i))
        BY <1>1, <1>3, <4>1 DEF OpenAt, WithoutDueWrite, Dropped
      <4> QED
        BY <1>2, <4>1, <4>2 DEF ForkedAt
    <3>2. CASE i # 1
      <4>1. kid.in = PipeNo(i - 1) /\ R(PipeNo(i - 1)) \in w.held
        BY <1>1, <1>2, <3>2 DEF ForkedAt, AtWork
      <4>2. R(PipeNo(i - 1)) \in OpenAt(w, i) /\ Dropped(i, PipeNo(i)) = {}
        BY <1>3, <3>2, <4>1 DEF OpenAt, WithoutDueWrite, Dropped
      <4> QED
        BY <1>2, <4>1, <4>2 DEF ForkedAt
    <3> QED
      BY <3>1, <3>2
  <2>2. ASSUME kid.out # None PROVE W(kid.out) \in kid.holds
    <3>1. CASE i = k
      <4>1. kid.out = sink /\ W(sink) \in keep
        BY <1>2, <2>2, <3>1 DEF ForkedAt, Apart
      <4> QED
        BY <1>2, <1>5, <1>6, <4>1 DEF ForkedAt
    <3>2. CASE i # k
      <4>1. kid.out = PipeNo(i) /\ W(PipeNo(i)) \notin Dropped(i, PipeNo(i))
        BY <1>2, <1>3, <3>2 DEF ForkedAt, Dropped
      <4> QED
        BY <1>2, <1>4, <4>1 DEF ForkedAt
    <3> QED
      BY <3>1, <3>2
  <2> QED
    BY <2>1, <2>2 DEF HoldsOwn
<1>8. KidFits(kid, i, k, sink)
  BY <1>2, <1>7 DEF ForkedAt, KidFits
<1>9. Len(s.kids) = i /\ s.kids[i] = kid /\ \A j \in 1..i - 1 : s.kids[j] = w.kids[j]
  <2>1. w.kids \in Seq(Kid) /\ kid \in Kid /\ Len(w.kids) = i - 1
    BY <1>2 DEF Works, ForkedAt, AtWork
  <2> QED
    BY <1>1, <1>2, <2>1
<1>10. \A j \in 1..i : KidFits(s.kids[j], j, k, sink)
  BY <1>1, <1>8, <1>9 DEF AtWork
<1>11. keep \subseteq s.held
  <2>1. ASSUME NEW e \in keep PROVE e \in s.held
    <3>1. e # W(PipeNo(i)) /\ e \notin DueEnds /\ (i > 1 => e # R(PipeNo(i - 1)))
      BY <1>1, <1>3 DEF Apart
    <3> QED
      BY <1>5, <3>1 DEF StageDoes
  <2> QED
    BY <2>1
<1>12. R(PipeNo(i)) \in s.held
  <2>1. R(PipeNo(i)) # W(PipeNo(i)) /\ R(PipeNo(i)) \notin DueEnds
    BY <1>1, <1>3 DEF DueEnds
  <2>2. i > 1 => R(PipeNo(i)) # R(PipeNo(i - 1))
    BY <1>1, <1>3 DEF PipeNo
  <2> QED
    BY <1>4, <2>1, <2>2 DEF StageDoes
<1> QED
  BY <1>1, <1>9, <1>10, <1>11, <1>12 DEF AtWork

LEMMA StagesWork ==
    ASSUME NEW kinds, NEW k, NEW sink, Ready(kinds, k, sink), NEW keep, Apart(keep, sink),
           \A i \in 1..MaxStage : Due # PipeNo(i),
           NEW ends \in SUBSET End, keep \subseteq ends, Due # None => R(Due) \in ends,
           NEW release
    PROVE  /\ Stages(ends, kinds, sink, release) \in Works
           /\ AtWork(Stages(ends, kinds, sink, release), k, k, sink, keep)
<1>1. PICK v : WalksStages(v, ends, kinds, k, sink, release)
  BY StagesWalk
<1>2. /\ \A i \in 0..k : v[i] \in Works
      /\ v[0].held = ends /\ v[0].kids = <<>>
      /\ \A i \in 1..k : v[i] = Stage(v[i - 1], i, kinds, sink, release)
      /\ v[k] = Stages(ends, kinds, sink, release)
  BY <1>1 DEF WalksStages
<1>3. k \in Nat
  BY ShellIOAssumption DEF Ready
<1> DEFINE T == {n \in 0..k : AtWork(v[n], n, k, sink, keep)}
<1>4. 0 \in T
  BY <1>2, <1>3 DEF AtWork
<1>5. ASSUME NEW n \in 0..k, n < k, n \in T
      PROVE  n + 1 \in T
  <2>1. n + 1 \in 1..k /\ n + 1 \in 0..k /\ (n + 1) - 1 = n
    BY <1>3, <1>5
  <2>2. StageDoes(v[n], v[n + 1], n + 1, k, sink)
    BY <1>2, <2>1, StageIs
  <2>3. AtWork(v[n + 1], n + 1, k, sink, keep)
    BY <1>2, <1>5, <2>1, <2>2, StageWorks
  <2> QED
    BY <2>1, <2>3
<1>6. 0..k \subseteq T
  <2> HIDE DEF T
  <2> QED
    BY <1>3, <1>4, <1>5, UpTo
<1>7. k \in 0..k
  BY <1>3
<1> QED
  BY <1>2, <1>6, <1>7
-----------------------------------------------------------------------------
(* The numbered pipes that the line leaves, and the ends of them that the   *)
(* shell keeps.                                                             *)
Keep(pipes) == UNION {{R(pipes[i].pipe), W(pipes[i].pipe)} : i \in 1..Len(pipes)}

Named(pipes) ==
    /\ Each(pipes)
    /\ \A i \in 1..Len(pipes) :
          /\ pipes[i].pipe # Due
          /\ \/ \E j \in 1..Len(number_pipe) : pipes[i].pipe = number_pipe[j].pipe
             \/ pipes[i].pipe = PipeNo(0)

LEMMA NamedGoOn ==
    ASSUME NEW pipes, Named(pipes), NEW ends, NEW shut, Keep(pipes) \subseteq ends \ shut
    PROVE  GoOn(pipes, ends, shut)
<1>1. ASSUME NEW i \in 1..Len(pipes)
      PROVE  {R(pipes[i].pipe), W(pipes[i].pipe)} \subseteq ends \ shut
  BY DEF Keep
<1> QED
  BY <1>1 DEF Named, GoOn

LEMMA DueApart ==
    ASSUME IInv
    PROVE  /\ Due \in Pipe \cup {None}
           /\ \A i \in 0..MaxStage : Due # None => Due # PipeNo(i)
           /\ Due # None => {R(Due), W(Due)} \subseteq held \ closing
<1>1. ASSUME Due # None
      PROVE  /\ Due \in Pipe /\ {R(Due), W(Due)} \subseteq held \ closing
             /\ \A i \in 0..MaxStage : Due # PipeNo(i)
  <2>1. PICK j \in 1..Len(number_pipe) : number_pipe[j].pipe = Due
    BY <1>1, PipesEach, DueIs
  <2>2. number_pipe[j] \in Waiter
    BY PipesEach DEF Each
  <2>3. Due[1] \in 1..line /\ {R(Due), W(Due)} \subseteq held \ closing
    BY <2>1 DEF IInv, WaitsWell
  <2>4. \A i \in 0..MaxStage : PipeNo(i)[1] = line + 1
    BY DEF PipeNo
  <2>5. line \in Nat
    BY ShellIOAssumption DEF IInv, TypeOK
  <2> QED
    BY <2>1, <2>2, <2>3, <2>4, <2>5 DEF Waiter
<1> QED
  BY <1>1

LEMMA NamedApart ==
    ASSUME IInv, line < MaxLine, NEW pipes, Named(pipes), NEW sink, IsSink(sink, pipes)
    PROVE  Apart(Keep(pipes), sink)
<1>1. line \in 0..MaxLine - 1 /\ 0 \in 0..MaxStage
  BY ShellIOAssumption DEF IInv, TypeOK
<1>2. ASSUME NEW i \in 1..Len(pipes)
      PROVE  /\ R(pipes[i].pipe) \in End /\ W(pipes[i].pipe) \in End
             /\ R(pipes[i].pipe) \notin DueEnds /\ W(pipes[i].pipe) \notin DueEnds
             /\ \A n \in 1..MaxStage : pipes[i].pipe # PipeNo(n)
  <2>1. pipes[i] \in Waiter
    BY DEF Named, Each
  <2>2. pipes[i].pipe \in Pipe /\ pipes[i].pipe # Due
    BY <2>1 DEF Named, Waiter
  <2>3. pipes[i].pipe[2] = 0
    BY DEF Named, IInv, WaitsWell, PipeNo
  <2>4. \A n \in 1..MaxStage : PipeNo(n)[2] = n /\ n # 0
    BY DEF PipeNo
  <2> QED
    BY <2>2, <2>3, <2>4 DEF End, R, W, DueEnds
<1>3. ASSUME NEW e \in Keep(pipes)
      PROVE  e \in End /\ e \notin DueEnds /\ \A n \in 1..MaxStage : e[1] # PipeNo(n)
  <2>1. PICK i \in 1..Len(pipes) : e = R(pipes[i].pipe) \/ e = W(pipes[i].pipe)
    BY DEF Keep
  <2>2. e[1] = pipes[i].pipe
    BY <2>1 DEF R, W
  <2> QED
    BY <1>2, <2>1, <2>2
<1>4. ASSUME sink # None PROVE W(sink) \in Keep(pipes)
  BY <1>4 DEF IsSink, Keep
<1> QED
  BY <1>3, <1>4 DEF Apart

LEMMA WaitingNamed ==
    ASSUME IInv
    PROVE  /\ Named(Waiting(number_pipe))
           /\ Keep(Waiting(number_pipe)) \subseteq held \ (closing \cup DueEnds)
<1>1. PICK waiting : waiting = Waiting(number_pipe)
  OBVIOUS
<1>2. Remain(waiting)
  BY <1>1, PipesEach, WaitingRemain
<1>3. ASSUME NEW i \in 1..Len(waiting)
      PROVE  {R(waiting[i].pipe), W(waiting[i].pipe)} \subseteq held \ (closing \cup DueEnds)
  <2>1. PICK j \in 1..Len(number_pipe) : waiting[i].pipe = number_pipe[j].pipe
    BY <1>2 DEF Remain
  <2>2. waiting[i].pipe # Due
    BY <1>2 DEF Remain
  <2>3. {R(waiting[i].pipe), W(waiting[i].pipe)} \subseteq held \ closing
    BY <2>1 DEF IInv, WaitsWell
  <2> QED
    BY <2>2, <2>3 DEF DueEnds, R, W
<1>4. Keep(waiting) \subseteq held \ (closing \cup DueEnds)
  BY <1>3 DEF Keep
<1>5. Named(waiting)
  BY <1>2 DEF Remain, Named
<1> QED
  BY <1>1, <1>4, <1>5

(* With a new numbered pipe. *)
FreshEntry(n) == [pipe |-> PipeNo(0), number |-> n]

LEMMA FreshNamed ==
    ASSUME IInv, line < MaxLine, NEW n \in 1..MaxN, NEW pipes,
           pipes = Waiting(number_pipe) \o <<FreshEntry(n)>>
    PROVE  /\ Named(pipes) /\ IsSink(PipeNo(0), pipes) /\ PipeNo(0) \in Pipe
           /\ Keep(pipes) \subseteq (held \ (closing \cup DueEnds)) \cup {R(PipeNo(0)), W(PipeNo(0))}
<1>1. PICK waiting : waiting = Waiting(number_pipe)
  OBVIOUS
<1>2. Named(waiting) /\ Keep(waiting) \subseteq held \ (closing \cup DueEnds)
  BY <1>1, WaitingNamed
<1>3. line \in 0..MaxLine - 1 /\ 0 \in 0..MaxStage /\ line \in Nat
  BY ShellIOAssumption DEF IInv, TypeOK
<1>4. PipeNo(0) \in Pipe /\ FreshEntry(n) \in Waiter
  BY <1>3, PipeNoIs DEF FreshEntry, Waiter
<1>5. Remain(waiting)
  BY <1>1, PipesEach, WaitingRemain
<1>6. PICK m \in Nat : m = Len(waiting)
  BY <1>2 DEF Named, Each
<1>7. /\ pipes \in Seq(Waiter) /\ Len(pipes) = m + 1 /\ pipes[m + 1] = FreshEntry(n)
      /\ \A i \in 1..m : pipes[i] = waiting[i]
  <2>1. waiting \in Seq(Waiter)
    BY <1>2 DEF Named, Each
  <2>2. PICK x \in Waiter : x = FreshEntry(n)
    BY <1>4
  <2>3. pipes = Append(waiting, x)
    BY <1>1, <2>1, <2>2, AppendIsConcat
  <2>4. /\ Append(waiting, x) \in Seq(Waiter) /\ Len(Append(waiting, x)) = Len(waiting) + 1
        /\ \A i \in 1..Len(waiting) : Append(waiting, x)[i] = waiting[i]
        /\ Append(waiting, x)[Len(waiting) + 1] = x
    BY <2>1, AppendProperties
  <2> QED
    BY <1>6, <2>2, <2>3, <2>4
<1>8. /\ pipes[m + 1].pipe = PipeNo(0) /\ PipeNo(0)[1] = line + 1
      /\ \A i \in 1..m : pipes[i].pipe = waiting[i].pipe
  <2>1. FreshEntry(n).pipe = PipeNo(0)
    BY DEF FreshEntry
  <2>2. PipeNo(0)[1] = line + 1
    BY DEF PipeNo
  <2> QED
    BY <1>7, <2>1, <2>2
<1>9. ASSUME NEW i \in 1..m
      PROVE  /\ waiting[i].pipe # Due /\ waiting[i].pipe # PipeNo(0)
             /\ \E j \in 1..Len(number_pipe) : waiting[i].pipe = number_pipe[j].pipe
  <2>1. PICK j \in 1..Len(number_pipe) : waiting[i].pipe = number_pipe[j].pipe
    BY <1>5, <1>6 DEF Remain
  <2>2. number_pipe[j].pipe[1] \in 1..line
    BY DEF IInv, WaitsWell
  <2> QED
    BY <1>3, <1>5, <1>6, <1>8, <2>1, <2>2 DEF Remain
<1>10. Due # PipeNo(0)
  <2>1. PipeNo(0) # None
    BY <1>4, ShellIOAssumption DEF Pipe, Line
  <2> QED
    BY <1>3, <2>1, DueApart
<1>11. \A i \in 1..Len(pipes) : i \in 1..m \/ i = m + 1
  BY <1>6, <1>7
<1>12. Each(pipes)
  <2>1. ASSUME NEW i \in 1..Len(pipes), NEW j \in 1..Len(pipes), pipes[i].pipe = pipes[j].pipe
        PROVE  i = j
    <3>1. CASE i \in 1..m /\ j \in 1..m
      BY <1>6, <1>8, <1>2, <2>1, <3>1 DEF Named, Each
    <3> QED
      BY <1>8, <1>9, <1>11, <2>1, <3>1
  <2> QED
    BY <1>7, <2>1 DEF Each
<1>13. Named(pipes)
  BY <1>8, <1>9, <1>10, <1>11, <1>12 DEF Named
<1>14. IsSink(PipeNo(0), pipes)
  <2>1. m + 1 \in 1..Len(pipes)
    BY <1>6, <1>7
  <2> QED
    BY <1>8, <2>1 DEF IsSink
<1>15. ASSUME NEW e \in Keep(pipes)
       PROVE  e \in (held \ (closing \cup DueEnds)) \cup {R(PipeNo(0)), W(PipeNo(0))}
  <2>1. PICK i \in 1..Len(pipes) : e \in {R(pipes[i].pipe), W(pipes[i].pipe)}
    BY DEF Keep
  <2>2. CASE i \in 1..m
    <3>1. e \in Keep(waiting)
      BY <1>6, <1>8, <2>1, <2>2 DEF Keep
    <3> QED
      BY <1>2, <3>1
  <2>3. CASE i = m + 1
    BY <1>8, <2>1, <2>3
  <2> QED
    BY <1>11, <2>2, <2>3
<1> QED
  BY <1>4, <1>13, <1>14, <1>15

LEMMA SharedIsSink ==
    ASSUME IInv, NEW n, NEW shared, shared = WithCount(Waiting(number_pipe), n), shared # <<>>
    PROVE  IsSink(shared[1].pipe, Waiting(number_pipe)) /\ shared[1].pipe \in Pipe
<1>1. PICK waiting : waiting = Waiting(number_pipe)
  OBVIOUS
<1>2. waiting \in Seq(Waiter)
  BY <1>1, WaitingNamed DEF Named, Each
<1>3. /\ shared \in Seq(Waiter)
      /\ \A i \in 1..Len(shared) : \E j \in 1..Len(waiting) : shared[i] = waiting[j] /\ waiting[j].number = n
  BY <1>1, <1>2, WithCountAre
<1>4. 1 \in 1..Len(shared)
  BY <1>3
<1>5. PICK j \in 1..Len(waiting) : shared[1] = waiting[j]
  BY <1>3, <1>4
<1>6. waiting[j] \in Waiter
  BY <1>2
<1> QED
  BY <1>1, <1>5, <1>6 DEF IsSink, Waiter
-----------------------------------------------------------------------------
(* Each line keeps the invariant. *)
LEMMA LineIsReady ==
    ASSUME IInv, NEW k \in 1..MaxStage, NEW kinds \in [1..k -> Kinds],
           NEW sink \in Pipe \cup {None}, line < MaxLine
    PROVE  Ready(kinds, k, sink) /\ DOMAIN kinds = 1..k
<1>1. line \in 0..MaxLine - 1 /\ k \in Nat
  BY ShellIOAssumption DEF IInv, TypeOK
<1>2. Len(kinds) = k
  <2>1. \A f \in [1..k -> Kinds] : Len(f) = k
    BY <1>1
  <2> QED
    BY <2>1
<1> QED
  BY <1>1, <1>2, DueApart DEF Ready

(* A line whose stages are followed. *)
LEMMA StagesStart ==
    ASSUME IInv, NEW k \in 1..MaxStage, NEW kinds \in [1..k -> Kinds],
           NEW sink \in Pipe \cup {None}, NEW pipes, Named(pipes), IsSink(sink, pipes),
           NEW ends \in SUBSET End, Keep(pipes) \subseteq ends, Due # None => R(Due) \in ends,
           NEW release, NEW wait \in BOOLEAN, closing' = {},
           NEW w, w = Stages(ends, kinds, sink, release),
           Start(kinds, w.kids, w.held, pipes, wait)
    PROVE  IInv'
<1>1. line < MaxLine
  BY DEF Start
<1>2. Ready(kinds, k, sink) /\ DOMAIN kinds = 1..k
  BY <1>1, LineIsReady
<1>3. Apart(Keep(pipes), sink)
  BY <1>1, NamedApart
<1>4. \A i \in 1..MaxStage : Due # PipeNo(i)
  <2>1. line \in 0..MaxLine - 1 /\ \A i \in 1..MaxStage : i \in 0..MaxStage
    BY <1>2 DEF Ready
  <2>2. \A i \in 1..MaxStage : PipeNo(i) # None
    BY <2>1, PipeNoIs, ShellIOAssumption DEF Pipe, Line
  <2> QED
    BY <2>1, <2>2, DueApart
<1>5. w \in Works /\ AtWork(w, k, k, sink, Keep(pipes))
  BY <1>2, <1>3, <1>4, StagesWork
<1>6. \A i \in 1..k : KidFits(w.kids[i], i, k, sink)
  BY <1>5 DEF AtWork
<1>7. w.held \in SUBSET End /\ Keep(pipes) \subseteq w.held
  BY <1>5 DEF AtWork, Works
<1>8. GoOn(pipes, w.held, closing')
  BY <1>7, NamedGoOn
<1> QED
  BY <1>2, <1>6, <1>7, <1>8, LineStarts

LEMMA PipelineKeeps ==
    ASSUME IInv, NEW k \in 2..MaxStage, NEW kinds \in [1..k -> Kinds], Pipeline(kinds)
    PROVE  IInv'
<1>1. PICK w : w = Stages(held, kinds, None, 1)
  OBVIOUS
<1>2. Start(kinds, w.kids, w.held, Waiting(number_pipe), TRUE) /\ closing' = {}
  BY <1>1 DEF Pipeline
<1>3. Named(Waiting(number_pipe)) /\ Keep(Waiting(number_pipe)) \subseteq held
  BY WaitingNamed
<1>4. k \in 1..MaxStage /\ None \in Pipe \cup {None} /\ held \in SUBSET End
  BY ShellIOAssumption DEF IInv, TypeOK, End
<1>5. IsSink(None, Waiting(number_pipe)) /\ (Due # None => R(Due) \in held)
  BY DueApart DEF IsSink
<1> QED
  BY <1>1, <1>2, <1>3, <1>4, <1>5, StagesStart

(* A line of one command. *)
LEMMA OneStarts ==
    ASSUME IInv, NEW kinds \in [1..1 -> Kinds], NEW kind, NEW sink \in Pipe \cup {None},
           NEW pipes, Named(pipes), IsSink(sink, pipes),
           NEW ends \in SUBSET End, NEW after \in SUBSET ends, NEW holds \in SUBSET End,
           Due # None => R(Due) \in holds, sink # None => W(sink) \in holds,
           Keep(pipes) \subseteq after \ closing',
           closing' \subseteq (Pipe \cup {None}) \X {"r", "w"},
           NEW wait \in BOOLEAN, NEW kids, kids[1] = Doing(kind, Due, sink, holds),
           Start(kinds, kids, after, pipes, wait)
    PROVE  IInv'
<1>1. 1 \in 1..MaxStage /\ DOMAIN kinds = 1..1 /\ after \in SUBSET End
  BY ShellIOAssumption
<1>2. kids[1] \in Kid /\ kids[1].in = Due /\ kids[1].out = sink /\ kids[1].holds = holds
  BY DueApart, DoingIs
<1>3. \A i \in 1..1 : KidFits(kids[i], i, 1, sink)
  BY <1>2 DEF KidFits, HoldsOwn
<1>4. GoOn(pipes, after, closing')
  BY NamedGoOn
<1> QED
  BY <1>1, <1>3, <1>4, LineStarts

LEMMA SingleKeeps ==
    ASSUME IInv, NEW kind \in Kinds, Single(kind)
    PROVE  IInv'
<1> DEFINE ends == WithoutDueWrite(held)
           kids == <<Doing(kind, Due, None, ends)>>
           pipes == Waiting(number_pipe)
<1>1. Start(<<kind>>, kids, ends, pipes, TRUE) /\ closing' = {R(Due)}
  BY DEF Single
<1>2. Named(pipes) /\ Keep(pipes) \subseteq held \ (closing \cup DueEnds)
  BY WaitingNamed
<1>3. ends \in SUBSET End /\ (Due # None => R(Due) \in ends)
  <2>1. held \in SUBSET End
    BY DEF IInv, TypeOK, End
  <2> QED
    BY <2>1, DueApart DEF WithoutDueWrite, R, W
<1>4. Keep(pipes) \subseteq ends \ closing'
  BY <1>1, <1>2 DEF WithoutDueWrite, DueEnds
<1>5. closing' \subseteq (Pipe \cup {None}) \X {"r", "w"}
  BY <1>1, DueApart DEF R
<1>6. <<kind>> \in [1..1 -> Kinds] /\ kids[1] = Doing(kind, Due, None, ends)
  OBVIOUS
<1>7. IsSink(None, pipes)
  BY DEF IsSink
<1> HIDE DEF ends, kids, pipes
<1> QED
  BY <1>1, <1>2, <1>3, <1>4, <1>5, <1>6, <1>7, OneStarts

LEMMA NumberedKeeps ==
    ASSUME IInv, NEW k \in 1..MaxStage, NEW kinds \in [1..k -> Kinds], NEW n \in 1..MaxN,
           Numbered(kinds, n)
    PROVE  IInv'
<1> DEFINE shared == WithCount(Waiting(number_pipe), n)
           fresh == shared = <<>>
           sink == IF fresh THEN <<line + 1, 0>> ELSE shared[1].pipe
           opened == held \cup IF fresh THEN {R(sink), W(sink)} ELSE {}
           ends == WithoutDueWrite(opened)
           w == IF Len(kinds) = 1
                THEN [held |-> ends \ DueEnds,
                      kids |-> <<Doing(kinds[1], Due, sink, ends \ DroppedByOnly(sink))>>]
                ELSE Stages(ends, kinds, sink, Len(kinds))
           pipes == Waiting(number_pipe) \o
                       IF fresh THEN << [pipe |-> sink, number |-> n] >> ELSE <<>>
<1>1. Start(kinds, w.kids, w.held, pipes, FALSE) /\ closing' = {}
  BY Zenon DEF Numbered
<1>2. line < MaxLine
  BY <1>1 DEF Start
<1>3. /\ Named(pipes) /\ IsSink(sink, pipes) /\ sink \in Pipe
      /\ Keep(pipes) \subseteq opened \ DueEnds
      /\ W(sink) \in opened
  <2>1. CASE fresh
    <3>1. sink = PipeNo(0) /\ pipes = Waiting(number_pipe) \o <<FreshEntry(n)>>
      BY <2>1 DEF PipeNo, FreshEntry
    <3>2. /\ Named(pipes) /\ IsSink(sink, pipes) /\ sink \in Pipe
          /\ Keep(pipes) \subseteq opened
      <4> HIDE DEF pipes, shared
      <4> QED
        BY <1>2, <2>1, <3>1, FreshNamed
    <3>3. Keep(pipes) \cap DueEnds = {}
      <4> HIDE DEF pipes, sink
      <4> QED
        BY <1>2, <3>2, NamedApart DEF Apart
    <3> QED
      BY <2>1, <3>2, <3>3
  <2>2. CASE ~fresh
    <3>1. /\ Named(Waiting(number_pipe))
          /\ Keep(Waiting(number_pipe)) \subseteq held \ (closing \cup DueEnds)
      BY WaitingNamed
    <3>2. pipes = Waiting(number_pipe)
      <4>1. PICK waiting \in Seq(Waiter) : waiting = Waiting(number_pipe)
        BY <3>1 DEF Named, Each
      <4>2. waiting \o <<>> = waiting
        BY <4>1, ConcatEmptySeq
      <4> QED
        BY <2>2, <4>1, <4>2
    <3>3. sink = shared[1].pipe /\ opened = held
      BY <2>2
    <3>4. IsSink(sink, pipes) /\ sink \in Pipe
      <4> HIDE DEF sink, pipes
      <4> QED
        BY <2>2, <3>2, <3>3, SharedIsSink
    <3>5. sink # None
      BY <3>4, ShellIOAssumption DEF Pipe, Line
    <3>6. W(sink) \in Keep(pipes)
      BY <1>2, <3>1, <3>2, <3>4, <3>5, NamedApart DEF Apart
    <3> HIDE DEF sink, pipes, opened
    <3> QED
      BY <3>1, <3>2, <3>3, <3>4, <3>6
  <2> QED
    BY <2>1, <2>2
<1>4. sink # None /\ W(sink) \in Keep(pipes)
  <2>1. sink # None
    BY <1>3, ShellIOAssumption DEF Pipe, Line
  <2> HIDE DEF sink, pipes
  <2> QED
    BY <1>2, <1>3, <2>1, NamedApart DEF Apart
<1>5. opened \in SUBSET End
  <2>1. held \in SUBSET End
    BY DEF IInv, TypeOK, End
  <2>2. R(sink) \in End /\ W(sink) \in End
    <3> HIDE DEF sink
    <3> QED
      BY <1>3 DEF R, W, End
  <2> HIDE DEF sink
  <2> QED
    BY <2>1, <2>2
<1>6. held \subseteq opened
  OBVIOUS
<1>7. Len(kinds) = k
  BY <1>2, <1>3, LineIsReady DEF Ready
<1> HIDE DEF opened, sink, pipes, fresh, shared
<1>8. ends \in SUBSET End /\ Keep(pipes) \subseteq ends \ DueEnds
  BY <1>3, <1>5 DEF WithoutDueWrite, DueEnds
<1>9. Due # None => R(Due) \in ends /\ R(Due) # R(sink)
  <2>1. Due # sink
    <3>1. PICK i \in 1..Len(pipes) : pipes[i].pipe = sink
      BY <1>3, <1>4 DEF IsSink
    <3> QED
      BY <1>3, <3>1 DEF Named
  <2> QED
    BY <1>6, <2>1, DueApart DEF WithoutDueWrite, R, W
<1>10. CASE k = 1
  <2> DEFINE holds == ends \ DroppedByOnly(sink)
  <2>1. w = [held |-> ends \ DueEnds, kids |-> <<Doing(kinds[1], Due, sink, holds)>>]
    BY <1>7, <1>10
  <2>2. w.held = ends \ DueEnds /\ w.kids[1] = Doing(kinds[1], Due, sink, holds)
    <3> HIDE DEF w, holds, ends
    <3> QED
      BY <2>1
  <2>3. /\ holds \in SUBSET End /\ (Due # None => R(Due) \in holds)
        /\ W(sink) \in holds
    BY <1>4, <1>8, <1>9 DEF DroppedByOnly, R, W
  <2>4. /\ w.held \in SUBSET ends /\ Keep(pipes) \subseteq w.held \ closing'
        /\ closing' \subseteq (Pipe \cup {None}) \X {"r", "w"}
    BY <1>1, <1>8, <2>2
  <2>5. kinds \in [1..1 -> Kinds]
    BY <1>10
  <2> HIDE DEF w, ends, holds
  <2> QED
    BY <1>1, <1>3, <1>8, <2>2, <2>3, <2>4, <2>5, OneStarts
<1>11. CASE k # 1
  <2>1. w = Stages(ends, kinds, sink, Len(kinds))
    BY <1>7, <1>11
  <2> HIDE DEF w, ends
  <2> QED
    BY <1>1, <1>3, <1>8, <1>9, <2>1, StagesStart
<1> QED
  BY <1>10, <1>11

(* Lines and steps that start no child. *)
LEMMA BuiltInKeeps ==
    ASSUME IInv, BuiltIn
    PROVE  IInv'
<1>1. /\ line < MaxLine /\ line' = line + 1 /\ number_pipe' = Waiting(number_pipe)
      /\ UNCHANGED <<exited, held, waits, closing, live, child, level, cut>>
  BY DEF BuiltIn
<1>2. line \in Nat /\ MaxLine \in Nat /\ line + 1 \in 0..MaxLine
  BY <1>1, ShellIOAssumption DEF IInv, TypeOK
<1>3. PICK waiting : waiting = number_pipe'
  OBVIOUS
<1>4. Remain(waiting)
  BY <1>1, <1>3, PipesEach, WaitingRemain
<1>5. waiting \in Seq(Waiter)
  BY <1>4 DEF Remain, Each
<1>6. TypeOK'
  BY <1>1, <1>2, <1>3, <1>5 DEF IInv, TypeOK, Waiter
<1>7. ASSUME NEW i \in 1..Len(waiting)
      PROVE  \E j \in 1..Len(number_pipe) : waiting[i].pipe = number_pipe[j].pipe
  BY <1>4 DEF Remain
<1>8. \A x : x \in 1..line => x \in 1..line + 1
  BY <1>2
<1>9. WaitsWell'
  <2>1. ASSUME NEW i \in 1..Len(waiting)
        PROVE  LET p == waiting[i].pipe
               IN  p[1] \in 1..line + 1 /\ p[2] = 0 /\ {R(p), W(p)} \subseteq held \ closing
    <3>1. PICK j \in 1..Len(number_pipe) : waiting[i].pipe = number_pipe[j].pipe
      BY <1>7
    <3>2. PICK p : p = number_pipe[j].pipe
      OBVIOUS
    <3>3. p[1] \in 1..line /\ p[2] = 0 /\ {R(p), W(p)} \subseteq held \ closing
      BY <3>2 DEF IInv, WaitsWell
    <3> QED
      BY <1>8, <3>1, <3>2, <3>3
  <2> QED
    BY <1>1, <1>3, <1>4, <2>1 DEF WaitsWell, Remain, Each
<1>10. NotYetUsed'
  BY <1>1, <1>3, <1>7 DEF IInv, NotYetUsed
<1>11. KidsAreOld'
  <2>1. ASSUME NEW c \in live \cup cut PROVE c[1] <= line + 1
    BY <1>2 DEF IInv, KidsAreOld, TypeOK, Child, Line
  <2>2. ASSUME NEW p \in Pipe \cup {None}, Old(p), p # None PROVE p[1] <= line + 1
    BY <1>2, <2>2 DEF Old, Pipe, Line
  <2>3. \A c \in Child : child[c].in \in Pipe \cup {None} /\ child[c].out \in Pipe \cup {None}
    BY DEF IInv, TypeOK
  <2> QED
    BY <1>1, <2>1, <2>2, <2>3 DEF IInv, KidsAreOld, Old
<1>12. HoldOwn' /\ ReadersStay' /\ FilterGetsAll'
  BY <1>1 DEF IInv, HoldOwn, HoldsOwn, ReadersStay, FilterGetsAll
<1> QED
  BY <1>6, <1>9, <1>10, <1>11, <1>12 DEF IInv

LEMMA ExitKeeps ==
    ASSUME IInv, Exit
    PROVE  IInv'
<1>1. /\ exited' = TRUE /\ held' = {} /\ number_pipe' = <<>>
      /\ UNCHANGED <<line, waits, closing, live, child, level, cut>>
  BY DEF Exit
<1>2. Len(<<>>) = 0 /\ <<>> \in Seq(Waiter)
  OBVIOUS
<1>3. TypeOK'
  BY <1>1, <1>2 DEF IInv, TypeOK, Waiter
<1>4. WaitsWell' /\ NotYetUsed'
  BY <1>1, <1>2 DEF WaitsWell, NotYetUsed
<1>5. KidsAreOld' /\ HoldOwn' /\ ReadersStay' /\ FilterGetsAll'
  BY <1>1 DEF IInv, KidsAreOld, Old, HoldOwn, HoldsOwn, ReadersStay, FilterGetsAll
<1> QED
  BY <1>3, <1>4, <1>5 DEF IInv

LEMMA WaitedKeeps ==
    ASSUME IInv, Waited
    PROVE  IInv'
<1>1. /\ waits' = {} /\ closing' = {} /\ held' = held \ closing
      /\ UNCHANGED <<line, exited, number_pipe, live, child, level, cut>>
  BY DEF Waited
<1>2. TypeOK'
  BY <1>1 DEF IInv, TypeOK
<1>3. WaitsWell' /\ NotYetUsed'
  BY <1>1 DEF IInv, WaitsWell, NotYetUsed
<1>4. KidsAreOld' /\ HoldOwn' /\ ReadersStay' /\ FilterGetsAll'
  BY <1>1 DEF IInv, KidsAreOld, Old, HoldOwn, HoldsOwn, ReadersStay, FilterGetsAll
<1> QED
  BY <1>2, <1>3, <1>4 DEF IInv

LEMMA StillKeeps ==
    ASSUME IInv, UNCHANGED vars
    PROVE  IInv'
<1>1. TypeOK'
  BY DEF vars, IInv, TypeOK
<1>2. WaitsWell' /\ NotYetUsed'
  BY DEF vars, IInv, WaitsWell, NotYetUsed
<1>3. KidsAreOld' /\ HoldOwn' /\ ReadersStay' /\ FilterGetsAll'
  BY DEF vars, IInv, KidsAreOld, Old, HoldOwn, HoldsOwn, ReadersStay, FilterGetsAll
<1> QED
  BY <1>1, <1>2, <1>3 DEF IInv

LEMMA AlwaysIInv == Spec => []IInv
<1>1. ASSUME IInv, Enter PROVE IInv'
  <2>1. ASSUME NEW kind \in Kinds, Single(kind) PROVE IInv'
    BY <1>1, <2>1, SingleKeeps
  <2>2. ASSUME NEW k \in 2..MaxStage, NEW kinds \in Commands(k), Pipeline(kinds) PROVE IInv'
    BY <1>1, <2>2, PipelineKeeps DEF Commands
  <2>3. ASSUME NEW k \in 1..MaxStage, NEW kinds \in Commands(k), NEW n \in 1..MaxN,
               Numbered(kinds, n)
        PROVE  IInv'
    BY <1>1, <2>3, NumberedKeeps DEF Commands
  <2> QED
    BY <1>1, <2>1, <2>2, <2>3, BuiltInKeeps DEF Enter
<1>2. ASSUME IInv, [Next]_vars PROVE IInv'
  BY <1>1, <1>2, ExitKeeps, WaitedKeeps, KidsStep, StillKeeps DEF Next
<1> QED
  BY <1>2, AtStart, PTL DEF Spec

(* Whatever commands a user of npshell enters: shell, children and pipes     *)
(* keep their types; above all a child holds ends of pipes only, no pipe     *)
(* has more in it than it has room for, and every pipe has a line and place. *)
THEOREM AlwaysTyped == Spec => []TypeOK
  BY AlwaysIInv, PTL DEF IInv

(* However the lines of hw2/1's shell are put together and whenever its      *)
(* children run: SIGPIPE never takes from a filter a part of what a command *)
(* writes to it, for the read end is held from the fork on, by the shell for *)
(* a line to come and by the filter itself until the writers are gone.      *)
THEOREM FilterAlwaysGetsAll == Spec => []FilterGetsAll
  BY AlwaysIInv, PTL DEF IInv
=============================================================================
