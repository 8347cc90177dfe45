--------------------------- MODULE ConsoleProofs ---------------------------
(***************************************************************************)
(* Theorems about Console for any number of sessions, any files and any    *)
(* replies.  Why a session ends rests on what is in data_ while it is      *)
(* written, and on the page being empty before the first read.  That the   *)
(* page reads as typed, and what a '%' lets out, rest on Well, which is    *)
(* said of the values of one session: what is on its way in the two        *)
(* directions continues the conversation that the page shows.              *)
(***************************************************************************)
EXTENDS Console, Induction

Operation == {"resolve", "connect", "reply", "read", "write", "none"}

OfEach(s) ==
    /\ op[s] \in {"resolve", "connect", "reply"} => page[s] = <<>>
    /\ \A i \in DOMAIN data[s] :
          data[s][i][1] = "line" => data[s][i][2] = next[s] /\ next[s] > 0
    /\ (through => up) /\ op[s] = "none" /\ page[s] # <<>> => over[s] \/ ExitSent(s)

IInv ==
    /\ op \in [Session -> Operation]
    /\ next \in [Session -> Nat] /\ over \in [Session -> BOOLEAN]
    /\ DOMAIN data = Session /\ DOMAIN page = Session
    /\ \A s \in Session : OfEach(s)
-----------------------------------------------------------------------------
LEMMA AtStart == ASSUME Init PROVE IInv
<1>1. \A s \in Session : data[s] = <<>> /\ page[s] = <<>> /\ op[s] = "resolve"
  BY DEF Init
<1>2. \A s \in Session : DOMAIN data[s] = {}
  BY <1>1
<1>3. /\ op \in [Session -> Operation] /\ next \in [Session -> Nat]
      /\ over \in [Session -> BOOLEAN] /\ DOMAIN data = Session /\ DOMAIN page = Session
  BY DEF Init, Operation
<1> QED
  BY <1>1, <1>2, <1>3 DEF IInv, OfEach

(* A step of session s: what it may do to the others, and to its shell.     *)
Frame(s) ==
    /\ UNCHANGED <<through, file>>
    /\ up' = up
    /\ \A t \in Session \ {s} :
          op'[t] = op[t] /\ next'[t] = next[t] /\ data'[t] = data[t] /\ page'[t] = page[t]
             /\ over'[t] = over[t]
    /\ op' \in [Session -> Operation] /\ next' \in [Session -> Nat]
    /\ over' \in [Session -> BOOLEAN] /\ DOMAIN data' = Session /\ DOMAIN page' = Session

LEMMA FrameStep ==
    ASSUME IInv, NEW s \in Session, Frame(s), OfEach(s)'
    PROVE  IInv'
<1>1. ASSUME NEW t \in Session \ {s} PROVE OfEach(t)'
  BY DEF Frame, IInv, OfEach, ExitSent
<1> QED
  BY <1>1 DEF Frame, IInv

(* A step that leaves the console's session alone, but for the shell's end. *)
LEMMA ShellStep ==
    ASSUME IInv, NEW s \in Session, RunLine(s) \/ RunJunk(s) \/ ShellEnds(s)
    PROVE  IInv'
<1>1. UNCHANGED <<through, file, up, op, next, data, page>>
  BY DEF RunLine, RunJunk, ShellEnds, setting, console
<1>2. /\ over' \in [Session -> BOOLEAN]
      /\ \A t \in Session : over[t] => over'[t]
  BY DEF RunLine, RunJunk, ShellEnds, IInv
<1>3. ASSUME NEW t \in Session PROVE OfEach(t)'
  BY <1>1, <1>2 DEF IInv, OfEach, ExitSent
<1> QED
  BY <1>1, <1>2, <1>3 DEF IInv

LEMMA HandlerStep ==
    ASSUME IInv, NEW s \in Session, Handler(s)
    PROVE  IInv'
<1> USE DEF Then, remote, setting
<1>1. OfEach(s)
  BY DEF IInv
<1>2. ASSUME NEW ok \in BOOLEAN, ResolveDone(s, ok) \/ ConnectDone(s, ok)
      PROVE  IInv'
  <2>1. page[s] = <<>> /\ UNCHANGED <<through, file, up, next, data, page, over>>
    BY <1>1, <1>2 DEF ResolveDone, ConnectDone, OfEach
  <2>2. PICK o \in Operation : op' = [op EXCEPT ![s] = o]
    <3>1. CASE ConnectDone(s, ok)
      BY <3>1 DEF ConnectDone, Operation
    <3>2. CASE ResolveDone(s, ok)
      <4>1. CASE ~ok
        BY <3>2, <4>1 DEF ResolveDone, Operation
      <4>2. CASE ok /\ through
        BY <3>2, <4>2 DEF ResolveDone, Operation
      <4>3. CASE ok /\ ~through
        BY <3>2, <4>3 DEF ResolveDone, Operation
      <4> QED
        BY <4>1, <4>2, <4>3
    <3> QED
      BY <1>2, <3>1, <3>2
  <2>3. Frame(s)
    BY <2>1, <2>2 DEF Frame, IInv
  <2>4. OfEach(s)'
    BY <1>1, <2>1 DEF OfEach
  <2> QED
    BY <2>3, <2>4, FrameStep
<1>3. CASE JoinFails(s)
  <2>1. /\ through' /\ ~up' /\ op' = [t \in Session |-> "none"]
        /\ UNCHANGED <<next, data, page, over>>
    BY <1>3 DEF JoinFails
  <2>2. op' \in [Session -> Operation] /\ \A t \in Session : op'[t] = "none"
    BY <2>1 DEF Operation
  <2>3. ASSUME NEW t \in Session PROVE OfEach(t)'
    BY <2>1, <2>2 DEF IInv, OfEach
  <2> QED
    BY <2>1, <2>2, <2>3 DEF IInv
<1>4. ASSUME NEW granted \in BOOLEAN, ReplyRead(s, granted)
      PROVE  IInv'
  <2>1. /\ UNCHANGED <<through, file, up, next, data, page>>
        /\ op' = [op EXCEPT ![s] = "read"] /\ over' = [over EXCEPT ![s] = ~granted]
    BY <1>4 DEF ReplyRead
  <2>2. Frame(s) /\ op'[s] = "read"
    BY <2>1 DEF Frame, IInv, Operation
  <2>3. OfEach(s)'
    BY <1>1, <2>1, <2>2 DEF OfEach
  <2> QED
    BY <2>2, <2>3, FrameStep
<1>5. ASSUME NEW n, ReadOn(s, n) \/ ReadCommand(s, n) \/ ReadAtEnd(s, n)
      PROVE  IInv'
  <2>1. /\ UNCHANGED <<through, file, up, over>> /\ op[s] = "read"
        /\ DOMAIN page' = Session /\ \A t \in Session \ {s} : page'[t] = page[t]
    BY <1>5 DEF ReadOn, ReadCommand, ReadAtEnd, Reading, Showing, IInv
  <2>2. CASE ReadOn(s, n)
    <3>1. UNCHANGED <<op, next, data>>
      BY <2>2 DEF ReadOn
    <3>2. Frame(s)
      BY <2>1, <3>1 DEF Frame, IInv
    <3>3. OfEach(s)'
      BY <1>1, <2>1, <3>1 DEF OfEach
    <3> QED
      BY <3>2, <3>3, FrameStep
  <2>3. CASE ReadCommand(s, n)
    <3>1. /\ next' = [next EXCEPT ![s] = @ + 1]
          /\ data' = [data EXCEPT ![s] = <<FileLine(next[s] + 1)>>]
          /\ op' = [op EXCEPT ![s] = "write"]
      BY <2>3 DEF ReadCommand
    <3>2. Frame(s) /\ op'[s] = "write" /\ next'[s] = next[s] + 1 /\ next[s] \in Nat
      BY <2>1, <3>1 DEF Frame, IInv, Operation
    <3>3. DOMAIN data'[s] = {1} /\ data'[s][1] = <<"line", next'[s]>>
      BY <3>1, <3>2 DEF IInv, FileLine
    <3>4. OfEach(s)'
      BY <3>2, <3>3 DEF OfEach
    <3> QED
      BY <3>2, <3>4, FrameStep
  <2>4. CASE ReadAtEnd(s, n)
    <3> DEFINE text == SubSeq(toConsole[s], 1, n)
    <3>1. PICK said : /\ data' = [data EXCEPT ![s] = [i \in DOMAIN said |-> Junk]]
                      /\ op' = [op EXCEPT ![s] = "write"] /\ next' = next
      BY <2>4 DEF ReadAtEnd
    <3>2. Frame(s) /\ op'[s] = "write"
      BY <2>1, <3>1 DEF Frame, IInv, Operation
    <3>3. \A i \in DOMAIN data'[s] : data'[s][i][1] # "line"
      BY <3>1 DEF IInv, Junk
    <3>4. OfEach(s)'
      BY <3>2, <3>3 DEF OfEach
    <3> QED
      BY <3>2, <3>4, FrameStep
  <2> QED
    BY <1>5, <2>2, <2>3, <2>4
<1>6. CASE ReadFails(s) \/ WriteFails(s)
  <2>1. /\ UNCHANGED <<through, file, up, next, data, page, over>> /\ over[s]
        /\ op' = [op EXCEPT ![s] = "none"] /\ op[s] \in {"read", "write"}
    BY <1>6 DEF ReadFails, WriteFails
  <2>2. Frame(s) /\ op'[s] = "none"
    BY <2>1 DEF Frame, IInv, Operation
  <2>3. OfEach(s)'
    BY <1>1, <2>1, <2>2 DEF OfEach
  <2> QED
    BY <2>2, <2>3, FrameStep
<1>7. ASSUME NEW whole \in BOOLEAN, WriteDone(s, whole)
      PROVE  IInv'
  <2>1. /\ UNCHANGED <<through, file, up, next, data, page, over>> /\ op[s] = "write"
        /\ op' = [op EXCEPT ![s] = IF IsExit(s, data[s]) THEN "none" ELSE "read"]
    BY <1>7 DEF WriteDone
  <2>2. /\ Frame(s) /\ op'[s] \in {"none", "read"}
        /\ op'[s] = "none" => IsExit(s, data[s])
    BY <2>1 DEF Frame, IInv, Operation
  <2>3. IsExit(s, data[s]) => ExitSent(s)
    BY <1>1 DEF IsExit, ExitSent, OfEach
  <2>4. ExitSent(s)' = ExitSent(s)
    BY <2>1 DEF ExitSent
  <2>5. OfEach(s)'
    BY <1>1, <2>1, <2>2, <2>3, <2>4 DEF OfEach
  <2> QED
    BY <2>2, <2>5, FrameStep
<1> QED
  BY <1>2, <1>3, <1>4, <1>5, <1>6, <1>7 DEF Handler

(* For any number of sessions with any files and shells: a session that has *)
(* read something ends only when its shell has gone or its own exit has     *)
(* been sent, whatever becomes of the others; in hw4's console as long as   *)
(* no connection to the SOCKS server has failed.                            *)
THEOREM EndsHaveReasons == Spec => []EndsForAReason
<1>1. Init => IInv
  BY AtStart
<1>2. IInv /\ [Next]_vars => IInv'
  <2>1. ASSUME IInv, UNCHANGED vars PROVE IInv'
    <3>1. UNCHANGED <<through, file, up, op, next, data, page, over>>
      BY <2>1 DEF vars, setting, console, remote
    <3>2. ASSUME NEW s \in Session PROVE OfEach(s)'
      BY <2>1, <3>1 DEF IInv, OfEach, ExitSent
    <3> QED
      BY <2>1, <3>1, <3>2 DEF IInv
  <2> QED
    BY <2>1, ShellStep, HandlerStep DEF Next, Shell
<1>3. IInv => EndsForAReason
  BY DEF IInv, OfEach, EndsForAReason
<1> QED
  BY <1>1, <1>2, <1>3, PTL DEF Spec
-----------------------------------------------------------------------------
(* What can be on a page or on its way.                                     *)
Entry == {"prompt", "out", "mark", "line", "part", "junk"} \X Nat

Turn(f, t, i) == t \o <<Prompt(i), FileLine(i)>> \o Output(f, i)

LEMMA OutputIs ==
    ASSUME NEW f, NEW i
    PROVE  /\ f[i] = "plain" => Output(f, i) = << <<"out", i>> >>
           /\ f[i] = "mark" => Output(f, i) = << <<"mark", i>> >>
           /\ f[i] \notin {"plain", "mark"} => Output(f, i) = <<>>
  BY DEF Output

LEMMA OutputTyped ==
    ASSUME NEW f, NEW i \in Nat
    PROVE  Output(f, i) \in Seq(Entry)
<1>1. <<>> \in Seq(Entry)
  OBVIOUS
<1>2. \A x \in Entry : <<x>> \in Seq(Entry)
  OBVIOUS
<1>3. <<"out", i>> \in Entry /\ <<"mark", i>> \in Entry
  BY DEF Entry
<1>4. CASE f[i] = "plain"
  BY <1>2, <1>3, <1>4, OutputIs
<1>5. CASE f[i] = "mark"
  BY <1>2, <1>3, <1>5, OutputIs
<1>6. CASE f[i] \notin {"plain", "mark"}
  BY <1>1, <1>6, OutputIs
<1> QED
  BY <1>4, <1>5, <1>6

LEMMA TwoTyped ==
    ASSUME NEW i \in Nat
    PROVE  /\ <<Prompt(i), FileLine(i)>> \in Seq(Entry)
           /\ <<Prompt(i)>> \in Seq(Entry) /\ <<FileLine(i)>> \in Seq(Entry)
<1>1. Prompt(i) \in Entry /\ FileLine(i) \in Entry
  BY DEF Prompt, FileLine, Entry
<1> QED
  BY <1>1

LEMMA TurnTyped ==
    ASSUME NEW f, NEW t \in Seq(Entry), NEW i \in Nat
    PROVE  Turn(f, t, i) \in Seq(Entry)
<1>1. PICK two \in Seq(Entry) : two = <<Prompt(i), FileLine(i)>>
  BY TwoTyped
<1>2. PICK out \in Seq(Entry) : out = Output(f, i)
  BY OutputTyped
<1>3. t \o two \in Seq(Entry)
  BY ConcatProperties
<1>4. (t \o two) \o out \in Seq(Entry)
  BY <1>3, ConcatProperties
<1> QED
  BY <1>1, <1>2, <1>4 DEF Turn

(* w has the conversation after each line, up to n.                         *)
WalksTold(w, f, n) ==
    /\ w \in [0..n -> Seq(Entry)]
    /\ w[0] = <<>>
    /\ \A i \in 1..n : w[i] = Turn(f, w[i - 1], i)
    /\ w[n] = Told(f, n)

LEMMA ToldWalks ==
    ASSUME NEW f, NEW n \in Nat
    PROVE  \E w : WalksTold(w, f, n)
<1> DEFINE Said == Seq(Entry)
           Do(t, i) == t \o <<Prompt(i), FileLine(i)>> \o Output(f, i)
           seq == [i \in 1..n |-> i]
           step == [x \in Said \X (1..n) |-> Do(x[1], seq[x[2]])]
           Loop(g) == g = [s \in SUBSET DOMAIN seq |->
                             IF s = {} THEN <<>> ELSE Do(g[s \ {Max(s)}], seq[Max(s)])]
           iter == CHOOSE g : Loop(g)
<1>1. DOMAIN seq = 1..n /\ \A i \in 1..n : seq[i] = i /\ i \in Nat
  OBVIOUS
<1>2. ASSUME NEW t \in Said, NEW i \in 1..n PROVE Do(t, i) \in Said
  BY TurnTyped DEF Turn
<1>3. <<>> \in Said
  OBVIOUS
<1> HIDE DEF Do, seq, Said
<1>4. step \in [Said \X (1..n) -> Said]
  BY <1>1, <1>2
<1>5. \E g : Loop(g)
  <2>1. PICK g \in [SUBSET (1..n) -> Said] : Folding(n, <<>>, step, g)
    <3> HIDE DEF step
    <3> QED
      BY <1>3, <1>4, FoldingExists
  <2>2. ASSUME NEW s \in SUBSET (1..n), s # {}
        PROVE  g[s] = Do(g[s \ {Max(s)}], seq[Max(s)])
    <3>1. Max(s) \in s
      BY <2>2, MaxIsIn
    <3>2. <<g[s \ {Max(s)}], Max(s)>> \in Said \X (1..n)
      BY <3>1, <2>1
    <3>3. g[s] = step[<<g[s \ {Max(s)}], Max(s)>>]
      BY <2>2, <2>1 DEF Folding
    <3> QED
      BY <3>2, <3>3
  <2>3. g[{}] = <<>>
    BY <2>1 DEF Folding
  <2>4. Loop(g)
    BY <2>1, <2>2, <2>3, <1>1
  <2> QED
    BY <2>4
<1>6. Loop(iter)
  <2> HIDE DEF Loop
  <2> QED
    BY <1>5, Zenon
<1>7. Told(f, n) = iter[DOMAIN seq]
  BY Zenon DEF Told, FoldLeft, MapThenFoldSet, Do, seq
<1> HIDE DEF iter
<1>8. iter[{}] = <<>>
  BY <1>6
<1>9. ASSUME NEW i \in 1..n, iter[1..i - 1] \in Said
      PROVE  iter[1..i] = step[<<iter[1..i - 1], i>>]
  <2>1. Max(1..i) = i /\ (1..i) \ {i} = 1..i - 1 /\ 1..i # {}
    BY <1>1, MaxUpTo
  <2>2. 1..i \in SUBSET DOMAIN seq
    BY <1>1
  <2>3. iter[1..i] = Do(iter[(1..i) \ {Max(1..i)}], seq[Max(1..i)])
    BY <1>6, <2>1, <2>2
  <2>4. step[<<iter[1..i - 1], i>>] = Do(iter[1..i - 1], seq[i])
    BY <1>9
  <2> HIDE DEF step
  <2> QED
    BY <2>1, <2>3, <2>4
<1>10. PICK w : WalksBy(w, n, Said, <<>>, step, iter[1..n])
  <2> HIDE DEF step
  <2> QED
    BY <1>3, <1>4, <1>8, <1>9, FoldingWalks
<1>11. w \in [0..n -> Said] /\ w[0] = <<>> /\ w[n] = iter[1..n]
  BY <1>10 DEF WalksBy
<1>12. ASSUME NEW i \in 1..n
       PROVE  w[i] = Turn(f, w[i - 1], i)
  <2>1. i - 1 \in 0..n
    OBVIOUS
  <2>2. <<w[i - 1], i>> \in Said \X (1..n)
    BY <1>11, <2>1
  <2>3. w[i] = step[<<w[i - 1], i>>]
    BY <1>10 DEF WalksBy
  <2>4. w[i] = Do(w[i - 1], i)
    BY <1>1, <2>2, <2>3
  <2> QED
    BY <2>4 DEF Do, Turn
<1>13. w[n] = Told(f, n)
  BY <1>1, <1>7, <1>11
<1> HIDE DEF step, Loop
<1>14. WalksTold(w, f, n)
  BY <1>11, <1>12, <1>13 DEF WalksTold, Said
<1> QED
  BY <1>14

LEMMA ToldStart == ASSUME NEW f PROVE Told(f, 0) = <<>>
<1>1. PICK w : WalksTold(w, f, 0)
  BY ToldWalks
<1> QED
  BY <1>1 DEF WalksTold

LEMMA ToldTyped == ASSUME NEW f, NEW n \in Nat PROVE Told(f, n) \in Seq(Entry)
<1>1. PICK w : WalksTold(w, f, n)
  BY ToldWalks
<1>2. n \in 0..n
  OBVIOUS
<1> QED
  BY <1>1, <1>2 DEF WalksTold

LEMMA ToldStep ==
    ASSUME NEW f, NEW n \in Nat
    PROVE  Told(f, n + 1) = Turn(f, Told(f, n), n + 1)
<1>1. PICK w : WalksTold(w, f, n)
  BY ToldWalks
<1>2. PICK v : WalksTold(v, f, n + 1)
  BY ToldWalks
<1> DEFINE T == {i \in 0..n : w[i] = v[i]}
<1>3. 0 \in T
  BY <1>1, <1>2 DEF WalksTold
<1>4. ASSUME NEW i \in 0..n, i < n, i \in T PROVE i + 1 \in T
  <2>1. i + 1 \in 1..n /\ i + 1 \in 1..n + 1 /\ (i + 1) - 1 = i /\ i + 1 \in 0..n
    BY <1>4
  <2>2. w[i + 1] = Turn(f, w[i], i + 1)
    BY <1>1, <2>1 DEF WalksTold
  <2>3. v[i + 1] = Turn(f, v[i], i + 1)
    BY <1>2, <2>1 DEF WalksTold
  <2> QED
    BY <1>4, <2>1, <2>2, <2>3
<1>5. n \in T
  <2> HIDE DEF T
  <2>1. 0..n \subseteq T
    BY <1>3, <1>4, UpTo
  <2> QED
    BY <2>1
<1>6. n + 1 \in 1..n + 1 /\ (n + 1) - 1 = n
  OBVIOUS
<1>7. v[n + 1] = Turn(f, v[n], n + 1)
  BY <1>2, <1>6 DEF WalksTold
<1>8. w[n] = Told(f, n) /\ v[n + 1] = Told(f, n + 1)
  BY <1>1, <1>2 DEF WalksTold
<1> QED
  BY <1>5, <1>7, <1>8
-----------------------------------------------------------------------------
(* A sequence and one it goes on in.                                        *)
GoesOn(p, t) == Len(p) <= Len(t) /\ \A i \in 1..Len(p) : p[i] = t[i]

LEMMA GoesOnIs ==
    ASSUME NEW S, NEW p \in Seq(S), NEW t \in Seq(S), GoesOn(p, t)
    PROVE  IsPrefix(p, t)
<1>1. PICK n \in Nat : n = Len(p)
  OBVIOUS
<1>2. PICK a : a = SubSeq(p, 1, n)
  OBVIOUS
<1>3. PICK b : b = SubSeq(t, 1, n)
  OBVIOUS
<1>4. \A i \in 1..n : p[i] \in S /\ t[i] \in S /\ p[i] = t[i]
  BY <1>1 DEF GoesOn
<1>5. a \in Seq(S) /\ Len(a) = n /\ \A i \in 1..n : a[i] = p[i]
  BY <1>2, <1>4
<1>6. b \in Seq(S) /\ Len(b) = n /\ \A i \in 1..n : b[i] = t[i]
  BY <1>3, <1>4
<1>7. a = b
  BY <1>4, <1>5, <1>6
<1> QED
  BY <1>1, <1>2, <1>3, <1>7 DEF IsPrefix, GoesOn

LEMMA GoesOnJoin ==
    ASSUME NEW S, NEW p \in Seq(S), NEW q \in Seq(S)
    PROVE  GoesOn(p, p \o q)
  BY DEF GoesOn

LEMMA GoesOnOn ==
    ASSUME NEW S, NEW p \in Seq(S), NEW q \in Seq(S), NEW t \in Seq(S), GoesOn(p, q), GoesOn(q, t)
    PROVE  GoesOn(p, t)
  BY DEF GoesOn

LEMMA ToldGoesOn ==
    ASSUME NEW f, NEW n \in Nat, NEW i \in 0..n
    PROVE  GoesOn(Told(f, i), Told(f, n))
<1> DEFINE T == {m \in 0..n : i <= m => GoesOn(Told(f, i), Told(f, m))}
<1>1. i \in Nat /\ Told(f, i) \in Seq(Entry)
  BY ToldTyped
<1>2. 0 \in T
  <2>1. GoesOn(Told(f, i), Told(f, i))
    BY <1>1 DEF GoesOn
  <2>2. i <= 0 => i = 0
    BY <1>1
  <2> QED
    BY <2>1, <2>2
<1>3. ASSUME NEW m \in 0..n, m < n, m \in T PROVE m + 1 \in T
  <2>1. m \in Nat /\ m + 1 \in 0..n
    BY <1>3
  <2>2. CASE i <= m
    <3>1. PICK a \in Seq(Entry) : a = Told(f, m)
      BY <2>1, ToldTyped
    <3>2. PICK two \in Seq(Entry) : two = <<Prompt(m + 1), FileLine(m + 1)>>
      <4>1. PICK j \in Nat : j = m + 1
        BY <2>1
      <4> QED
        BY <4>1, TwoTyped
    <3>3. PICK out \in Seq(Entry) : out = Output(f, m + 1)
      BY <2>1, OutputTyped
    <3>4. PICK b \in Seq(Entry) : b = a \o two
      BY ConcatProperties
    <3>5. PICK c \in Seq(Entry) : c = b \o out
      BY ConcatProperties
    <3>6. GoesOn(a, b) /\ GoesOn(b, c)
      BY <3>4, <3>5, GoesOnJoin
    <3>7. GoesOn(Told(f, i), a)
      BY <1>3, <2>2, <3>1
    <3>8. c = Told(f, m + 1)
      BY <2>1, <3>1, <3>2, <3>3, <3>4, <3>5, ToldStep DEF Turn
    <3>9. GoesOn(Told(f, i), a) /\ GoesOn(a, c)
      BY <3>6, <3>7, GoesOnOn
    <3>10. GoesOn(Told(f, i), c)
      BY <1>1, <3>9, GoesOnOn
    <3> QED
      BY <2>1, <3>8, <3>10
  <2>3. CASE i = m + 1
    <3>1. GoesOn(Told(f, i), Told(f, i))
      BY <1>1 DEF GoesOn
    <3> QED
      BY <2>1, <2>3, <3>1
  <2>4. CASE i > m + 1
    BY <2>1, <2>4
  <2> QED
    BY <1>1, <2>1, <2>2, <2>3, <2>4
<1>4. 0..n \subseteq T
  <2> HIDE DEF T
  <2> QED
    BY <1>2, <1>3, UpTo
<1> QED
  BY <1>4, <1>1

-----------------------------------------------------------------------------
(* One session, as its values: the file f, the operation o, the k lines     *)
(* taken, data d, the page p, and what is on its way in each direction.     *)
Kind == {"quiet", "plain", "mark", "exit"}
Came(f) == {"prompt", "out", "mark"} \X (0..Len(f) + 1)
Sent(f) == ({"line"} \X (1..Len(f))) \cup ({"part", "junk"} \X (0..Len(f) + 1))
Put(f) == {"prompt", "out", "mark", "line"} \X (0..Len(f) + 1)

Typed(f, k, d, p, toS, toC) ==
    /\ k \in 0..Len(f)
    /\ d \in Seq(Sent(f)) /\ p \in Seq(Put(f)) /\ toS \in Seq(Sent(f)) /\ toC \in Seq(Came(f))

(* The lines on the page are the first k, and there are as many signs.      *)
IsLine == {"line"} \X Nat
IsSign == {"prompt", "mark"} \X Nat
Counted(k, p) ==
    /\ Among(p, IsLine) = [i \in 1..k |-> FileLine(i)]
    /\ k <= Len(Among(p, IsSign))

(* Nothing follows an exit, so output never goes to the shell of a file     *)
(* that has one.                                                            *)
NoExit(f, k) == \A i \in 1..k : f[i] # "exit"
NoJunk(d) == \A i \in 1..Len(d) : d[i] # Junk
Exiting(f, o, k, d, toS) ==
    /\ ~NoExit(f, Len(f)) => NoJunk(d) /\ NoJunk(toS)
    /\ o \in {"resolve", "connect", "reply", "read"} => NoExit(f, k)
    /\ o = "write" => NoExit(f, k) \/ (k > 0 /\ d = <<FileLine(k)>> /\ NoExit(f, k - 1))

(* Without a '%' in an output: what is on its way continues the page.       *)
Before(f, k) == IF k = 0 THEN <<>> ELSE Told(f, k - 1) \o <<Prompt(k), FileLine(k)>>
LineSent(k) == IF k = 0 THEN <<>> ELSE <<FileLine(k)>>
Waits(f, k, p, toS, toC) ==
    /\ p = Before(f, k) /\ toC = <<>>
    /\ toS = <<>> \/ (k > 0 /\ toS \in {<<FileLine(k)>>, <<Part(k)>>})
Prompted(f, k, p, toS, toC) ==
    p = Told(f, k) /\ toC = <<Prompt(k + 1)>> /\ toS = <<>>
Replies(f, k, p, toS, toC) ==
    /\ k > 0 /\ f[k] = "plain" /\ p = Before(f, k)
    /\ toC = << <<"out", k>>, Prompt(k + 1) >> /\ toS = <<>>

Conversed(f, o, k, d, p, toS, toC) ==
    /\ p = Before(f, k) \/ p = Told(f, k)
    /\ d = LineSent(k)
    /\ o \in {"resolve", "connect", "reply"} => k = 0 /\ toS = <<>> /\ toC = <<>>
    /\ o = "write" => k > 0 /\ p = Before(f, k) /\ toS = <<>> /\ toC = <<>>
    /\ o = "read" => \/ Waits(f, k, p, toS, toC) \/ Prompted(f, k, p, toS, toC)
                     \/ Replies(f, k, p, toS, toC)

NoMark(f) == \A i \in 1..Len(f) : f[i] # "mark"
Talks(f, o, k, d, p, toS, toC) ==
    ~NoExit(f, Len(f)) /\ NoMark(f) => Conversed(f, o, k, d, p, toS, toC)

Well(f, o, k, d, p, toS, toC) ==
    /\ Typed(f, k, d, p, toS, toC) /\ Counted(k, p) /\ Exiting(f, o, k, d, toS)
    /\ Talks(f, o, k, d, p, toS, toC)
-----------------------------------------------------------------------------
LEMMA Wider == ASSUME NEW S, NEW T, S \subseteq T, NEW s \in Seq(S) PROVE s \in Seq(T)
  OBVIOUS

LEMMA Pieces ==
    ASSUME NEW S, NEW s \in Seq(S), NEW n \in 1..Len(s)
    PROVE  SubSeq(s, 1, n) \in Seq(S) /\ SubSeq(s, n + 1, Len(s)) \in Seq(S)
<1>1. PICK N \in Nat : N = Len(s)
  OBVIOUS
<1>2. n \in Int /\ n + 1 \in Int /\ N \in Int /\ n <= N /\ n >= 1
  BY <1>1
<1>3. \A i \in 1..N : s[i] \in S
  BY <1>1
<1>4. \A i \in 1..n : s[i] \in S
  BY <1>2, <1>3
<1>5. PICK m \in Int : m = n + 1
  BY <1>2
<1>6. \A i \in m..N : s[i] \in S
  BY <1>2, <1>3, <1>5
<1>7. SubSeq(s, 1, n) \in Seq(S)
  BY <1>2, <1>4, SubSeqProperties
<1>8. SubSeq(s, m, N) \in Seq(S)
  BY <1>2, <1>6, SubSeqProperties
<1> QED
  BY <1>1, <1>5, <1>7, <1>8

LEMMA OneElement ==
    ASSUME NEW S, NEW x \in S
    PROVE  <<x>> \in Seq(S) /\ Len(<<x>>) = 1 /\ <<x>>[1] = x
<1>1. Len(<<x>>) = 1 /\ <<x>>[1] = x
  OBVIOUS
<1>2. <<x>> \in Seq(S)
  OBVIOUS
<1> QED
  BY <1>1, <1>2

LEMMA TwoElements ==
    ASSUME NEW S, NEW x \in S, NEW y \in S
    PROVE  /\ <<x, y>> \in Seq(S) /\ Len(<<x, y>>) = 2 /\ <<x, y>>[1] = x /\ <<x, y>>[2] = y
           /\ <<x, y>> = <<x>> \o <<y>>
<1>1. Len(<<x, y>>) = 2 /\ <<x, y>>[1] = x /\ <<x, y>>[2] = y
  OBVIOUS
<1>2. <<x, y>> \in Seq(S)
  OBVIOUS
<1>3. <<x, y>> = <<x>> \o <<y>>
  <2>1. PICK a \in Seq(S) : a = <<x>> /\ Len(a) = 1 /\ a[1] = x
    BY OneElement
  <2>2. PICK b \in Seq(S) : b = <<y>> /\ Len(b) = 1 /\ b[1] = y
    BY OneElement
  <2>3. PICK c \in Seq(S) : c = a \o b /\ Len(c) = 2 /\ c[1] = x /\ c[2] = y
    <3>1. PICK c \in Seq(S) : c = a \o b
      BY ConcatProperties
    <3>2. Len(c) = 1 + 1 /\ \A i \in 1..1 + 1 : c[i] = IF i <= 1 THEN a[i] ELSE b[i - 1]
      BY <2>1, <2>2, <3>1, ConcatProperties
    <3>3. Len(c) = 2 /\ c[1] = x /\ c[2] = y
      BY <2>1, <2>2, <3>2
    <3> QED
      BY <3>1, <3>3
  <2>4. PICK t \in Seq(S) : t = <<x, y>> /\ Len(t) = 2 /\ t[1] = x /\ t[2] = y
    BY <1>1, <1>2
  <2>5. t = c
    BY <2>3, <2>4
  <2> QED
    BY <2>1, <2>2, <2>3, <2>4, <2>5
<1> QED
  BY <1>1, <1>2, <1>3

LEMMA IsOneElement ==
    ASSUME NEW S, NEW s \in Seq(S), Len(s) = 1
    PROVE  s = <<s[1]>>
  OBVIOUS

LEMMA CutOne ==
    ASSUME NEW x, NEW n \in 1..Len(<<x>>)
    PROVE  /\ SubSeq(<<x>>, 1, n) = <<x>> /\ SubSeq(<<x>>, n + 1, Len(<<x>>)) = <<>>
           /\ n = 1
<1>1. PICK s \in Seq({x}) : s = <<x>> /\ Len(s) = 1 /\ s[1] = x
  BY OneElement
<1>2. n = 1
  BY <1>1
<1>3. SubSeq(s, 1, 1) = s
  BY <1>1, SubSeqFull
<1>4. SubSeq(s, 2, 1) = <<>>
  BY SubSeqEmpty
<1> QED
  BY <1>1, <1>2, <1>3, <1>4

LEMMA CutTwo ==
    ASSUME NEW x, NEW y, NEW n \in 1..Len(<<x, y>>)
    PROVE  \/ /\ SubSeq(<<x, y>>, 1, n) = <<x>> /\ SubSeq(<<x, y>>, n + 1, Len(<<x, y>>)) = <<y>>
              /\ n = 1
           \/ /\ SubSeq(<<x, y>>, 1, n) = <<x, y>>
              /\ SubSeq(<<x, y>>, n + 1, Len(<<x, y>>)) = <<>>
              /\ n = 2
<1>1. PICK s \in Seq({x, y}) : s = <<x, y>> /\ Len(s) = 2 /\ s[1] = x /\ s[2] = y
  <2>1. PICK T : T = {x, y}
    OBVIOUS
  <2>2. x \in T /\ y \in T
    BY <2>1
  <2>3. /\ <<x, y>> \in Seq(T) /\ Len(<<x, y>>) = 2 /\ <<x, y>>[1] = x /\ <<x, y>>[2] = y
    BY <2>2, TwoElements
  <2> QED
    BY <2>1, <2>3
<1>2. \A i \in 1..2 : s[i] \in {x, y}
  BY <1>1
<1>3. SubSeq(s, 1, 1) = <<x>>
  <2>1. PICK a : a = SubSeq(s, 1, 1)
    OBVIOUS
  <2>2. \A i \in 1..1 : s[i] \in {x, y}
    BY <1>2
  <2>3. a \in Seq({x, y}) /\ Len(a) = 1 /\ a[1] = s[1]
    BY <2>1, <2>2, SubSeqProperties
  <2> QED
    BY <1>1, <2>1, <2>3, IsOneElement
<1>4. SubSeq(s, 2, 2) = <<y>>
  <2>1. PICK a : a = SubSeq(s, 2, 2)
    OBVIOUS
  <2>2. \A i \in 2..2 : s[i] \in {x, y}
    BY <1>2
  <2>3. a \in Seq({x, y}) /\ Len(a) = 1 /\ a[1] = s[2]
    BY <2>1, <2>2, SubSeqProperties
  <2> QED
    BY <1>1, <2>1, <2>3, IsOneElement
<1>5. SubSeq(s, 1, 2) = s
  BY <1>1, SubSeqFull
<1>6. SubSeq(s, 3, 2) = <<>>
  BY SubSeqEmpty
<1>7. n = 1 \/ n = 2
  BY <1>1
<1>8. 1 + 1 = 2 /\ 2 + 1 = 3
  OBVIOUS
<1> QED
  BY <1>1, <1>3, <1>4, <1>5, <1>6, <1>7, <1>8

LEMMA CameIs ==
    ASSUME NEW f \in Seq(Kind)
    PROVE  /\ Came(f) \subseteq Put(f) /\ Came(f) \subseteq Entry /\ Put(f) \subseteq Entry
           /\ Sent(f) \subseteq Entry /\ Len(f) \in Nat
  BY DEF Came, Put, Sent, Entry

(* The tellings have the types of the page.                                 *)
LEMMA LineIs ==
    ASSUME NEW f \in Seq(Kind), NEW i \in 1..Len(f)
    PROVE  /\ FileLine(i) \in Sent(f) /\ FileLine(i) \in Put(f) /\ FileLine(i) \in IsLine
           /\ FileLine(i) \notin IsSign /\ FileLine(i) # Junk /\ Part(i) # Junk
           /\ Part(i) \in Sent(f) /\ <<"out", i>> \in Came(f) /\ <<"mark", i>> \in Came(f)
           /\ Prompt(i) \in Came(f) /\ Prompt(i + 1) \in Came(f)
           /\ Prompt(1) \in Came(f)
  BY DEF FileLine, Part, Junk, Prompt, Sent, Put, Came, IsLine, IsSign

-----------------------------------------------------------------------------
LEMMA SignsAre ==
    ASSUME NEW f, NEW text \in Seq(Came(f)), f \in Seq(Kind)
    PROVE  /\ Among(text, IsLine) = <<>>
           /\ check_read(text) => Len(Among(text, IsSign)) >= 1
<1>1. \A n \in 1..Len(text) : text[n] \in Came(f)
  OBVIOUS
<1>2. \A n \in 1..Len(text) : text[n] \notin IsLine
  BY <1>1 DEF Came, IsLine
<1>3. Among(text, IsLine) = <<>>
  BY <1>2, AmongNone
<1>4. ASSUME check_read(text) PROVE Len(Among(text, IsSign)) >= 1
  <2>1. PICK n \in 1..Len(text) : text[n][1] \in {"prompt", "mark"}
    BY <1>4 DEF check_read
  <2>2. text[n] \in {"prompt", "mark"} \X Nat
    BY <1>1, <2>1, CameIs DEF Came
  <2>3. text[n] \in IsSign
    BY <2>2 DEF IsSign
  <2> QED
    BY <2>3, AmongSome
<1> QED
  BY <1>3, <1>4

LEMMA JoinOfEntries ==
    \A a, b \in Seq(Entry) : \A wanted :
        Among(a \o b, wanted) = Among(a, wanted) \o Among(b, wanted)
  BY AmongJoin

LEMMA CountedOn ==
    ASSUME NEW f \in Seq(Kind), NEW k \in Nat, NEW p \in Seq(Put(f)), NEW text \in Seq(Came(f)),
           Counted(k, p)
    PROVE  Counted(k, p \o text)
<1>1. p \in Seq(Entry) /\ text \in Seq(Entry)
  BY CameIs, Wider
<1>2. Among(p \o text, IsLine) = Among(p, IsLine) \o Among(text, IsLine)
  BY <1>1, JoinOfEntries
<1>3. Among(p \o text, IsSign) = Among(p, IsSign) \o Among(text, IsSign)
  BY <1>1, JoinOfEntries
<1>4. Among(p \o text, IsLine) = Among(p, IsLine)
  <2>1. Among(text, IsLine) = <<>>
    BY SignsAre
  <2>2. Among(p, IsLine) \in Seq(Entry)
    BY <1>1, AmongLeaves
  <2> QED
    BY <1>2, <2>1, <2>2, ConcatEmptySeq
<1>5. Len(Among(p, IsSign)) <= Len(Among(p \o text, IsSign))
  <2>1. PICK a \in Seq(Entry) : a = Among(p, IsSign)
    BY <1>1, AmongLeaves
  <2>2. PICK b \in Seq(Entry) : b = Among(text, IsSign)
    BY <1>1, AmongLeaves
  <2>3. Len(a) <= Len(a \o b)
    BY ConcatProperties
  <2> QED
    BY <1>3, <2>1, <2>2, <2>3
<1>6. Len(Among(p, IsSign)) \in Nat /\ Len(Among(p \o text, IsSign)) \in Nat
  <2>1. p \o text \in Seq(Entry)
    BY <1>1, ConcatProperties
  <2>2. Among(p, IsSign) \in Seq(Entry) /\ Among(p \o text, IsSign) \in Seq(Entry)
    BY <1>1, <2>1, AmongLeaves
  <2> QED
    BY <2>2
<1>7. k <= Len(Among(p, IsSign)) /\ Among(p, IsLine) = [i \in 1..k |-> FileLine(i)]
  BY DEF Counted
<1>8. k <= Len(Among(p \o text, IsSign))
  BY <1>5, <1>6, <1>7
<1> QED
  BY <1>4, <1>7, <1>8 DEF Counted

LEMMA OneBehind ==
    ASSUME NEW S, NEW s \in Seq(S), NEW x \in S
    PROVE  /\ s \o <<x>> \in Seq(S) /\ Len(s \o <<x>>) = Len(s) + 1
           /\ \A j \in 1..Len(s) : (s \o <<x>>)[j] = s[j]
           /\ (s \o <<x>>)[Len(s) + 1] = x
<1>1. Append(s, x) = s \o <<x>>
  BY AppendIsConcat
<1> QED
  BY <1>1, AppendProperties

(* One line more at the end of the page. *)
LEMMA CountedLine ==
    ASSUME NEW f \in Seq(Kind), NEW k \in Nat, NEW p \in Seq(Entry), k + 1 <= Len(f),
           Among(p, IsLine) = [i \in 1..k |-> FileLine(i)], k + 1 <= Len(Among(p, IsSign))
    PROVE  Counted(k + 1, p \o <<FileLine(k + 1)>>)
<1>1. PICK i \in 1..Len(f) : i = k + 1
  BY CameIs
<1>2. PICK x \in Entry : x = FileLine(i) /\ x \in IsLine /\ x \notin IsSign
  BY LineIs, CameIs
<1>3. PICK line : line = <<x>>
  OBVIOUS
<1>4. line \in Seq(Entry) /\ Len(line) = 1 /\ line[1] = x
  BY <1>3, OneElement
<1>5. Among(line, IsLine) = line /\ Among(line, IsSign) = <<>>
  BY <1>2, <1>3, AmongOne
<1>6. Among(p \o line, IsLine) = Among(p, IsLine) \o line
  <2>1. Among(p \o line, IsLine) = Among(p, IsLine) \o Among(line, IsLine)
    BY <1>4, JoinOfEntries
  <2> QED
    BY <1>5, <2>1
<1>7. Among(p \o line, IsSign) = Among(p, IsSign) \o <<>>
  <2>1. Among(p \o line, IsSign) = Among(p, IsSign) \o Among(line, IsSign)
    BY <1>4, JoinOfEntries
  <2> QED
    BY <1>5, <2>1
<1>8. Among(p, IsSign) \in Seq(Entry) /\ Among(p, IsLine) \in Seq(Entry)
  BY AmongLeaves
<1>9. Among(p \o line, IsSign) = Among(p, IsSign)
  BY <1>7, <1>8, ConcatEmptySeq
<1>10. Among(p, IsLine) \o line = [j \in 1..k + 1 |-> FileLine(j)]
  <2>1. PICK L \in Seq(Entry) : L = Among(p, IsLine)
    BY <1>8
  <2>2. Len(L) = k /\ \A j \in 1..k : L[j] = FileLine(j)
    BY <2>1
  <2>3. PICK M \in Seq(Entry) : /\ M = L \o line /\ Len(M) = Len(L) + 1
                                /\ \A j \in 1..Len(L) : M[j] = L[j]
                                /\ M[Len(L) + 1] = x
    BY <1>3, OneBehind
  <2>4. Len(M) = k + 1 /\ M[k + 1] = FileLine(k + 1) /\ \A j \in 1..k : M[j] = FileLine(j)
    BY <1>1, <1>2, <2>2, <2>3
  <2>5. \A j \in 1..k + 1 : M[j] = FileLine(j)
    <3>1. \A j \in 1..k + 1 : j \in 1..k \/ j = k + 1
      OBVIOUS
    <3> QED
      BY <2>4, <3>1
  <2>6. M = [j \in 1..k + 1 |-> M[j]]
    BY <2>4
  <2> QED
    BY <2>1, <2>3, <2>5, <2>6
<1>11. Counted(k + 1, p \o line)
  BY <1>6, <1>9, <1>10 DEF Counted
<1> QED
  BY <1>1, <1>2, <1>3, <1>11

LEMMA CountedMore ==
    ASSUME NEW f \in Seq(Kind), NEW k \in Nat, NEW p \in Seq(Put(f)), NEW text \in Seq(Came(f)),
           Counted(k, p), check_read(text), k + 1 <= Len(f)
    PROVE  Counted(k + 1, p \o (text \o <<FileLine(k + 1)>>))
<1>1. p \in Seq(Entry) /\ text \in Seq(Entry)
  BY CameIs, Wider
<1>2. Counted(k, p \o text)
  BY CountedOn
<1>3. Among(p \o text, IsSign) = Among(p, IsSign) \o Among(text, IsSign)
  BY <1>1, JoinOfEntries
<1>4. k + 1 <= Len(Among(p \o text, IsSign))
  <2>1. PICK a \in Seq(Entry) : a = Among(p, IsSign)
    BY <1>1, AmongLeaves
  <2>2. PICK b \in Seq(Entry) : b = Among(text, IsSign)
    BY <1>1, AmongLeaves
  <2>3. Len(b) >= 1 /\ k <= Len(a)
    BY <2>1, <2>2, SignsAre DEF Counted
  <2>4. Len(a \o b) = Len(a) + Len(b) /\ Len(a) \in Nat /\ Len(b) \in Nat
    BY ConcatProperties
  <2>5. k + 1 <= Len(a \o b)
    BY <2>3, <2>4
  <2> QED
    BY <1>3, <2>1, <2>2, <2>5
<1>5. PICK q \in Seq(Entry) : q = p \o text
  BY <1>1, ConcatProperties
<1>6. Counted(k + 1, q \o <<FileLine(k + 1)>>)
  BY <1>2, <1>4, <1>5, CountedLine DEF Counted
<1>7. p \o (text \o <<FileLine(k + 1)>>) = (p \o text) \o <<FileLine(k + 1)>>
  <2>1. PICK line \in Seq(Entry) : line = <<FileLine(k + 1)>>
    <3>1. k + 1 \in Nat
      OBVIOUS
    <3> QED
      BY <3>1, TwoTyped
  <2>2. (p \o text) \o line = p \o (text \o line)
    BY <1>1, ConcatAssociative
  <2> QED
    BY <2>1, <2>2
<1> QED
  BY <1>5, <1>6, <1>7

-----------------------------------------------------------------------------
Starting == {"resolve", "connect", "reply"}

(* The steps of a session, as steps of its values.                          *)
LEMMA StartWell ==
    ASSUME NEW f \in Seq(Kind)
    PROVE  Well(f, "resolve", 0, <<>>, <<>>, <<>>, <<>>)
<1>1. Typed(f, 0, <<>>, <<>>, <<>>, <<>>)
  BY DEF Typed
<1>2. Counted(0, <<>>)
  <2>1. PICK e \in Seq(Entry) : e = <<>>
    <3>1. <<>> \in Seq(Entry)
      OBVIOUS
    <3> QED
      BY <3>1
  <2>2. 1..Len(e) = {}
    BY <2>1
  <2>3. \A n \in 1..Len(e) : e[n] \notin IsLine /\ e[n] \notin IsSign
    BY <2>2
  <2>4. Among(e, IsLine) = <<>> /\ Among(e, IsSign) = <<>>
    BY <2>3, AmongNone
  <2>5. [i \in 1..0 |-> FileLine(i)] = <<>>
    OBVIOUS
  <2> QED
    BY <2>1, <2>4, <2>5 DEF Counted
<1>3. Exiting(f, "resolve", 0, <<>>, <<>>)
  BY DEF Exiting, NoJunk, NoExit
<1>4. Talks(f, "resolve", 0, <<>>, <<>>, <<>>, <<>>)
  BY DEF Talks, Conversed, Before, LineSent
<1> QED
  BY <1>1, <1>2, <1>3, <1>4 DEF Well

LEMMA IdleWell ==
    ASSUME NEW f, NEW o, NEW k, NEW d, NEW p, NEW toS, NEW toC, NEW o2,
           Well(f, o, k, d, p, toS, toC),
           o2 = "none" \/ (o = "resolve" /\ o2 \in {"connect", "reply"})
    PROVE  Well(f, o2, k, d, p, toS, toC)
<1>1. Exiting(f, o2, k, d, toS)
  BY DEF Well, Exiting
<1>2. ASSUME Conversed(f, o, k, d, p, toS, toC) PROVE Conversed(f, o2, k, d, p, toS, toC)
  <2>1. CASE o2 = "none"
    BY <1>2, <2>1 DEF Conversed
  <2>2. CASE o = "resolve" /\ o2 \in {"connect", "reply"}
    BY <1>2, <2>2 DEF Conversed
  <2> QED
    BY <2>1, <2>2
<1>3. Talks(f, o2, k, d, p, toS, toC)
  BY <1>2 DEF Well, Talks
<1> QED
  BY <1>1, <1>3 DEF Well

LEMMA GreetWell ==
    ASSUME NEW f \in Seq(Kind), NEW o \in {"connect", "reply"}, NEW k, NEW d, NEW p, NEW toS, NEW toC,
           Well(f, o, k, d, p, toS, toC), NEW toC2, toC2 = toC \/ toC2 = <<Prompt(1)>>
    PROVE  Well(f, "read", k, d, p, toS, toC2)
<1>1. Exiting(f, "read", k, d, toS)
  BY DEF Well, Exiting
<1>2. ASSUME Conversed(f, o, k, d, p, toS, toC)
      PROVE  Conversed(f, "read", k, d, p, toS, toC2)
  <2>1. k = 0 /\ toS = <<>> /\ toC = <<>> /\ d = LineSent(k)
    BY <1>2 DEF Conversed
  <2>2. p = <<>>
    BY <1>2, <2>1, ToldStart DEF Conversed, Before
  <2>3. p = Told(f, k) /\ p = Before(f, k)
    BY <2>1, <2>2, ToldStart DEF Before
  <2>4. k + 1 = 1
    BY <2>1
  <2>5. Waits(f, k, p, toS, toC2) \/ Prompted(f, k, p, toS, toC2)
    BY <2>1, <2>3, <2>4 DEF Waits, Prompted
  <2> QED
    BY <2>1, <2>3, <2>5 DEF Conversed
<1>3. Talks(f, "read", k, d, p, toS, toC2)
  BY <1>2 DEF Well, Talks
<1>4. toC2 \in Seq(Came(f))
  <2>1. Prompt(1) \in Came(f)
    BY CameIs DEF Prompt, Came
  <2>2. <<Prompt(1)>> \in Seq(Came(f))
    BY <2>1, OneElement
  <2> QED
    BY <2>2 DEF Well, Typed
<1> QED
  BY <1>1, <1>3, <1>4 DEF Well, Typed

LEMMA GoneWell ==
    ASSUME NEW f, NEW o, NEW k, NEW d, NEW p, NEW toS, NEW toC, Well(f, o, k, d, p, toS, toC)
    PROVE  Well(f, o, k, d, p, <<>>, toC)
<1>1. Exiting(f, o, k, d, <<>>)
  BY DEF Well, Exiting, NoJunk
<1>2. ASSUME Conversed(f, o, k, d, p, toS, toC) PROVE Conversed(f, o, k, d, p, <<>>, toC)
  BY <1>2 DEF Conversed, Waits, Prompted, Replies
<1>3. Talks(f, o, k, d, p, <<>>, toC)
  BY <1>2 DEF Well, Talks
<1> QED
  BY <1>1, <1>3 DEF Well, Typed

LEMMA TailHas ==
    ASSUME NEW S, NEW s \in Seq(S), s # <<>>
    PROVE  /\ Head(s) \in S /\ Head(s) = s[1] /\ 1 \in 1..Len(s)
           /\ Tail(s) \in Seq(S) /\ NoJunk(s) => NoJunk(Tail(s))
<1>1. Head(s) = s[1] /\ 1 \in 1..Len(s) /\ Head(s) \in S
  OBVIOUS
<1>2. /\ Tail(s) \in Seq(S) /\ Len(Tail(s)) = Len(s) - 1
      /\ \A i \in 1..Len(Tail(s)) : Tail(s)[i] = s[i + 1]
  BY HeadTailProperties
<1>3. ASSUME NoJunk(s), NEW i \in 1..Len(Tail(s)) PROVE Tail(s)[i] # Junk
  <2>1. i + 1 \in 1..Len(s)
    BY <1>2
  <2> QED
    BY <2>1, <1>2, <1>3 DEF NoJunk
<1> QED
  BY <1>1, <1>2, <1>3 DEF NoJunk

LEMMA ReplyTyped ==
    ASSUME NEW f \in Seq(Kind), NEW i \in 1..Len(f)
    PROVE  Append(Output(f, i), Prompt(i + 1)) \in Seq(Came(f))
<1>1. <<>> \in Seq(Came(f))
  OBVIOUS
<1>2. Output(f, i) \in Seq(Came(f))
  BY <1>1, OneElement, LineIs, OutputIs
<1> QED
  BY <1>2, LineIs, AppendProperties

LEMMA ToldIs ==
    ASSUME NEW f, NEW k \in Nat, k > 0
    PROVE  Told(f, k) = Before(f, k) \o Output(f, k)
<1>1. PICK j \in Nat : j = k - 1 /\ k = j + 1
  OBVIOUS
<1>2. Told(f, j + 1) = Turn(f, Told(f, j), j + 1)
  BY ToldStep
<1> QED
  BY <1>1, <1>2 DEF Turn, Before

LEMMA BeforeTyped ==
    ASSUME NEW f, NEW k \in Nat
    PROVE  Before(f, k) \in Seq(Entry)
<1>1. CASE k = 0
  BY <1>1 DEF Before
<1>2. CASE k > 0
  <2>1. PICK t \in Seq(Entry) : t = Told(f, k - 1)
    BY <1>2, ToldTyped
  <2>2. PICK two \in Seq(Entry) : two = <<Prompt(k), FileLine(k)>>
    BY TwoTyped
  <2>3. t \o two \in Seq(Entry)
    BY ConcatProperties
  <2> QED
    BY <1>2, <2>1, <2>2, <2>3 DEF Before
<1> QED
  BY <1>1, <1>2

LEMMA AppendOne == \A x, y : Append(<<x>>, y) = <<x, y>> /\ Append(<<>>, y) = <<y>>
<1> SUFFICES ASSUME NEW x, NEW y PROVE Append(<<x>>, y) = <<x, y>> /\ Append(<<>>, y) = <<y>>
  OBVIOUS
<1>1. PICK S : S = {x, y}
  OBVIOUS
<1>2. x \in S /\ y \in S
  BY <1>1
<1>3. <<x>> \in Seq(S) /\ <<>> \in Seq(S) /\ <<y>> \in Seq(S)
  BY <1>2, OneElement
<1>4. Append(<<x>>, y) = <<x>> \o <<y>> /\ Append(<<>>, y) = <<>> \o <<y>>
  BY <1>2, <1>3, AppendIsConcat
<1>5. <<x, y>> = <<x>> \o <<y>>
  BY <1>2, TwoElements
<1>6. <<>> \o <<y>> = <<y>>
  BY <1>3, ConcatEmptySeq
<1> QED
  BY <1>4, <1>5, <1>6

(* What the shell answers to line i. *)
AnswersWith(f, i, text) ==
    text = IF f[i] = "exit" THEN <<>> ELSE Append(Output(f, i), Prompt(i + 1))

LEMMA LineWell ==
    ASSUME NEW f \in Seq(Kind), NEW o, NEW k, NEW d, NEW p, NEW toS, NEW toC,
           Well(f, o, k, d, p, toS, toC), toS # <<>>, Head(toS)[1] = "line",
           o \in Starting \cup {"read", "write", "none"},
           NEW i, i = Head(toS)[2], NEW text, AnswersWith(f, i, text)
    PROVE  Well(f, o, k, d, p, Tail(toS), toC \o text)
<1>1. toS \in Seq(Sent(f)) /\ toC \in Seq(Came(f))
  BY DEF Well, Typed
<1>2. Head(toS) \in Sent(f) /\ Head(toS) = toS[1] /\ Tail(toS) \in Seq(Sent(f))
  BY <1>1, TailHas
<1>3. i \in 1..Len(f)
  BY <1>2 DEF Sent
<1>4. text \in Seq(Came(f))
  <2>1. <<>> \in Seq(Came(f))
    OBVIOUS
  <2> QED
    BY <1>3, <2>1, ReplyTyped DEF AnswersWith
<1>5. toC \o text \in Seq(Came(f))
  BY <1>1, <1>4, ConcatProperties
<1>6. Exiting(f, o, k, d, Tail(toS))
  BY <1>1, TailHas DEF Well, Exiting
<1>7. ASSUME Conversed(f, o, k, d, p, toS, toC), NoMark(f)
      PROVE  Conversed(f, o, k, d, p, Tail(toS), toC \o text)
  <2>1. CASE o = "none"
    BY <1>7, <2>1 DEF Conversed
  <2>2. CASE o = "read"
    <3>1. Waits(f, k, p, toS, toC)
      BY <1>7, <2>2 DEF Conversed, Prompted, Replies
    <3>2. k > 0 /\ toS \in {<<FileLine(k)>>, <<Part(k)>>} /\ p = Before(f, k) /\ toC = <<>>
      BY <3>1 DEF Waits
    <3>3. toS = <<FileLine(k)>> /\ i = k
      BY <3>2 DEF FileLine, Part
    <3>4. Tail(toS) = <<>>
      BY <3>3
    <3>5. toC \o text = text
      BY <1>4, <3>2, ConcatEmptySeq
    <3>6. f[k] # "exit" /\ f[k] # "mark" /\ k \in 1..Len(f) /\ f[k] \in Kind /\ k \in Nat
      <4>1. NoExit(f, k) /\ k \in 1..Len(f)
        BY <1>3, <2>2, <3>3 DEF Well, Exiting
      <4> QED
        BY <4>1, <1>7 DEF NoMark, NoExit
    <3>7. CASE f[k] = "plain"
      <4>1. text = << <<"out", k>>, Prompt(k + 1) >>
        <5>1. Output(f, k) = << <<"out", k>> >>
          BY <3>7, OutputIs
        <5>2. text = Append(<< <<"out", k>> >>, Prompt(k + 1))
          BY <3>3, <3>6, <5>1 DEF AnswersWith
        <5> QED
          BY <5>2, AppendOne
      <4>2. Replies(f, k, p, Tail(toS), toC \o text)
        BY <3>2, <3>4, <3>5, <3>7, <4>1 DEF Replies
      <4> QED
        BY <1>7, <2>2, <4>2 DEF Conversed
    <3>8. CASE f[k] = "quiet"
      <4>1. Output(f, k) = <<>>
        BY <3>8, OutputIs
      <4>2. text = <<Prompt(k + 1)>>
        <5>1. text = Append(<<>>, Prompt(k + 1))
          BY <3>3, <3>6, <4>1 DEF AnswersWith
        <5> QED
          BY <5>1, AppendOne
      <4>3. Told(f, k) = Before(f, k)
        <5>1. Told(f, k) = Before(f, k) \o <<>>
          BY <3>2, <3>6, <4>1, ToldIs
        <5> QED
          BY <5>1, <3>6, BeforeTyped, ConcatEmptySeq
      <4>4. Prompted(f, k, p, Tail(toS), toC \o text)
        BY <3>2, <3>4, <3>5, <4>2, <4>3 DEF Prompted
      <4> QED
        BY <1>7, <2>2, <4>4 DEF Conversed
    <3> QED
      BY <3>6, <3>7, <3>8 DEF Kind
  <2>3. CASE o \in Starting \cup {"write"}
    BY <1>7, <2>3 DEF Conversed, Starting
  <2> QED
    BY <2>1, <2>2, <2>3
<1>8. Talks(f, o, k, d, p, Tail(toS), toC \o text)
  BY <1>7 DEF Well, Talks
<1> QED
  BY <1>2, <1>5, <1>6, <1>8 DEF Well, Typed

LEMMA JunkWell ==
    ASSUME NEW f \in Seq(Kind), NEW o, NEW k, NEW d, NEW p, NEW toS, NEW toC,
           Well(f, o, k, d, p, toS, toC), toS # <<>>, Head(toS) = Junk
    PROVE  Well(f, o, k, d, p, Tail(toS), toC \o << <<"out", 0>>, Prompt(0) >>)
<1>1. toS \in Seq(Sent(f)) /\ toC \in Seq(Came(f))
  BY DEF Well, Typed
<1>2. Tail(toS) \in Seq(Sent(f)) /\ toS[1] = Junk /\ 1 \in 1..Len(toS)
  BY <1>1, TailHas
<1>3. <<"out", 0>> \in Came(f) /\ Prompt(0) \in Came(f)
  BY CameIs DEF Came, Prompt
<1>4. PICK text \in Seq(Came(f)) : text = << <<"out", 0>>, Prompt(0) >>
  BY <1>3, TwoElements
<1>5. toC \o text \in Seq(Came(f))
  BY <1>1, ConcatProperties
<1>6. Exiting(f, o, k, d, Tail(toS))
  BY <1>1, TailHas DEF Well, Exiting
<1>7. NoExit(f, Len(f))
  BY <1>2 DEF Well, Exiting, NoJunk
<1>8. Talks(f, o, k, d, p, Tail(toS), toC \o text)
  BY <1>7 DEF Talks
<1> QED
  BY <1>2, <1>4, <1>5, <1>6, <1>8 DEF Well, Typed

-----------------------------------------------------------------------------
(* The page goes on with what has come.                                     *)
LEMMA PageTyped ==
    ASSUME NEW f \in Seq(Kind), NEW p \in Seq(Put(f)), NEW text \in Seq(Came(f))
    PROVE  /\ p \o text \in Seq(Put(f)) /\ text \in Seq(Put(f))
           /\ p \in Seq(Entry) /\ text \in Seq(Entry)
<1>1. text \in Seq(Put(f)) /\ p \in Seq(Entry) /\ text \in Seq(Entry)
  BY CameIs, Wider
<1>2. p \o text \in Seq(Put(f))
  BY <1>1, ConcatProperties
<1> QED
  BY <1>1, <1>2

LEMMA SignsIn ==
    /\ \A i, k : check_read(<<Prompt(i)>>) /\ check_read(<< <<"out", k>>, Prompt(i) >>)
    /\ \A k : ~check_read(<< <<"out", k>> >>)
<1>1. ASSUME NEW i, NEW k PROVE check_read(<<Prompt(i)>>) /\ check_read(<< <<"out", k>>, Prompt(i) >>)
  <2>1. 1 \in DOMAIN <<Prompt(i)>> /\ <<Prompt(i)>>[1] = Prompt(i)
    OBVIOUS
  <2>2. 2 \in DOMAIN << <<"out", k>>, Prompt(i) >> /\ << <<"out", k>>, Prompt(i) >>[2] = Prompt(i)
    OBVIOUS
  <2>3. Prompt(i)[1] = "prompt"
    BY DEF Prompt
  <2> QED
    BY <2>1, <2>2, <2>3 DEF check_read
<1>2. ASSUME NEW k PROVE ~check_read(<< <<"out", k>> >>)
  BY DEF check_read
<1> QED
  BY <1>1, <1>2

(* What a read finds in a conversation: the prompt, with or after the output *)
Finds(f, k, p, toS, toC, text, rest) ==
    /\ toS = <<>>
    /\ \/ Prompted(f, k, p, toS, toC) /\ text = <<Prompt(k + 1)>> /\ rest = <<>>
       \/ /\ Replies(f, k, p, toS, toC)
          /\ text = << <<"out", k>> >> /\ rest = <<Prompt(k + 1)>>
       \/ /\ Replies(f, k, p, toS, toC)
          /\ text = << <<"out", k>>, Prompt(k + 1) >> /\ rest = <<>>

LEMMA Found ==
    ASSUME NEW f, NEW k, NEW p, NEW toS, NEW toC, NEW n \in 1..Len(toC),
           NEW text, text = SubSeq(toC, 1, n), NEW rest, rest = SubSeq(toC, n + 1, Len(toC)),
           Waits(f, k, p, toS, toC) \/ Prompted(f, k, p, toS, toC) \/ Replies(f, k, p, toS, toC)
    PROVE  Finds(f, k, p, toS, toC, text, rest)
<1>1. CASE Waits(f, k, p, toS, toC)
  BY <1>1 DEF Waits
<1>2. CASE Prompted(f, k, p, toS, toC)
  <2>1. toC = <<Prompt(k + 1)>> /\ toS = <<>>
    BY <1>2 DEF Prompted
  <2>2. text = <<Prompt(k + 1)>> /\ rest = <<>>
    BY <2>1, CutOne
  <2> QED
    BY <1>2, <2>1, <2>2 DEF Finds
<1>3. CASE Replies(f, k, p, toS, toC)
  <2>1. toC = << <<"out", k>>, Prompt(k + 1) >> /\ toS = <<>>
    BY <1>3 DEF Replies
  <2>2. \/ text = << <<"out", k>> >> /\ rest = <<Prompt(k + 1)>>
        \/ text = << <<"out", k>>, Prompt(k + 1) >> /\ rest = <<>>
    BY <2>1, CutTwo
  <2> QED
    BY <1>3, <2>1, <2>2 DEF Finds
<1> QED
  BY <1>1, <1>2, <1>3

(* With a sign the read takes everything, without one only the output.      *)
TakesAll(f, k, p, toS, toC, text, rest) ==
    /\ toS = <<>> /\ rest = <<>>
    /\ \/ Prompted(f, k, p, toS, toC) /\ text = <<Prompt(k + 1)>>
       \/ Replies(f, k, p, toS, toC) /\ text = << <<"out", k>>, Prompt(k + 1) >>
TakesOutput(f, k, p, toS, toC, text, rest) ==
    /\ toS = <<>> /\ Replies(f, k, p, toS, toC)
    /\ text = << <<"out", k>> >> /\ rest = <<Prompt(k + 1)>>

LEMMA FoundSign ==
    ASSUME NEW f, NEW k, NEW p, NEW toS, NEW toC, NEW text, NEW rest,
           Finds(f, k, p, toS, toC, text, rest)
    PROVE  /\ check_read(text) => TakesAll(f, k, p, toS, toC, text, rest)
           /\ ~check_read(text) => TakesOutput(f, k, p, toS, toC, text, rest)
<1>1. CASE Prompted(f, k, p, toS, toC) /\ text = <<Prompt(k + 1)>> /\ rest = <<>>
  BY <1>1, SignsIn DEF Finds, TakesAll
<1>2. CASE /\ Replies(f, k, p, toS, toC)
           /\ text = << <<"out", k>> >> /\ rest = <<Prompt(k + 1)>>
  BY <1>2, SignsIn DEF Finds, TakesOutput
<1>3. CASE /\ Replies(f, k, p, toS, toC)
           /\ text = << <<"out", k>>, Prompt(k + 1) >> /\ rest = <<>>
  BY <1>3, SignsIn DEF Finds, TakesAll
<1> QED
  BY <1>1, <1>2, <1>3 DEF Finds

LEMMA Assoc == \A a, b, c \in Seq(Entry) : (a \o b) \o c = a \o (b \o c)
  BY ConcatAssociative

(* The output of a line, or its output and the next prompt, complete it.    *)
LEMMA PlainTold ==
    ASSUME NEW f, NEW k \in Nat, k > 0, f[k] = "plain"
    PROVE  Told(f, k) = Before(f, k) \o << <<"out", k>> >>
  BY ToldIs, OutputIs

LEMMA ReadOnWell ==
    ASSUME NEW f \in Seq(Kind), NEW k, NEW d, NEW p, NEW toS, NEW toC,
           Well(f, "read", k, d, p, toS, toC), NEW n \in 1..Len(toC),
           NEW text, text = SubSeq(toC, 1, n), NEW rest, rest = SubSeq(toC, n + 1, Len(toC)),
           ~check_read(text)
    PROVE  Well(f, "read", k, d, p \o text, toS, rest)
<1>1. toC \in Seq(Came(f)) /\ p \in Seq(Put(f)) /\ k \in Nat
  BY CameIs DEF Well, Typed
<1>2. text \in Seq(Came(f)) /\ rest \in Seq(Came(f))
  BY <1>1, Pieces
<1>3. p \o text \in Seq(Put(f))
  BY <1>1, <1>2, PageTyped
<1>4. Counted(k, p \o text)
  BY <1>1, <1>2, CountedOn DEF Well
<1>5. ASSUME Conversed(f, "read", k, d, p, toS, toC)
      PROVE  Conversed(f, "read", k, d, p \o text, toS, rest)
  <2>1. Waits(f, k, p, toS, toC) \/ Prompted(f, k, p, toS, toC) \/ Replies(f, k, p, toS, toC)
    BY <1>5 DEF Conversed
  <2>2. /\ Replies(f, k, p, toS, toC) /\ toS = <<>>
        /\ text = << <<"out", k>> >> /\ rest = <<Prompt(k + 1)>>
    <3>1. Finds(f, k, p, toS, toC, text, rest)
      BY <2>1, Found
    <3>2. TakesOutput(f, k, p, toS, toC, text, rest)
      BY <3>1, FoundSign
    <3> QED
      BY <3>2 DEF TakesOutput
  <2>3. p \o text = Told(f, k)
    BY <1>1, <2>2, PlainTold DEF Replies
  <2>4. Prompted(f, k, p \o text, toS, rest)
    BY <2>2, <2>3 DEF Prompted
  <2> QED
    BY <1>5, <2>3, <2>4 DEF Conversed
<1>6. Talks(f, "read", k, d, p \o text, toS, rest)
  BY <1>5 DEF Well, Talks
<1> QED
  BY <1>2, <1>3, <1>4, <1>6 DEF Well, Typed

LEMMA CommandWell ==
    ASSUME NEW f \in Seq(Kind), NEW k, NEW d, NEW p, NEW toS, NEW toC,
           Well(f, "read", k, d, p, toS, toC), NEW n \in 1..Len(toC),
           NEW text, text = SubSeq(toC, 1, n), NEW rest, rest = SubSeq(toC, n + 1, Len(toC)),
           check_read(text), k < Len(f), NEW line, line = <<FileLine(k + 1)>>
    PROVE  Well(f, "write", k + 1, line, p \o (text \o line), toS, rest)
<1>1. /\ toC \in Seq(Came(f)) /\ p \in Seq(Put(f)) /\ k \in Nat /\ k + 1 \in 1..Len(f)
      /\ (k + 1) - 1 = k /\ k + 1 > 0 /\ k + 1 <= Len(f) /\ k + 1 \in 0..Len(f) /\ k + 1 # 0
  BY CameIs DEF Well, Typed
<1>2. text \in Seq(Came(f)) /\ rest \in Seq(Came(f))
  BY <1>1, Pieces
<1>3. PICK j \in 1..Len(f) : j = k + 1
  BY <1>1
<1>4. line \in Seq(Sent(f)) /\ line \in Seq(Put(f)) /\ line \in Seq(Entry)
  <2>1. FileLine(j) \in Sent(f) /\ FileLine(j) \in Put(f)
    BY LineIs
  <2>2. line \in Seq(Sent(f)) /\ line \in Seq(Put(f))
    BY <1>3, <2>1, OneElement
  <2> QED
    BY <2>2, CameIs, Wider
<1>5. p \o (text \o line) \in Seq(Put(f))
  <2>1. text \o line \in Seq(Put(f))
    BY <1>1, <1>2, <1>4, PageTyped, ConcatProperties
  <2> QED
    BY <1>1, <2>1, ConcatProperties
<1>6. Counted(k + 1, p \o (text \o line))
  BY <1>1, <1>2, CountedMore DEF Well
<1>7. Exiting(f, "write", k + 1, line, toS)
  <2>1. NoExit(f, k)
    BY DEF Well, Exiting
  <2>2. NoJunk(line)
    <3>1. Len(line) = 1 /\ line[1] = FileLine(k + 1)
      OBVIOUS
    <3>2. FileLine(k + 1) # Junk
      BY DEF FileLine, Junk
    <3> QED
      BY <3>1, <3>2 DEF NoJunk
  <2> QED
    BY <1>1, <2>1, <2>2 DEF Well, Exiting
<1>8. ASSUME Conversed(f, "read", k, d, p, toS, toC)
      PROVE  Conversed(f, "write", k + 1, line, p \o (text \o line), toS, rest)
  <2>1. Waits(f, k, p, toS, toC) \/ Prompted(f, k, p, toS, toC) \/ Replies(f, k, p, toS, toC)
    BY <1>8 DEF Conversed
  <2>2. PICK two : two = <<Prompt(j), FileLine(j)>> /\ two \in Seq(Entry)
    <3>1. j \in Nat
      OBVIOUS
    <3> QED
      BY <3>1, TwoTyped
  <2>3. PICK sign : sign = <<Prompt(j)>> /\ sign \in Seq(Entry)
    <3>1. j \in Nat
      OBVIOUS
    <3> QED
      BY <3>1, TwoTyped
  <2>4. sign \o line = two
    <3>1. Prompt(j) \in Entry /\ FileLine(j) \in Entry
      BY CameIs DEF Prompt, FileLine, Entry
    <3> QED
      BY <1>3, <2>2, <2>3, <3>1, TwoElements
  <2>5. Before(f, k + 1) = Told(f, k) \o two
    BY <1>1, <1>3, <2>2 DEF Before
  <2>6. p \in Seq(Entry) /\ text \in Seq(Entry)
    BY <1>1, <1>2, PageTyped
  <2>7. /\ toS = <<>> /\ rest = <<>>
        /\ \/ Prompted(f, k, p, toS, toC) /\ text = <<Prompt(k + 1)>>
           \/ Replies(f, k, p, toS, toC) /\ text = << <<"out", k>>, Prompt(k + 1) >>
    <3>1. Finds(f, k, p, toS, toC, text, rest)
      BY <2>1, Found
    <3>2. TakesAll(f, k, p, toS, toC, text, rest)
      BY <3>1, FoundSign
    <3> QED
      BY <3>2 DEF TakesAll
  <2>8. p \o (text \o line) = Before(f, k + 1)
    <3>1. CASE Prompted(f, k, p, toS, toC) /\ text = <<Prompt(k + 1)>>
      BY <1>3, <2>3, <2>4, <2>5, <3>1 DEF Prompted
    <3>2. CASE Replies(f, k, p, toS, toC) /\ text = << <<"out", k>>, Prompt(k + 1) >>
      <4>1. <<"out", k>> \in Entry /\ Prompt(j) \in Entry
        BY <1>1, CameIs DEF Prompt, Entry
      <4>2. PICK out : out = << <<"out", k>> >> /\ out \in Seq(Entry)
        BY <4>1, OneElement
      <4>3. text = out \o sign
        BY <1>3, <2>3, <3>2, <4>1, <4>2, TwoElements
      <4>4. Told(f, k) = p \o out
        BY <1>1, <3>2, <4>2, PlainTold DEF Replies
      <4>5. (out \o sign) \o line = out \o (sign \o line)
        BY <1>4, <2>3, <4>2, Assoc
      <4>6. p \o (out \o two) = (p \o out) \o two
        BY <2>6, <2>2, <4>2, Assoc
      <4> QED
        BY <2>4, <2>5, <4>3, <4>4, <4>5, <4>6
    <3> QED
      BY <2>7, <3>1, <3>2
  <2>9. line = LineSent(k + 1)
    BY <1>1 DEF LineSent
  <2> QED
    BY <1>1, <2>7, <2>8, <2>9 DEF Conversed
<1>9. Talks(f, "write", k + 1, line, p \o (text \o line), toS, rest)
  BY <1>8 DEF Well, Talks
<1> QED
  BY <1>1, <1>2, <1>4, <1>5, <1>6, <1>7, <1>9 DEF Well, Typed

LEMMA AtEndWell ==
    ASSUME NEW f \in Seq(Kind), NEW k, NEW d, NEW p, NEW toS, NEW toC,
           Well(f, "read", k, d, p, toS, toC), NEW n \in 1..Len(toC),
           NEW text, text = SubSeq(toC, 1, n), NEW rest, rest = SubSeq(toC, n + 1, Len(toC)),
           ~(k < Len(f)), NEW m \in Nat, NEW d2, d2 = [i \in 1..m |-> Junk]
    PROVE  Well(f, "write", k, d2, p \o text, toS, rest)
<1>1. toC \in Seq(Came(f)) /\ p \in Seq(Put(f)) /\ k \in Nat /\ k = Len(f)
  BY CameIs DEF Well, Typed
<1>2. text \in Seq(Came(f)) /\ rest \in Seq(Came(f))
  BY <1>1, Pieces
<1>3. p \o text \in Seq(Put(f))
  BY <1>1, <1>2, PageTyped
<1>4. Counted(k, p \o text)
  BY <1>1, <1>2, CountedOn DEF Well
<1>5. d2 \in Seq(Sent(f))
  <2>1. Junk \in Sent(f)
    BY CameIs DEF Junk, Sent
  <2> QED
    BY <2>1
<1>6. NoExit(f, Len(f)) /\ NoExit(f, k)
  BY <1>1 DEF Well, Exiting
<1>7. Exiting(f, "write", k, d2, toS)
  BY <1>6 DEF Exiting
<1>8. Talks(f, "write", k, d2, p \o text, toS, rest)
  BY <1>6 DEF Talks
<1> QED
  BY <1>2, <1>3, <1>4, <1>5, <1>7, <1>8 DEF Well, Typed

-----------------------------------------------------------------------------
LEMMA CutTyped ==
    ASSUME NEW f \in Seq(Kind), NEW d \in Seq(Sent(f))
    PROVE  /\ Cut(d) \in Seq(Sent(f)) /\ NoJunk(Cut(d))
           /\ \A k : d = <<FileLine(k)>> => Cut(d) = <<Part(k)>>
<1>1. PICK N \in Nat : N = Len(d) /\ DOMAIN d = 1..N
  OBVIOUS
<1>2. ASSUME NEW i \in 1..N PROVE Part(d[i][2]) \in Sent(f) /\ Part(d[i][2]) # Junk
  <2>1. d[i] \in Sent(f)
    BY <1>1
  <2>2. d[i][2] \in 0..Len(f) + 1
    BY <2>1, CameIs DEF Sent
  <2> QED
    BY <2>2 DEF Part, Sent, Junk
<1>3. PICK c : c = [i \in 1..N |-> Part(d[i][2])] /\ c = Cut(d)
  BY <1>1 DEF Cut
<1>4. c \in Seq(Sent(f)) /\ Len(c) = N
  <2> HIDE DEF Part
  <2> QED
    BY <1>2, <1>3
<1>5. NoJunk(c)
  BY <1>2, <1>3, <1>4 DEF NoJunk
<1>6. ASSUME NEW k, d = <<FileLine(k)>> PROVE c = <<Part(k)>>
  <2>1. N = 1 /\ d[1] = FileLine(k) /\ FileLine(k)[2] = k
    BY <1>1, <1>6 DEF FileLine
  <2>2. Len(c) = 1 /\ c[1] = Part(k)
    BY <1>3, <1>4, <2>1
  <2> QED
    BY <1>4, <2>2, IsOneElement
<1> QED
  BY <1>3, <1>4, <1>5, <1>6

LEMMA NoJunkJoin ==
    ASSUME NEW S, NEW a \in Seq(S), NEW b \in Seq(S), NoJunk(a), NoJunk(b)
    PROVE  NoJunk(a \o b)
  BY ConcatProperties DEF NoJunk

(* Does what is written begin with an exit: IsExit of a session. *)
ExitIn(f, d) == \E i \in DOMAIN d : d[i][1] = "line" /\ f[d[i][2]] = "exit"

LEMMA WrittenWell ==
    ASSUME NEW f \in Seq(Kind), NEW k, NEW d, NEW p, NEW toS, NEW toC,
           Well(f, "write", k, d, p, toS, toC),
           NEW o2, o2 = IF ExitIn(f, d) THEN "none" ELSE "read",
           NEW toS2, toS2 = toS \/ toS2 = toS \o d \/ toS2 = toS \o Cut(d)
    PROVE  Well(f, o2, k, d, p, toS2, toC)
<1>1. toS \in Seq(Sent(f)) /\ d \in Seq(Sent(f)) /\ Cut(d) \in Seq(Sent(f)) /\ k \in Nat
  BY CutTyped, CameIs DEF Well, Typed
<1>2. toS2 \in Seq(Sent(f))
  BY <1>1, ConcatProperties
<1>3. d = <<FileLine(k)>> /\ f[k] = "exit" => ExitIn(f, d)
  <2>1. ASSUME d = <<FileLine(k)>>, f[k] = "exit" PROVE ExitIn(f, d)
    <3>1. 1 \in DOMAIN d /\ d[1] = FileLine(k)
      BY <2>1
    <3> QED
      BY <2>1, <3>1 DEF ExitIn, FileLine
  <2> QED
    BY <2>1
<1>4. o2 = "read" => NoExit(f, k)
  <2>1. CASE NoExit(f, k)
    BY <2>1
  <2>2. CASE k > 0 /\ d = <<FileLine(k)>> /\ NoExit(f, k - 1)
    <3>1. o2 = "read" => f[k] # "exit"
      BY <1>3, <2>2
    <3>2. \A i \in 1..k : i \in 1..k - 1 \/ i = k
      BY <1>1
    <3> QED
      BY <2>2, <3>1, <3>2 DEF NoExit
  <2> QED
    BY <2>1, <2>2 DEF Well, Exiting
<1>5. ~NoExit(f, Len(f)) => NoJunk(d) /\ NoJunk(toS2)
  <2>1. ASSUME ~NoExit(f, Len(f)) PROVE NoJunk(d) /\ NoJunk(toS2)
    <3>1. NoJunk(d) /\ NoJunk(toS) /\ NoJunk(Cut(d))
      BY <1>1, <2>1, CutTyped DEF Well, Exiting
    <3> QED
      BY <1>1, <3>1, NoJunkJoin
  <2> QED
    BY <2>1
<1>6. Exiting(f, o2, k, d, toS2)
  BY <1>4, <1>5 DEF Exiting
<1>7. ASSUME Conversed(f, "write", k, d, p, toS, toC)
      PROVE  Conversed(f, o2, k, d, p, toS2, toC)
  <2>1. k > 0 /\ p = Before(f, k) /\ toS = <<>> /\ toC = <<>> /\ d = LineSent(k)
    BY <1>7 DEF Conversed
  <2>2. d = <<FileLine(k)>>
    BY <2>1 DEF LineSent
  <2>3. Cut(d) = <<Part(k)>>
    BY <1>1, <2>2, CutTyped
  <2>4. toS \o d = d /\ toS \o Cut(d) = Cut(d)
    BY <1>1, <2>1, ConcatEmptySeq
  <2>5. Waits(f, k, p, toS2, toC)
    BY <2>1, <2>2, <2>3, <2>4 DEF Waits
  <2> QED
    BY <2>1, <2>5 DEF Conversed
<1>8. Talks(f, o2, k, d, p, toS2, toC)
  BY <1>7 DEF Well, Talks
<1> QED
  BY <1>2, <1>6, <1>8 DEF Well, Typed
-----------------------------------------------------------------------------
(* What an observer of the values knows. *)
LEMMA WellPage ==
    ASSUME NEW f \in Seq(Kind), NEW o, NEW k, NEW d, NEW p, NEW toS, NEW toC,
           Well(f, o, k, d, p, toS, toC), ~NoExit(f, Len(f)), NoMark(f)
    PROVE  /\ IsPrefix(p, Told(f, Len(f)))
           /\ k = Len(f) /\ ExitIn(f, d) => p = Told(f, Len(f))
<1>1. Conversed(f, o, k, d, p, toS, toC) /\ k \in 0..Len(f) /\ k \in Nat /\ Len(f) \in Nat
  BY CameIs DEF Well, Talks, Typed
<1>2. (p = Before(f, k) \/ p = Told(f, k)) /\ d = LineSent(k)
  BY <1>1 DEF Conversed
<1>3. GoesOn(Told(f, k), Told(f, Len(f)))
  BY <1>1, ToldGoesOn
<1>4. PICK t \in Seq(Entry) : t = Told(f, Len(f))
  BY <1>1, ToldTyped
<1>5. PICK b \in Seq(Entry) : b = Before(f, k)
  BY <1>1, BeforeTyped
<1>6. PICK m \in Seq(Entry) : m = Told(f, k)
  BY <1>1, ToldTyped
<1>7. GoesOn(b, m)
  <2>1. CASE k = 0
    <3>1. b = m
      BY <1>5, <1>6, <2>1, ToldStart DEF Before
    <3> QED
      BY <3>1 DEF GoesOn
  <2>2. CASE k > 0
    <3>1. PICK out \in Seq(Entry) : out = Output(f, k)
      BY <1>1, OutputTyped
    <3>2. m = b \o out
      BY <1>1, <1>5, <1>6, <2>2, <3>1, ToldIs
    <3> QED
      BY <3>2, GoesOnJoin
  <2> QED
    BY <1>1, <2>1, <2>2
<1>8. GoesOn(m, t)
  BY <1>3, <1>4, <1>6
<1>9. GoesOn(b, t)
  BY <1>7, <1>8, GoesOnOn
<1>10. IsPrefix(b, t) /\ IsPrefix(m, t)
  BY <1>8, <1>9, GoesOnIs
<1>11. ASSUME k = Len(f), ExitIn(f, d) PROVE p = t
  <2>1. k > 0 /\ d = <<FileLine(k)>>
    BY <1>1, <1>2, <1>11 DEF LineSent, ExitIn
  <2>2. f[k] = "exit"
    <3>1. \A i \in DOMAIN d : i = 1 /\ d[i] = FileLine(k)
      BY <2>1
    <3> QED
      BY <3>1, <1>11 DEF ExitIn, FileLine
  <2>3. Output(f, k) = <<>>
    BY <2>2, OutputIs
  <2>4. m = b \o <<>>
    BY <1>1, <1>5, <1>6, <2>1, <2>3, ToldIs
  <2>5. m = b
    BY <2>4, ConcatEmptySeq
  <2> QED
    BY <1>2, <1>4, <1>5, <1>6, <1>11, <2>5
<1> QED
  BY <1>2, <1>4, <1>5, <1>6, <1>10, <1>11

JunkFree(x) == \A i \in DOMAIN x : x[i] # Junk

LEMMA WellLines ==
    ASSUME NEW f \in Seq(Kind), NEW o, NEW k, NEW d, NEW p, NEW toS, NEW toC,
           Well(f, o, k, d, p, toS, toC)
    PROVE  /\ Among(p, IsLine) = [i \in 1..k |-> FileLine(i)]
           /\ Len(Among(p, IsLine)) <= Len(Among(p, IsSign))
           /\ ~NoExit(f, Len(f)) => JunkFree(d \o toS)
<1>1. d \in Seq(Sent(f)) /\ toS \in Seq(Sent(f)) /\ k \in Nat
  BY CameIs DEF Well, Typed
<1>2. Among(p, IsLine) = [i \in 1..k |-> FileLine(i)] /\ k <= Len(Among(p, IsSign))
  BY DEF Well, Counted
<1>3. Len(Among(p, IsLine)) = k
  BY <1>1, <1>2
<1>4. ASSUME ~NoExit(f, Len(f)) PROVE JunkFree(d \o toS)
  <2>1. NoJunk(d \o toS)
    BY <1>1, <1>4, NoJunkJoin DEF Well, Exiting
  <2>2. DOMAIN (d \o toS) = 1..Len(d \o toS)
    BY <1>1, ConcatProperties
  <2> QED
    BY <2>1, <2>2 DEF NoJunk, JunkFree
<1> QED
  BY <1>2, <1>3, <1>4

-----------------------------------------------------------------------------
(* All sessions together.                                                   *)
OfConsole(s) ==
    Well(file[s], op[s], next[s], data[s], page[s], toShell[s], toConsole[s])

Shape ==
    /\ file \in [Session -> Files] /\ op \in [Session -> Operation] /\ next \in [Session -> Nat]
    /\ DOMAIN data = Session /\ DOMAIN page = Session
    /\ DOMAIN toShell = Session /\ DOMAIN toConsole = Session

Rest ==
    /\ through \in BOOLEAN /\ up \in BOOLEAN
    /\ shut \in [Session -> BOOLEAN] /\ over \in [Session -> BOOLEAN]
    /\ junk \in [Session -> 0..MaxJunk]

ConsoleInv == Shape /\ Rest /\ \A s \in Session : OfConsole(s)

LEMMA FilesAre == ASSUME Shape PROVE \A s \in Session : file[s] \in Seq(Kind) /\ op[s] \in Operation
  BY ConsoleAssumption DEF Shape, Kind

LEMMA ConsoleStart == ASSUME Init PROVE ConsoleInv
<1>1. Shape
  BY DEF Init, Shape, Operation
<1>2. Rest
  BY ConsoleAssumption DEF Init, Rest
<1>3. ASSUME NEW s \in Session PROVE OfConsole(s)
  <2>1. /\ op[s] = "resolve" /\ next[s] = 0 /\ data[s] = <<>> /\ page[s] = <<>>
        /\ toShell[s] = <<>> /\ toConsole[s] = <<>>
    BY DEF Init
  <2>2. Well(file[s], "resolve", 0, <<>>, <<>>, <<>>, <<>>)
    BY <1>1, FilesAre, StartWell
  <2> QED
    BY <2>1, <2>2 DEF OfConsole
<1> QED
  BY <1>1, <1>2, <1>3 DEF ConsoleInv

(* A step of one session leaves the others as they are.                     *)
Others(s) ==
    /\ file' = file
    /\ \A t \in Session \ {s} :
          /\ op'[t] = op[t] /\ next'[t] = next[t] /\ data'[t] = data[t] /\ page'[t] = page[t]
          /\ toShell'[t] = toShell[t] /\ toConsole'[t] = toConsole[t]

LEMMA OneSession ==
    ASSUME ConsoleInv, NEW s \in Session, Shape', Rest', Others(s), OfConsole(s)'
    PROVE  ConsoleInv'
<1>1. ASSUME NEW t \in Session \ {s} PROVE OfConsole(t)'
  BY DEF Others, OfConsole, ConsoleInv
<1> QED
  BY <1>1 DEF ConsoleInv

LEMMA ShellConsole ==
    ASSUME ConsoleInv, NEW s \in Session, RunLine(s) \/ RunJunk(s) \/ ShellEnds(s)
    PROVE  ConsoleInv'
<1> DEFINE f == file[s]
<1>1. /\ Shape /\ Rest /\ OfConsole(s)
      /\ f \in Seq(Kind) /\ op[s] \in Operation
  BY FilesAre DEF ConsoleInv
<1>2. UNCHANGED <<through, up, file, op, next, data, page, shut>>
  BY DEF RunLine, RunJunk, ShellEnds, setting, console
<1>3. /\ DOMAIN toShell' = Session /\ DOMAIN toConsole' = Session
      /\ \A t \in Session \ {s} : toShell'[t] = toShell[t] /\ toConsole'[t] = toConsole[t]
  BY <1>1 DEF RunLine, RunJunk, ShellEnds, Replied, Shape
<1>4. over' \in [Session -> BOOLEAN] /\ junk' \in [Session -> 0..MaxJunk]
  <2>1. over \in [Session -> BOOLEAN] /\ junk \in [Session -> 0..MaxJunk] /\ MaxJunk \in Nat
    BY <1>1, ConsoleAssumption DEF Rest
  <2>2. CASE RunLine(s)
    BY <2>1, <2>2 DEF RunLine
  <2>3. CASE RunJunk(s)
    BY <2>1, <2>3 DEF RunJunk
  <2>4. CASE ShellEnds(s)
    BY <2>1, <2>4 DEF ShellEnds
  <2> QED
    BY <2>2, <2>3, <2>4
<1>5. Shape' /\ Rest' /\ Others(s)
  BY <1>1, <1>2, <1>3, <1>4 DEF Shape, Rest, Others
<1>6. Well(f, op[s], next[s], data[s], page[s], toShell[s], toConsole[s])
  BY <1>1 DEF OfConsole
<1>7. Well(f, op[s], next[s], data[s], page[s], toShell'[s], toConsole'[s])
  <2>1. CASE RunLine(s)
    <3>1. PICK i : i = Head(toShell[s])[2]
      OBVIOUS
    <3>2. PICK text : AnswersWith(f, i, text)
      BY DEF AnswersWith
    <3>3. /\ toShell[s] # <<>> /\ Head(toShell[s])[1] = "line"
          /\ toShell'[s] = Tail(toShell[s]) /\ toConsole'[s] = toConsole[s] \o text
      BY <1>1, <2>1, <3>1, <3>2 DEF RunLine, Replied, Shape, AnswersWith
    <3>4. op[s] \in Starting \cup {"read", "write", "none"}
      BY <1>1 DEF Operation, Starting
    <3> QED
      BY <1>1, <1>6, <3>1, <3>2, <3>3, <3>4, LineWell
  <2>2. CASE RunJunk(s)
    <3>1. /\ toShell[s] # <<>> /\ Head(toShell[s]) = Junk
          /\ toShell'[s] = Tail(toShell[s])
          /\ toConsole'[s] = toConsole[s] \o << <<"out", 0>>, Prompt(0) >>
      BY <1>1, <2>2 DEF RunJunk, Replied, Shape
    <3> QED
      BY <1>1, <1>6, <3>1, JunkWell
  <2>3. CASE ShellEnds(s)
    <3>1. toShell'[s] = <<>> /\ toConsole'[s] = toConsole[s]
      BY <1>1, <2>3 DEF ShellEnds, Shape
    <3> QED
      BY <1>6, <3>1, GoneWell
  <2> QED
    BY <2>1, <2>2, <2>3
<1>8. OfConsole(s)'
  BY <1>2, <1>7 DEF OfConsole
<1> QED
  BY <1>5, <1>8, OneSession

-----------------------------------------------------------------------------
(* Handlers that only go on to another operation.                           *)
LEMMA TurnsConsole ==
    ASSUME ConsoleInv, NEW s \in Session, NEW granted \in BOOLEAN, NEW ok \in BOOLEAN,
           ResolveDone(s, ok) \/ ConnectDone(s, ok) \/ ReplyRead(s, granted)
              \/ ReadFails(s) \/ WriteFails(s)
    PROVE  ConsoleInv'
<1> DEFINE f == file[s]
<1>1. /\ Shape /\ Rest /\ OfConsole(s)
      /\ f \in Seq(Kind) /\ op[s] \in Operation
  BY FilesAre DEF ConsoleInv
<1>2. UNCHANGED <<through, up, file, next, data, page, toShell, junk>>
  BY DEF ResolveDone, ConnectDone, ReplyRead, ReadFails, WriteFails, setting, remote
<1>3. Rest'
  BY <1>1, <1>2 DEF ResolveDone, ConnectDone, ReplyRead, ReadFails, WriteFails, remote, Rest
<1>4. PICK o \in Operation : op' = [op EXCEPT ![s] = o]
  <2>1. CASE ResolveDone(s, ok)
    <3>1. CASE ~ok
      BY <2>1, <3>1 DEF ResolveDone, Then, Operation
    <3>2. CASE ok /\ through
      BY <2>1, <3>2 DEF ResolveDone, Then, Operation
    <3>3. CASE ok /\ ~through
      BY <2>1, <3>3 DEF ResolveDone, Then, Operation
    <3> QED
      BY <3>1, <3>2, <3>3
  <2>2. CASE ConnectDone(s, ok)
    BY <2>2 DEF ConnectDone, Then, Operation
  <2>3. CASE ReplyRead(s, granted)
    BY <2>3 DEF ReplyRead, Then, Operation
  <2>4. CASE ReadFails(s) \/ WriteFails(s)
    BY <2>4 DEF ReadFails, WriteFails, Then, Operation
  <2> QED
    BY <2>1, <2>2, <2>3, <2>4
<1>5. /\ op' \in [Session -> Operation] /\ op'[s] = o
      /\ \A t \in Session \ {s} : op'[t] = op[t]
  BY <1>1, <1>4 DEF Shape
<1>6. /\ DOMAIN toConsole' = Session
      /\ \A t \in Session \ {s} : toConsole'[t] = toConsole[t]
  BY <1>1 DEF ResolveDone, ConnectDone, ReplyRead, ReadFails, WriteFails, remote, Shape
<1>7. Shape' /\ Others(s)
  BY <1>1, <1>2, <1>5, <1>6 DEF Shape, Others
<1>8. Well(f, op[s], next[s], data[s], page[s], toShell[s], toConsole[s])
  BY <1>1 DEF OfConsole
<1>9. Well(f, op'[s], next[s], data[s], page[s], toShell[s], toConsole'[s])
  <2>1. CASE ResolveDone(s, ok)
    <3>1. toConsole'[s] = toConsole[s] /\ op[s] = "resolve" /\ op'[s] \in {"none", "connect", "reply"}
      <4>1. toConsole' = toConsole /\ op[s] = "resolve"
        BY <2>1 DEF ResolveDone, remote
      <4>2. CASE ~ok
        BY <1>1, <2>1, <4>1, <4>2 DEF ResolveDone, Then, Shape
      <4>3. CASE ok /\ through
        BY <1>1, <2>1, <4>1, <4>3 DEF ResolveDone, Then, Shape
      <4>4. CASE ok /\ ~through
        BY <1>1, <2>1, <4>1, <4>4 DEF ResolveDone, Then, Shape
      <4> QED
        BY <4>2, <4>3, <4>4
    <3> QED
      BY <1>8, <3>1, IdleWell
  <2>2. CASE ConnectDone(s, ok) /\ ~ok
    <3>1. op'[s] = "none" /\ toConsole'[s] = toConsole[s]
      BY <1>1, <2>2 DEF ConnectDone, Then, Shape
    <3> QED
      BY <1>8, <3>1, IdleWell
  <2>3. CASE ConnectDone(s, ok) /\ ok
    <3>1. /\ op[s] = "connect" /\ op'[s] = "read" /\ toConsole'[s] = <<Prompt(1)>>
      BY <1>1, <2>3 DEF ConnectDone, Then, Shape
    <3> QED
      BY <1>1, <1>8, <3>1, GreetWell
  <2>4. CASE ReplyRead(s, granted)
    <3>1. /\ op[s] = "reply" /\ op'[s] = "read"
          /\ toConsole'[s] = toConsole[s] \/ toConsole'[s] = <<Prompt(1)>>
      BY <1>1, <2>4 DEF ReplyRead, Then, Shape
    <3> QED
      BY <1>1, <1>8, <3>1, GreetWell
  <2>5. CASE ReadFails(s) \/ WriteFails(s)
    <3>1. op'[s] = "none" /\ toConsole'[s] = toConsole[s]
      BY <1>1, <2>5 DEF ReadFails, WriteFails, Then, Shape, remote
    <3> QED
      BY <1>8, <3>1, IdleWell
  <2> QED
    BY <2>1, <2>2, <2>3, <2>4, <2>5
<1>10. OfConsole(s)'
  BY <1>2, <1>9 DEF OfConsole
<1> QED
  BY <1>3, <1>7, <1>10, OneSession

LEMMA JoinConsole ==
    ASSUME ConsoleInv, NEW s \in Session, JoinFails(s)
    PROVE  ConsoleInv'
<1>1. Shape /\ Rest /\ \A t \in Session : OfConsole(t)
  BY DEF ConsoleInv
<1>2. /\ UNCHANGED <<through, file, next, data, page, toShell, toConsole, over, junk>>
      /\ op' = [t \in Session |-> "none"] /\ up' = FALSE /\ shut' = [t \in Session |-> TRUE]
  BY DEF JoinFails, setting, remote
<1>3. Shape' /\ Rest'
  BY <1>1, <1>2 DEF Shape, Rest, Operation
<1>4. ASSUME NEW t \in Session PROVE OfConsole(t)'
  <2>1. Well(file[t], op[t], next[t], data[t], page[t], toShell[t], toConsole[t])
    BY <1>1 DEF OfConsole
  <2>2. Well(file[t], "none", next[t], data[t], page[t], toShell[t], toConsole[t])
    BY <2>1, IdleWell
  <2>3. op'[t] = "none"
    BY <1>2
  <2> QED
    BY <1>2, <2>2, <2>3 DEF OfConsole
<1> QED
  BY <1>3, <1>4 DEF ConsoleInv

(* A read, and what it does with the page. *)
LEMMA ReadConsole ==
    ASSUME ConsoleInv, NEW s \in Session, NEW n \in 1..Len(toConsole[s]),
           ReadOn(s, n) \/ ReadCommand(s, n) \/ ReadAtEnd(s, n)
    PROVE  ConsoleInv'
<1>1. /\ Shape /\ Rest /\ OfConsole(s) /\ file[s] \in Seq(Kind)
  BY FilesAre DEF ConsoleInv
<1>2. PICK f \in Seq(Kind) : f = file[s]
  BY <1>1
<1>3. PICK toC : toC = toConsole[s]
  OBVIOUS
<1>4. PICK text : text = SubSeq(toC, 1, n)
  OBVIOUS
<1>5. PICK rest : rest = SubSeq(toC, n + 1, Len(toC))
  OBVIOUS
<1>6. /\ UNCHANGED <<through, up, file, shut, toShell, over, junk>>
      /\ op[s] = "read" /\ toConsole' = [toConsole EXCEPT ![s] = rest]
  BY <1>3, <1>5 DEF ReadOn, ReadCommand, ReadAtEnd, Reading, setting
<1>7. Rest'
  BY <1>1, <1>6 DEF Rest
<1>8. Well(f, "read", next[s], data[s], page[s], toShell[s], toC)
  BY <1>1, <1>2, <1>3, <1>6 DEF OfConsole
<1>9. toConsole'[s] = rest /\ DOMAIN toConsole' = Session
      /\ \A t \in Session \ {s} : toConsole'[t] = toConsole[t]
  BY <1>1, <1>6 DEF Shape
<1>10. CASE ReadOn(s, n)
  <2>1. /\ UNCHANGED <<op, next, data>> /\ page' = [page EXCEPT ![s] = @ \o text]
        /\ ~check_read(text)
    BY <1>3, <1>4, <1>10 DEF ReadOn, Showing
  <2>2. Shape' /\ Others(s)
    BY <1>1, <1>6, <1>9, <2>1 DEF Shape, Others
  <2>3. Well(f, "read", next[s], data[s], page[s] \o text, toShell[s], rest)
    BY <1>3, <1>4, <1>5, <1>8, <2>1, ReadOnWell
  <2>4. page'[s] = page[s] \o text
    BY <1>1, <2>1 DEF Shape
  <2>5. OfConsole(s)'
    BY <1>2, <1>6, <1>9, <2>1, <2>3, <2>4 DEF OfConsole
  <2> QED
    BY <1>7, <2>2, <2>5, OneSession
<1>11. CASE ReadCommand(s, n)
  <2>1. PICK line : line = <<FileLine(next[s] + 1)>>
    OBVIOUS
  <2>2. /\ next' = [next EXCEPT ![s] = @ + 1] /\ data' = [data EXCEPT ![s] = line]
        /\ op' = [op EXCEPT ![s] = "write"] /\ page' = [page EXCEPT ![s] = @ \o (text \o line)]
        /\ check_read(text) /\ next[s] < Len(f)
    BY <1>2, <1>3, <1>4, <1>11, <2>1 DEF ReadCommand, Showing, Shown, Then, HasLine
  <2>3. Shape' /\ Others(s)
    BY <1>1, <1>6, <1>9, <2>2 DEF Shape, Others, Operation
  <2>4. Well(f, "write", next[s] + 1, line, page[s] \o (text \o line), toShell[s], rest)
    BY <1>3, <1>4, <1>5, <1>8, <2>1, <2>2, CommandWell
  <2>5. /\ page'[s] = page[s] \o (text \o line) /\ next'[s] = next[s] + 1
        /\ data'[s] = line /\ op'[s] = "write"
    BY <1>1, <2>2 DEF Shape
  <2>6. OfConsole(s)'
    BY <1>2, <1>6, <1>9, <2>4, <2>5 DEF OfConsole
  <2> QED
    BY <1>7, <2>3, <2>6, OneSession
<1>12. CASE ReadAtEnd(s, n)
  <2>1. PICK said : said = Among(text, {x \in ToSet(text) : x[1] # "prompt"})
    OBVIOUS
  <2>2. PICK d : d = [i \in DOMAIN said |-> Junk]
    OBVIOUS
  <2>3. /\ data' = [data EXCEPT ![s] = d] /\ op' = [op EXCEPT ![s] = "write"] /\ next' = next
        /\ page' = [page EXCEPT ![s] = @ \o text] /\ ~(next[s] < Len(f))
    BY <1>2, <1>3, <1>4, <1>12, <2>1, <2>2 DEF ReadAtEnd, Showing, Then, HasLine
  <2>4. Shape' /\ Others(s)
    BY <1>1, <1>6, <1>9, <2>3 DEF Shape, Others, Operation
  <2>5. PICK m \in Nat : d = [i \in 1..m |-> Junk]
    <3>1. toC \in Seq(Came(f))
      BY <1>8 DEF Well, Typed
    <3>2. text \in Seq(Came(f))
      BY <1>3, <1>4, <3>1, Pieces
    <3>3. said \in Seq(Came(f))
      BY <2>1, <3>2, AmongLeaves
    <3>4. PICK m \in Nat : DOMAIN said = 1..m
      BY <3>3
    <3> QED
      BY <2>2, <3>4
  <2>6. Well(f, "write", next[s], d, page[s] \o text, toShell[s], rest)
    BY <1>3, <1>4, <1>5, <1>8, <2>3, <2>5, AtEndWell
  <2>7. page'[s] = page[s] \o text /\ data'[s] = d /\ op'[s] = "write" /\ next'[s] = next[s]
    BY <1>1, <2>3 DEF Shape
  <2>8. OfConsole(s)'
    BY <1>2, <1>6, <1>9, <2>6, <2>7 DEF OfConsole
  <2> QED
    BY <1>7, <2>4, <2>8, OneSession
<1> QED
  BY <1>10, <1>11, <1>12

LEMMA WriteConsole ==
    ASSUME ConsoleInv, NEW s \in Session, NEW whole \in BOOLEAN, WriteDone(s, whole)
    PROVE  ConsoleInv'
<1>1. /\ Shape /\ Rest /\ OfConsole(s) /\ file[s] \in Seq(Kind)
  BY FilesAre DEF ConsoleInv
<1>2. PICK f \in Seq(Kind) : f = file[s]
  BY <1>1
<1>3. ExitIn(f, data[s]) = IsExit(s, data[s])
  BY <1>2 DEF ExitIn, IsExit
<1>4. PICK o : o = IF ExitIn(f, data[s]) THEN "none" ELSE "read"
  OBVIOUS
<1>5. /\ UNCHANGED <<through, up, file, next, data, page, toConsole, over, junk>>
      /\ op[s] = "write" /\ op' = [op EXCEPT ![s] = o]
  BY <1>3, <1>4 DEF WriteDone, Then, setting
<1>6. /\ toShell'[s] = toShell[s] \/ toShell'[s] = toShell[s] \o data[s]
            \/ toShell'[s] = toShell[s] \o Cut(data[s])
      /\ DOMAIN toShell' = Session
      /\ \A t \in Session \ {s} : toShell'[t] = toShell[t]
  BY <1>1 DEF WriteDone, Shape
<1>7. shut' \in [Session -> BOOLEAN]
  <2>1. IsExit(s, data[s]) \in BOOLEAN
    BY DEF IsExit
  <2>2. shut' = [shut EXCEPT ![s] = IsExit(s, data[s])]
    BY DEF WriteDone
  <2> QED
    BY <1>1, <2>1, <2>2, Zenon DEF Rest
<1>8. Rest'
  BY <1>1, <1>5, <1>7 DEF Rest
<1>9. o \in Operation
  BY <1>4 DEF Operation
<1>10. Shape' /\ Others(s) /\ op'[s] = o
  BY <1>1, <1>5, <1>6, <1>9 DEF Shape, Others
<1>11. Well(f, "write", next[s], data[s], page[s], toShell[s], toConsole[s])
  BY <1>1, <1>2, <1>5 DEF OfConsole
<1>12. Well(f, o, next[s], data[s], page[s], toShell'[s], toConsole[s])
  BY <1>4, <1>6, <1>11, WrittenWell
<1>13. OfConsole(s)'
  BY <1>2, <1>5, <1>10, <1>12 DEF OfConsole
<1> QED
  BY <1>8, <1>10, <1>13, OneSession

LEMMA StillConsole == ASSUME ConsoleInv, UNCHANGED vars PROVE ConsoleInv'
  BY DEF ConsoleInv, Shape, Rest, OfConsole, vars, setting, console, remote

LEMMA ConsoleAlways == Spec => []ConsoleInv
<1>1. ASSUME ConsoleInv, NEW s \in Session, Handler(s) PROVE ConsoleInv'
  BY <1>1, TurnsConsole, JoinConsole, ReadConsole, WriteConsole DEF Handler
<1>2. ConsoleInv /\ [Next]_vars => ConsoleInv'
  BY <1>1, ShellConsole, StillConsole DEF Next, Shell
<1> QED
  BY <1>2, ConsoleStart, PTL DEF Spec

(* Whatever np_session reads, shows and writes are pieces of its own        *)
(* conversation: prompts, outputs and lines numbered up to the end of its   *)
(* file, of which it has taken no more lines than there are.                *)
THEOREM AlwaysTyped == Spec => []TypeOK
<1>1. ASSUME ConsoleInv PROVE TypeOK
  <2>1. Shape /\ Rest
    BY <1>1 DEF ConsoleInv
  <2>2. ASSUME NEW s \in Session
        PROVE  /\ file[s] \in Files
               /\ op[s] \in {"resolve", "connect", "reply", "read", "write", "none"}
               /\ next[s] \in 0..Len(file[s])
               /\ data[s] \in Seq(Wire(s)) /\ page[s] \in Seq(Wire(s))
               /\ toShell[s] \in Seq(Wire(s)) /\ toConsole[s] \in Seq(Wire(s))
    <3>1. Typed(file[s], next[s], data[s], page[s], toShell[s], toConsole[s])
      BY <1>1 DEF ConsoleInv, OfConsole, Well
    <3>2. Len(file[s]) \in Nat
      BY <2>1, FilesAre
    <3>3. /\ Sent(file[s]) \subseteq Wire(s) /\ Put(file[s]) \subseteq Wire(s)
          /\ Came(file[s]) \subseteq Wire(s)
      BY <3>2 DEF Sent, Put, Came, Wire
    <3>4. /\ data[s] \in Seq(Wire(s)) /\ page[s] \in Seq(Wire(s))
          /\ toShell[s] \in Seq(Wire(s)) /\ toConsole[s] \in Seq(Wire(s))
      BY <3>1, <3>3, Wider DEF Typed
    <3> QED
      BY <2>1, <3>1, <3>4 DEF Shape, Operation, Typed
  <2> QED
    BY <2>1, <2>2 DEF TypeOK, Rest
<1> QED
  BY <1>1, ConsoleAlways, PTL

(* When no output has a '%', the page of np_session reads as if its file    *)
(* had been typed, however do_read gets the replies: each line follows its  *)
(* prompt and is followed by its own output, and a session that ended with  *)
(* exit shows all of it.                                                    *)
THEOREM PagesReadAsTyped == Spec => []ReadsAsTyped
<1>1. ASSUME ConsoleInv, NEW s \in Session, Exits(s), Plain(s)
      PROVE  /\ IsPrefix(page[s], Transcript(s))
             /\ op[s] = "none" /\ next[s] = Len(file[s]) /\ IsExit(s, data[s])
                   => page[s] = Transcript(s)
  <2>1. PICK f \in Seq(Kind) : f = file[s]
    BY <1>1, FilesAre DEF ConsoleInv
  <2>2. Well(f, op[s], next[s], data[s], page[s], toShell[s], toConsole[s])
    BY <1>1, <2>1 DEF ConsoleInv, OfConsole
  <2>3. DOMAIN f = 1..Len(f)
    OBVIOUS
  <2>4. ~NoExit(f, Len(f)) /\ NoMark(f)
    BY <1>1, <2>1, <2>3 DEF Exits, Plain, NoExit, NoMark
  <2>5. /\ IsPrefix(page[s], Told(f, Len(f)))
        /\ next[s] = Len(f) /\ ExitIn(f, data[s]) => page[s] = Told(f, Len(f))
    BY <2>2, <2>4, WellPage
  <2>6. Transcript(s) = Told(f, Len(f)) /\ (IsExit(s, data[s]) => ExitIn(f, data[s]))
    BY <2>1 DEF Transcript, IsExit, ExitIn
  <2> QED
    BY <2>1, <2>5, <2>6
<1>2. ConsoleInv => ReadsAsTyped
  BY <1>1 DEF ReadsAsTyped
<1> QED
  BY <1>2, ConsoleAlways, PTL

(* Whatever the outputs look like, do_read takes every line of the file     *)
(* once, in order, and each after a sign that check_read found; nothing but *)
(* lines of the file is written to the shell of a file that ends with exit. *)
THEOREM LinesAlwaysPerSign == Spec => []OnePerSign
<1>1. ASSUME ConsoleInv, NEW s \in Session
      PROVE  /\ Lines(s) = [i \in 1..next[s] |-> FileLine(i)]
             /\ Len(Lines(s)) <= Len(Signs(s))
             /\ Exits(s) => Junk \notin Range(data[s] \o toShell[s])
  <2>1. PICK f \in Seq(Kind) : f = file[s]
    BY <1>1, FilesAre DEF ConsoleInv
  <2>2. Well(f, op[s], next[s], data[s], page[s], toShell[s], toConsole[s])
    BY <1>1, <2>1 DEF ConsoleInv, OfConsole
  <2>3. Exits(s) => ~NoExit(f, Len(f))
    <3>1. DOMAIN f = 1..Len(f)
      OBVIOUS
    <3> QED
      BY <2>1, <3>1 DEF Exits, NoExit
  <2>4. Lines(s) = Among(page[s], IsLine) /\ Signs(s) = Among(page[s], IsSign)
    BY DEF Lines, Signs, IsLine, IsSign
  <2>5. /\ Among(page[s], IsLine) = [i \in 1..next[s] |-> FileLine(i)]
        /\ Len(Among(page[s], IsLine)) <= Len(Among(page[s], IsSign))
        /\ ~NoExit(f, Len(f)) => JunkFree(data[s] \o toShell[s])
    BY <2>2, WellLines
  <2>6. ASSUME Exits(s) PROVE Junk \notin Range(data[s] \o toShell[s])
    BY <2>3, <2>5, <2>6 DEF Range, JunkFree
  <2> QED
    BY <2>4, <2>5, <2>6
<1>2. ConsoleInv => OnePerSign
  BY <1>1 DEF OnePerSign
<1> QED
  BY <1>2, ConsoleAlways, PTL
=============================================================================
