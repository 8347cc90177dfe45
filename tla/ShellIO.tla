------------------------------ MODULE ShellIO ------------------------------
(***************************************************************************)
(* The shell of hw2/1 and the processes it forks, seen through the pipes: *)
(* who holds which end, who waits for whom.  A fork copies every end the  *)
(* shell holds (no descriptor is close-on-exec), a child closes only what *)
(* the code behind the fork closes, and a line that is waited for ends    *)
(* when its children do.  Descriptors are NpShell's matter; here an end   *)
(* is <<pipe, "r">> or <<pipe, "w">>.                                     *)
(***************************************************************************)
EXTENDS NumberPipes

CONSTANTS
    MaxN,       \* the largest N of |N
    MaxStage,   \* bound on the commands of a line
    MaxLine,    \* bound on the lines entered
    Kinds,      \* what commands do: "small" writes a little and ends, "big" writes
                \* more than a pipe holds, "filter" reads to the end of its input
                \* and writes what it reads, "unknown": there is no such program
    None        \* no pipe: the terminal

ASSUME ShellIOAssumption ==
    /\ MaxN \in Nat /\ MaxStage \in Nat \ {0} /\ MaxLine \in Nat
    /\ Kinds \subseteq {"small", "big", "filter", "unknown"}
    /\ None \notin (1..MaxLine) \X (0..MaxStage)

Line == 1..MaxLine
Pipe == Line \X (0..MaxStage)   \* <<l, i>>: pipe i of line l, <<l, 0>> a numbered one
Child == Line \X (1..MaxStage)
Room == 1       \* a pipe holds one chunk (64 KiB)
Big  == 2       \* chunks that a big command writes

VARIABLES
    line,       \* lines entered
    exited,     \* the shell has ended
    number_pipe,\* numbered pipes that wait: [pipe, number]
    held,       \* the ends the shell holds
    waits,      \* the children the shell is in waitpid() for
    closing,    \* the ends it closes when that returns
    live,       \* the children that have not ended
    child,      \* child[c]: [in, out, todo, reads, holds]
    level,      \* level[p]: chunks in pipe p
    (* auxiliary *)
    cut         \* the children that SIGPIPE ended

vars == <<line, exited, number_pipe, held, waits, closing, live, child, level, cut>>

R(p) == <<p, "r">>
W(p) == <<p, "w">>
Idle == [in |-> None, out |-> None, todo |-> 0, reads |-> FALSE, holds |-> {}]

Init ==
    /\ line = 0 /\ exited = FALSE /\ number_pipe = <<>>
    /\ held = {} /\ waits = {} /\ closing = {}
    /\ live = {} /\ child = [c \in Child |-> Idle]
    /\ level = [p \in Pipe |-> 0]
    /\ cut = {}
-----------------------------------------------------------------------------
(* The numbered pipe this line reads, or None. *)
Due == LET due == WithCount(Counted(number_pipe), 0)
       IN  IF due = <<>> THEN None ELSE due[1].pipe
DueEnds == {R(Due), W(Due)}

(* Mutant of WithoutDueWrite: the read end is closed. *)
WithoutDueRead(ends) == ends \ {R(Due)}

(* The write end of that pipe is closed before its reader runs. *)
WithoutDueWrite(ends) == ends \ {W(Due)}

Doing(kind, in, out, holds) ==
    [in |-> in, out |-> out, todo |-> IF kind = "big" THEN Big ELSE 0,
     reads |-> kind = "filter", holds |-> holds]

(* Mutant of Dropped: the first child keeps the read end of its own pipe. *)
DroppedNothing(i, p) == {}

(* The ends child i closes before exec: only the first closes the read end of *)
(* the pipe that it writes.                                                   *)
Dropped(i, p) == IF i = 1 THEN {R(p)} ELSE {}

(* Where exec fails the child says so and ends, but for the last of several *)
(* commands before |n: nothing stops it behind exec, it goes on as a second *)
(* shell, which reads what it is given to its end, taking no line of it for *)
(* a command, and prompts for every line.                                   *)
Became(kind, last) == IF kind = "unknown" /\ last THEN "filter" ELSE kind

(***************************************************************************)
(* Stage i of k: a pipe is opened, the child forked, and the shell closes *)
(* the pipe's write end, the read end of the one before and, at the stage *)
(* release, the numbered pipe that the line read.                         *)
(***************************************************************************)
Stage(work, i, kinds, sink, release) ==
    LET own   == <<line + 1, i>>
        prev  == <<line + 1, i - 1>>
        ends  == WithoutDueWrite(work.held \cup {R(own), W(own)})
        in    == IF i = 1 THEN Due ELSE prev
        out   == IF i = Len(kinds) THEN sink ELSE own
        freed == {W(own)} \cup (IF i = 1 THEN {} ELSE {R(prev)})
                          \cup (IF i = release THEN DueEnds ELSE {})
        last  == i = Len(kinds) /\ sink # None
    IN  [held |-> ends \ freed,
         kids |-> Append(work.kids, Doing(Became(kinds[i], last), in, out, ends \ Dropped(i, own)))]

Stages(ends, kinds, sink, release) ==
    FoldLeft(LAMBDA w, i : Stage(w, i, kinds, sink, release),
             [held |-> ends, kids |-> <<>>], [i \in DOMAIN kinds |-> i])

(* The line starts these children and leaves the shell with these ends, these *)
(* numbered pipes, and children to wait for or none.  A first command that    *)
(* reads from the terminal ends when its user likes and is left out.          *)
Start(kinds, kids, ends, pipes, mustWait) ==
    LET mine == {<<line + 1, i>> : i \in DOMAIN kinds} IN
    /\ ~exited /\ waits = {} /\ line < MaxLine
    /\ kinds[1] = "filter" => Due # None
    /\ line' = line + 1
    /\ held' = ends /\ number_pipe' = pipes
    /\ waits' = IF mustWait THEN mine ELSE {}
    /\ live' = live \cup mine
    /\ child' = [c \in Child |-> IF c \in mine THEN kids[c[2]] ELSE child[c]]
    /\ UNCHANGED <<exited, level, cut>>

(* setenv and printenv.  A pipe that is due at such a line is NpShell's. *)
BuiltIn ==
    /\ ~exited /\ waits = {} /\ line < MaxLine /\ Due = None
    /\ line' = line + 1
    /\ number_pipe' = Waiting(number_pipe)
    /\ UNCHANGED <<exited, held, waits, closing, live, child, level, cut>>

(* exit, or the end of the shell's input: its ends are closed, its children *)
(* live on.                                                                 *)
Exit ==
    /\ ~exited /\ waits = {}
    /\ exited' = TRUE
    /\ held' = {} /\ number_pipe' = <<>>
    /\ UNCHANGED <<line, waits, closing, live, child, level, cut>>

(* One command: its input pipe stays open in the shell until it has ended. *)
Single(kind) ==
    LET ends == WithoutDueWrite(held) IN
    /\ Start(<<kind>>, <<Doing(kind, Due, None, ends)>>, ends, Waiting(number_pipe), TRUE)
    /\ closing' = {R(Due)}

Pipeline(kinds) ==
    LET w == Stages(held, kinds, None, 1) IN
    /\ Start(kinds, w.kids, w.held, Waiting(number_pipe), TRUE)
    /\ closing' = {}

(* The end that the only command of a line |n closes. *)
DroppedByOnly(sink) == {R(sink)}

(* A line that ends in |n: the shell does not wait.  Its only command closes *)
(* the read end of the pipe it writes, the last of several does not.         *)
Numbered(kinds, n) ==
    LET shared == WithCount(Waiting(number_pipe), n)
        fresh  == shared = <<>>
        sink   == IF fresh THEN <<line + 1, 0>> ELSE shared[1].pipe
        ends   == WithoutDueWrite(held \cup IF fresh THEN {R(sink), W(sink)} ELSE {})
        w      == IF Len(kinds) = 1
                  THEN [held |-> ends \ DueEnds,
                        kids |-> <<Doing(kinds[1], Due, sink, ends \ DroppedByOnly(sink))>>]
                  ELSE Stages(ends, kinds, sink, Len(kinds))
    IN  /\ Start(kinds, w.kids, w.held,
                 Waiting(number_pipe) \o
                     IF fresh THEN << [pipe |-> sink, number |-> n] >> ELSE <<>>, FALSE)
        /\ closing' = {}

(* waitpid() has returned for every child of the line. *)
Waited ==
    /\ waits # {} /\ waits \cap live = {}
    /\ waits' = {} /\ closing' = {}
    /\ held' = held \ closing
    /\ UNCHANGED <<line, exited, number_pipe, live, child, level, cut>>
-----------------------------------------------------------------------------
(* The children: what the kernel lets a process do with its pipes. *)
Held(e) == e \in held \/ \E c \in live : e \in child[c].holds

OfShell == <<line, exited, number_pipe, held, waits, closing>>

(* A filter takes a chunk when it has written the one before. *)
Read(c) ==
    LET p == child[c].in IN
    /\ c \in live /\ child[c].reads /\ child[c].todo = 0
    /\ p # None /\ level[p] > 0
    /\ level' = [level EXCEPT ![p] = @ - 1]
    /\ child' = [child EXCEPT ![c].todo = 1]
    /\ UNCHANGED <<OfShell, live, cut>>

Write(c) ==
    LET p == child[c].out IN
    /\ c \in live /\ child[c].todo > 0
    /\ p # None => level[p] < Room /\ Held(R(p))
    /\ level' = IF p = None THEN level ELSE [level EXCEPT ![p] = @ + 1]
    /\ child' = [child EXCEPT ![c].todo = @ - 1]
    /\ UNCHANGED <<OfShell, live, cut>>

Ended(c) ==
    /\ live' = live \ {c}
    /\ child' = [child EXCEPT ![c].holds = {}, ![c].todo = 0]
    /\ UNCHANGED <<OfShell, level>>

(* SIGPIPE: nobody can read any more what it writes. *)
Broken(c) ==
    LET p == child[c].out IN
    /\ c \in live /\ child[c].todo > 0 /\ p # None /\ ~Held(R(p))
    /\ cut' = cut \cup {c}
    /\ Ended(c)

(* The end: all is written, and a filter has seen the end of its input, *)
(* which comes when nobody can write to it any more.                    *)
Done(c) ==
    LET p == child[c].in IN
    /\ c \in live /\ child[c].todo = 0
    /\ child[c].reads => p # None /\ level[p] = 0 /\ ~Held(W(p))
    /\ Ended(c) /\ UNCHANGED cut

Step(c) == Read(c) \/ Write(c) \/ Broken(c) \/ Done(c)

Commands(k) == [1..k -> Kinds]

Enter ==
    \/ BuiltIn
    \/ \E kind \in Kinds : Single(kind)
    \/ \E k \in 2..MaxStage : \E kinds \in Commands(k) : Pipeline(kinds)
    \/ \E k \in 1..MaxStage : \E kinds \in Commands(k), n \in 1..MaxN : Numbered(kinds, n)

Next == Enter \/ Exit \/ Waited \/ \E c \in Child : Step(c)

(* The kernel runs every process that can go on; users may stop typing. *)
Fairness == WF_vars(Waited) /\ \A c \in Child : WF_vars(Step(c))
Spec == Init /\ [][Next]_vars /\ Fairness
-----------------------------------------------------------------------------
(* The values each variable can have. *)
TypeOK ==
    /\ line \in 0..MaxLine /\ exited \in BOOLEAN
    /\ number_pipe \in Seq([pipe : Pipe, number : 1..MaxN])
    /\ held \subseteq Pipe \X {"r", "w"} /\ closing \subseteq (Pipe \cup {None}) \X {"r", "w"}
    /\ waits \subseteq Child /\ live \subseteq Child
    /\ child \in [Child -> [in : Pipe \cup {None}, out : Pipe \cup {None}, todo : 0..Big,
                            reads : BOOLEAN, holds : SUBSET (Pipe \X {"r", "w"})]]
    /\ level \in [Pipe -> 0..Room]
    /\ cut \subseteq Child

(* SIGPIPE ends a command whose output a filter was given to read only if  *)
(* it ended that filter too: somebody holds the read end until the writers  *)
(* are gone.                                                                *)
FilterGetsAll ==
    \A c \in cut, d \in Child :
        child[d].reads /\ child[d].in = child[c].out => d \in cut

(* Every line that is waited for comes to its end and the next prompt.      *)
LineCompletes == waits # {} ~> waits = {}

(* When the shell has ended its children end, too, whatever pipes they have *)
(* been left with, unless one of them is left that holds the read end of    *)
(* the pipe it writes: then nothing ever tells it that nobody reads.        *)
KeepsOwnPipe(c) == c \in live /\ child[c].out # None /\ R(child[c].out) \in child[c].holds
ChildrenEnd == exited ~> live = {} \/ \E c \in Child : KeepsOwnPipe(c)
=============================================================================
