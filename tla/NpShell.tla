------------------------------ MODULE NpShell ------------------------------
(***************************************************************************)
(* npshell: the shell of hw1 and hw2/1.  Each action is one command line: *)
(* the shell() loop body, with the pipes it opens, the ends it hands to   *)
(* the children it forks and the ends it closes.  A child's stdin and     *)
(* stdout are what its dup2 calls find in its copy of the file table.     *)
(* The two sources differ in one place, ReleaseEarly.                     *)
(***************************************************************************)
EXTENDS NumberPipes

CONSTANTS
    FdNum,          \* file descriptors a process can open beside 0, 1 and 2
    MaxN,           \* the largest N of |N (1000 in the assignment)
    MaxStage,       \* bound on the commands of a line
    MaxLine,        \* bound on the lines entered
    ReleaseEarly    \* hw1 closes the numbered pipe it reads after every stage
                    \* of a line |N, hw2/1 only after the last one

Fd == 1..FdNum
Closed == <<>>      \* a free slot of the file table
Terminal == <<"terminal">>

ASSUME NpShellAssumption ==
    /\ FdNum \in Nat /\ MaxN \in Nat /\ MaxStage \in Nat /\ MaxLine \in Nat
    /\ ReleaseEarly \in BOOLEAN

VARIABLES
    fds,            \* the shell's file table: an end <<pipe, "r">> or <<pipe, "w">>, or Closed
    number_pipe,    \* numbered pipes that wait: [r, w, number]
    cur,            \* numbered pipes that are due, the first is read
    ended,          \* "no", "exit", or "noPipe": a pipe() failed
    ins, outs,      \* stdin and stdout of the children of the last line
    (* auxiliary *)
    line,           \* lines entered; pipe i of line l is <<l, i>>, a numbered one <<l, 0>>
    aim,            \* aim[l]: the line that line l's |N means, 0 if none
    wrote,          \* wrote[l]: the numbered pipe line l wrote to, or Closed
    missed          \* a built-in line came when a numbered pipe was due

vars == <<fds, number_pipe, cur, ended, ins, outs, line, aim, wrote, missed>>

Init ==
    /\ fds = [d \in Fd |-> Closed]
    /\ number_pipe = <<>> /\ cur = <<>>
    /\ ended = "no"
    /\ ins = <<>> /\ outs = <<>>
    /\ line = 0
    /\ aim = [l \in 1..MaxLine |-> 0] /\ wrote = [l \in 1..MaxLine |-> Closed]
    /\ missed = FALSE
-----------------------------------------------------------------------------
(***************************************************************************)
(* A line at work: its file table, the numbered pipes due, the pipes pi   *)
(* between its commands, and the stdin and stdout of the children so far. *)
(***************************************************************************)
Work(table, due) ==
    [fds |-> table, cur |-> due, pi |-> <<>>, ins |-> <<>>, outs |-> <<>>, ok |-> TRUE]

Free(table) == {d \in Fd : table[d] = Closed}
Open(table) == Fd \ Free(table)

(* pipe(): the two lowest free descriptors. *)
Ends(table) == LET r == Min(Free(table)) IN [r |-> r, w |-> Min(Free(table) \ {r})]
Piped(table, ends, pipe) ==
    [table EXCEPT ![ends.r] = <<pipe, "r">>, ![ends.w] = <<pipe, "w">>]

(* close(): nothing happens to a descriptor that is free. *)
Shut(table, closing) == [d \in Fd |-> IF d \in closing THEN Closed ELSE table[d]]

ShutCurWrite(work) ==
    IF work.cur = <<>> THEN work
    ELSE [work EXCEPT !.fds = Shut(@, {work.cur[1].w})]

(* Mutants of Release: only the write end is closed, and cur keeps its entry. *)
ReleaseWrite(work) ==
    IF work.cur = <<>> THEN work
    ELSE [work EXCEPT !.fds = Shut(@, {work.cur[1].w}), !.cur = SubSeq(@, 1, Len(@) - 1)]

ReleaseNoPop(work) ==
    IF work.cur = <<>> THEN work
    ELSE [work EXCEPT !.fds = Shut(@, {work.cur[1].r, work.cur[1].w})]

(* The parent lets go of the pipe that was read: the ends of the first entry *)
(* are closed, the last entry is popped.                                     *)
Release(work) ==
    IF work.cur = <<>> THEN work
    ELSE [work EXCEPT !.fds = Shut(@, {work.cur[1].r, work.cur[1].w}),
                      !.cur = SubSeq(@, 1, Len(@) - 1)]

(* What a child finds under a descriptor: dup2 of a free one changes nothing. *)
Own == 0    \* no dup2: the child keeps the shell's own stdin or stdout
Found(table, d) == IF d \in Open(table) THEN table[d] ELSE Terminal
CurRead(work) == IF work.cur = <<>> THEN Own ELSE work.cur[1].r

Forked(work, in, out) == [work EXCEPT !.ins = Append(@, in), !.outs = Append(@, out)]

(***************************************************************************)
(* Stage i of k: open its pipe, fork, close the pipe's write end and the  *)
(* previous pipe's read end, and let go of the numbered pipe if it is     *)
(* time.  The last stage writes to sink; its pipe is opened all the same, *)
(* and nobody closes the read end.  For the first stage the code closes   *)
(* pi[-1][0], the word below the array: the call before it left its       *)
(* return address there, which is no descriptor, so that close fails.     *)
(* A pipeline closes the write end of cur[0] anew at each stage.          *)
(***************************************************************************)
Stage(work, i, k, sink, release) ==
    IF ~work.ok \/ Cardinality(Free(work.fds)) < 2 THEN [work EXCEPT !.ok = FALSE]
    ELSE LET ends   == Ends(work.fds)
             opened == [work EXCEPT !.fds = Piped(@, ends, <<line + 1, i>>), !.pi = Append(@, ends)]
             atFork == IF sink = Own THEN ShutCurWrite(opened) ELSE opened
             child  == Shut(atFork.fds, IF i = 1 THEN {ends.r} ELSE {})
             before == IF i = 1 THEN {} ELSE {work.pi[i - 1].r}
             in     == IF i = 1 THEN CurRead(atFork) ELSE work.pi[i - 1].r
             out    == IF i = k THEN sink ELSE ends.w
             forked == Forked(atFork, Found(child, in), Found(child, out))
             closed == [forked EXCEPT !.fds = Shut(@, {ends.w} \cup before)]
         IN  IF release THEN Release(closed) ELSE closed

Stages(work, k, sink, releasing) ==
    FoldLeft(LAMBDA w, i : Stage(w, i, k, sink, i \in releasing), work, [i \in 1..k |-> i])
-----------------------------------------------------------------------------
(* The numbered pipe that this line reads: is_pop. *)
Due(pipes) == WithCount(Counted(pipes), 0)

(* A line at its start, once the numbered pipes are counted. *)
AtStart(table) == Work(table, cur \o Due(number_pipe))

(* A line that ran as w says and leaves these numbered pipes waiting. *)
Ran(w, pipes) ==
    /\ ended = "no" /\ line < MaxLine
    /\ line' = line + 1
    /\ fds' = w.fds /\ cur' = w.cur /\ number_pipe' = pipes
    /\ ins' = w.ins /\ outs' = w.outs
    /\ ended' = IF w.ok THEN "no" ELSE "noPipe"

(* setenv and printenv: a pipe that is due stays in cur. *)
BuiltIn ==
    /\ Ran(AtStart(fds), Waiting(number_pipe))
    /\ missed' = (missed \/ Due(number_pipe) # <<>>)
    /\ UNCHANGED <<aim, wrote>>

(* exit, or the end of the input. *)
Exit ==
    /\ ended = "no"
    /\ ended' = "exit"
    /\ UNCHANGED <<fds, number_pipe, cur, ins, outs, line, aim, wrote, missed>>

(* One command: it is waited for before the ends are closed. *)
Single ==
    LET w == ShutCurWrite(AtStart(fds)) IN
    /\ Ran(Release(Forked(w, Found(w.fds, CurRead(w)), Terminal)), Waiting(number_pipe))
    /\ UNCHANGED <<aim, wrote, missed>>

(* k commands, the last of which writes to the terminal. *)
Pipeline(k) ==
    /\ Ran(Stages(AtStart(fds), k, Own, 1..k), Waiting(number_pipe))
    /\ UNCHANGED <<aim, wrote, missed>>

(* Mutant of Sharing: every line |n gets a pipe of its own. *)
SharingNever(n) == <<>>

(* The numbered pipes that wait with the count n. *)
Sharing(n) == WithCount(Waiting(number_pipe), n)

(* Mutant of LetGo: after every stage, as hw1 does. *)
LetGoAtOnce(i, k) == TRUE

LetGo(i, k) == ReleaseEarly \/ i = k

(* One command, or k of them, whose output goes to the write end of ends. *)
OneTo(work, ends) ==
    LET w     == ShutCurWrite(work)
        child == Shut(w.fds, {ends.r})
    IN  Release(Forked(w, Found(child, CurRead(w)), Found(child, ends.w)))

ManyTo(work, ends, k) ==
    Stages(ShutCurWrite(work), k, ends.w, {i \in 1..k : LetGo(i, k)})

(***************************************************************************)
(* A line of k commands that ends in |n or !n; the commands are known.    *)
(* (The last child of several has no exit() behind exec and would go on   *)
(* as a second shell if its command were not.)                            *)
(***************************************************************************)
Numbered(k, n) ==
    LET shared == Sharing(n)
        fresh  == shared = <<>>
        ends   == IF fresh THEN Ends(fds) ELSE [r |-> shared[1].r, w |-> shared[1].w]
        table  == IF fresh THEN Piped(fds, ends, <<line + 1, 0>>) ELSE fds
        pipes  == Waiting(number_pipe) \o
                  IF fresh THEN << [r |-> ends.r, w |-> ends.w, number |-> n] >> ELSE <<>>
        w      == IF k = 1 THEN OneTo(AtStart(table), ends) ELSE ManyTo(AtStart(table), ends, k)
    IN  IF fresh /\ Cardinality(Free(fds)) < 2
        THEN /\ Ran([AtStart(fds) EXCEPT !.ok = FALSE], Waiting(number_pipe))
             /\ UNCHANGED <<aim, wrote, missed>>
        ELSE /\ Ran(w, pipes) /\ UNCHANGED missed
             /\ aim' = [aim EXCEPT ![line + 1] = line + 1 + n]
             /\ wrote' = [wrote EXCEPT ![line + 1] =
                             IF w.ok /\ w.outs[k] # Terminal THEN w.outs[k][1] ELSE Closed]

Next ==
    \/ BuiltIn \/ Exit \/ Single
    \/ \E k \in 2..MaxStage : Pipeline(k)
    \/ \E k \in 1..MaxStage, n \in 1..MaxN : Numbered(k, n)

Spec == Init /\ [][Next]_vars
-----------------------------------------------------------------------------
Pipe == (1..MaxLine) \X (0..MaxStage)
End == Pipe \X {"r", "w"}

(* The values each variable can have. *)
TypeOK ==
    /\ fds \in [Fd -> End \cup {Closed}]
    /\ number_pipe \in Seq([r : Fd, w : Fd, number : 1..MaxN])
    /\ cur \in Seq([r : Fd, w : Fd, number : {0}])
    /\ ended \in {"no", "exit", "noPipe"}
    /\ ins \in Seq(End \cup {Terminal}) /\ outs \in Seq(End \cup {Terminal})
    /\ line \in 0..MaxLine
    /\ aim \in [1..MaxLine -> 0..MaxLine + MaxN]
    /\ wrote \in [1..MaxLine -> Pipe \cup {Closed}]
    /\ missed \in BOOLEAN

BothEnds(pipe, e) == fds[e.r] = <<pipe, "r">> /\ fds[e.w] = <<pipe, "w">>

(* Until a pipe is due at a built-in line: every numbered pipe that waits   *)
(* has both its ends in the shell's file table, under the descriptors noted *)
(* for it, whatever the lines in between opened and closed.                 *)
PendingIntact ==
    ended # "noPipe" /\ ~missed =>
        /\ cur = <<>>
        /\ \A i \in DOMAIN number_pipe :
              \E l \in 1..MaxLine : BothEnds(<<l, 0>>, number_pipe[i])
        /\ \A i, j \in DOMAIN number_pipe : number_pipe[i].r = number_pipe[j].r => i = j

(* The lines whose output the first command of the last line reads. *)
Input == IF ins = <<>> \/ Head(ins) = Terminal THEN {}
         ELSE {l \in 1..MaxLine : Head(ins) = <<wrote[l], "r">>}
Aimed == {l \in 1..MaxLine : aim[l] = line}

(* Until a pipe is due at a built-in line: the first command of a line      *)
(* reads the output of exactly the lines whose |N counts down to it,        *)
(* however they were spread, shared and interleaved.                        *)
OnTime == ~missed /\ ended # "noPipe" /\ ins # <<>> => Input = Aimed

(* Until a pipe is due at a built-in line: each command of a line reads the *)
(* pipe the command before it writes.                                       *)
Joined ==
    ~missed =>
        \A i \in 2..Len(ins) :
            \E pipe \in Pipe : outs[i - 1] = <<pipe, "w">> /\ ins[i] = <<pipe, "r">>

(* Until a pipe is due at a built-in line: each line gives back what it     *)
(* opened, but for the two ends of each numbered pipe that waits and, after *)
(* a line of several commands, the read end of the pipe opened for the last *)
(* one (which the second close of a numbered pipe may happen to hit).       *)
Spare(table, pipes) == Cardinality(Open(table)) - 2 * Len(pipes)
OneEndLeftAtMost ==
    [][~missed' /\ ended' # "noPipe" =>
        Spare(fds', number_pipe') - Spare(fds, number_pipe) \in
            IF Len(ins') > 1 THEN {0, 1} ELSE {0}]_vars
=============================================================================
