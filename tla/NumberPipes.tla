---------------------------- MODULE NumberPipes ----------------------------
(***************************************************************************)
(* The numbered pipes of one shell: vector<Number_Pipe> and what shell()  *)
(* does to it on every command line.  An entry is                         *)
(*   [number |-> lines left before it is read, due |-> ...]               *)
(* where due is auxiliary: the line (modulo a clock) its first writer     *)
(* asked for.  The operators never look at it.                            *)
(***************************************************************************)
EXTENDS Integers, Filters

(* Number_Pipe::is_pop on every entry: one line less to wait. *)
Counted(pipes) == [i \in DOMAIN pipes |-> [pipes[i] EXCEPT !.number = @ - 1]]

(* Mutant of Waiting: the entry that is due stays, too. *)
WaitingWithDue(pipes) == Counted(pipes)

(* The entries that stay in the vector after the backward erase loop. *)
Waiting(pipes) ==
    LET counted == Counted(pipes) IN Among(counted, {p \in ToSet(counted) : p.number # 0})

(* The entries with this count. *)
WithCount(pipes, n) == Among(pipes, {p \in ToSet(pipes) : p.number = n})

(* Mutant of Aim: never looks for an entry with this count. *)
AimAnew(pipes, n, due) == Append(pipes, [number |-> n, due |-> due])

(* The first entry with this count, if there is one, is written to; *)
(* otherwise a new pipe is pushed.                                   *)
Aim(pipes, n, due) ==
    IF \E i \in DOMAIN pipes : pipes[i].number = n
    THEN pipes
    ELSE Append(pipes, [number |-> n, due |-> due])
=============================================================================
