----------------------------- MODULE UserPipes -----------------------------
(***************************************************************************)
(* The table of user pipes, vector<User_Pipe> of Client_Mananger: each    *)
(* entry is the pair <<in_id, out_id>> of the writer's and the reader's   *)
(* user number.  Only the order of the entries matters beside the pairs:  *)
(* free_user_pipe erases while it walks the vector.                       *)
(***************************************************************************)
EXTENDS Integers, SequencesExt

(* Mutant of Has: the two numbers compared the wrong way round. *)
HasSwapped(table, pipe) == \E i \in DOMAIN table : table[i] = <<pipe[2], pipe[1]>>

(* find_user_pipe(in, out) # NULL, and the negation of check_repeat. *)
Has(table, pipe) == \E i \in DOMAIN table : table[i] = pipe

(* add_user_pipe. *)
Add(table, pipe) == IF Has(table, pipe) THEN table ELSE Append(table, pipe)

(* Mutant of Del: erases the first pipe to the same reader. *)
DelByReader(table, pipe) ==
    IF Has(table, pipe)
    THEN RemoveAt(table, SelectInSeq(table, LAMBDA p : p[2] = pipe[2]))
    ELSE table

(* del_user_pipe: erase the first entry for this pair, if any. *)
Del(table, pipe) ==
    IF Has(table, pipe)
    THEN RemoveAt(table, SelectInSeq(table, LAMBDA p : p = pipe))
    ELSE table

(* Mutant of FreeStep: without the test of out_id. *)
FreeStepOneEnd(id, acc, pipe) ==
    IF pipe[1] = id THEN acc ELSE [acc EXCEPT !.kept = Append(@, pipe)]

(***************************************************************************)
(* free_user_pipe(id).  At index i the loop tests the entry's in_id, then *)
(* the out_id of the entry that is at i by then, then moves to i+1.  An   *)
(* erase shifts the vector left, so "look" says which tests the entry     *)
(* that comes next still gets: after the first erase at i only the second *)
(* test, after the second erase none.                                     *)
(***************************************************************************)
FreeStep(id, acc, pipe) ==
    CASE acc.look = "both" /\ pipe[1] = id ->
            [acc EXCEPT !.look = "second"]
      [] acc.look \in {"both", "second"} /\ pipe[2] = id ->
            [acc EXCEPT !.look = "none"]
      [] OTHER ->
            [kept |-> Append(acc.kept, pipe), look |-> "both"]

FreeUserPipe(id, table) ==
    FoldLeft(LAMBDA acc, pipe : FreeStep(id, acc, pipe),
             [kept |-> <<>>, look |-> "both"], table).kept
=============================================================================
