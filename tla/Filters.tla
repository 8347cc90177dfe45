------------------------------ MODULE Filters ------------------------------
(***************************************************************************)
(* The loop over a vector that keeps some of its elements.                *)
(***************************************************************************)
EXTENDS SequencesExt

(* The elements of seq that are wanted, in their order. *)
Among(seq, wanted) ==
    FoldLeft(LAMBDA kept, x : IF x \in wanted THEN Append(kept, x) ELSE kept, <<>>, seq)
=============================================================================
