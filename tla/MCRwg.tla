------------------------------- MODULE MCRwg -------------------------------
(* Instances of Rwg for TLC.  Sockets and names are interchangeable; user  *)
(* numbers are not (the smallest free one is given out).                   *)
EXTENDS Rwg, TLC

Symmetry == Permutations(Fd) \cup Permutations(Name)
=============================================================================
