----------------------------- MODULE MCConsole -----------------------------
(* Instances of Console for TLC.  Sessions are interchangeable, but        *)
(* liveness is checked: no symmetry.                                       *)
EXTENDS Console

(* With and without output that has a '%', and without an exit. *)
SomeFiles ==
    { <<"plain", "quiet", "plain", "exit">>, <<"mark", "plain", "exit">>,
      <<"mark", "mark", "quiet", "exit">>, <<"plain">> }
=============================================================================
