---------------------------- MODULE MCCgiServer -----------------------------
(* Instances of CgiServer for TLC. *)
EXTENDS CgiServer

CONSTANTS s1, s2

Page(name, one, two, stays) ==
    [page |-> name, shows |-> [s \in Session |-> IF s = s1 THEN one ELSE two], stays |-> stays]

(* The panel, something else, a console of two sessions and one with a      *)
(* session that never ends.                                                 *)
Requests ==
    {Page("panel", 0, 0, FALSE), Page("other", 0, 0, FALSE),
     Page("console", 2, 1, FALSE), Page("console", 1, 0, TRUE)}
=============================================================================
