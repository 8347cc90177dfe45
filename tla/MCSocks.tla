------------------------------ MODULE MCSocks ------------------------------
(* Instances of Socks for TLC. *)
EXTENDS Socks

(* Whole addresses, networks, everything. *)
Patterns ==
    {<<1, 1, 1, 1>>, <<2, 1, 1, 2>>, <<1, 2, 1, 1>>, <<1, 2, Wild, Wild>>,
     <<2, 2, Wild, Wild>>, <<1, 2, 1, Wild>>, <<Wild, Wild, Wild, Wild>>}

(* CONNECT to one network, BIND for one address. *)
TwoRules ==
    << [kind |-> "c", octets |-> <<1, 2, Wild, Wild>>],
       [kind |-> "b", octets |-> <<1, 1, 1, 1>>] >>

(* A name in the network and one outside; the two lookups of a name agree *)
(* on whether it exists.                                                   *)
Names == {<< <<1, 2, 1, 1>>, TRUE >>, << <<2, 1, 1, 2>>, TRUE >>, <<NoAddress, FALSE>>}
=============================================================================
