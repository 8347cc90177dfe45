------------------------------ MODULE Firewall ------------------------------
(***************************************************************************)
(* firewall() of hw4's SOCKS server, which reads socks.conf anew for each *)
(* request.  A rule is [kind, octets]: kind "c" (CONNECT) or "b" (BIND),  *)
(* four octets of which any may be the wildcard.                          *)
(***************************************************************************)
EXTENDS Integers, SequencesExt

CONSTANTS
    Octet,      \* octets of addresses
    Wild,       \* the wildcard *
    Pattern,    \* patterns in the file
    MaxRule     \* bound on the lines of the file

Kind == {"c", "b"}
Address == [1..4 -> Octet]
File == UNION {[1..n -> [kind : Kind, octets : Pattern]] : n \in 0..MaxRule}

ASSUME FirewallAssumption ==
    /\ MaxRule \in Nat /\ Wild \notin Octet
    /\ Pattern \subseteq [1..4 -> Octet \cup {Wild}]
-----------------------------------------------------------------------------
(* Mutant of Matches: the loop stops before the first octet. *)
MatchesTail(pattern, address) == \A i \in 2..4 : pattern[i] \in {Wild, address[i]}

(* The loop over the octets: each is the wildcard or equal. *)
Matches(pattern, address) == \A i \in 1..4 : pattern[i] \in {Wild, address[i]}

(* One line: a rule of the kind sets re by whether it matches, and the  *)
(* function returns as soon as re is true.                              *)
Consider(kind, address, acc, rule) ==
    IF acc.returned \/ rule.kind # kind THEN acc
    ELSE [re |-> Matches(rule.octets, address), returned |-> Matches(rule.octets, address)]

firewall(kind, address, lines) ==
    FoldLeft(LAMBDA acc, rule : Consider(kind, address, acc, rule),
             [re |-> TRUE, returned |-> FALSE], lines).re

(* The address that the answer of a lookup is taken for. *)
Looked(a) == <<a[1], a[2], a[2], a[2]>>
-----------------------------------------------------------------------------
(* When the file has rules of its kind, a request is accepted if and only   *)
(* if one of them, wherever in the file it stands, matches; the flag that   *)
(* the loop carries from rule to rule does not show.                        *)
AcceptsByRules ==
    \A lines \in File, kind \in Kind, a \in Address :
        LET own == {i \in DOMAIN lines : lines[i].kind = kind} IN
        own # {} =>
            (firewall(kind, a, lines) <=>
                \E i \in own : \A k \in 1..4 : lines[i].octets[k] \in {Wild, a[k]})
=============================================================================
