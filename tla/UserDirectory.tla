--------------------------- MODULE UserDirectory ---------------------------
(***************************************************************************)
(* What the remote working ground promises about its users, without       *)
(* sockets, vectors or id maps: who is logged in, under which number and  *)
(* which name.  A newcomer gets the smallest free number, a number is     *)
(* given back at logout, and nobody can take a name that is in use.       *)
(***************************************************************************)
EXTENDS Naturals

CONSTANTS
    MaxId,    \* the numbers are 1..MaxId
    Name,     \* the names a user may ask for
    NoName    \* the name of a user that asked for none

VARIABLE user    \* user[n] is the name of the user logged in under number n

Free == (1..MaxId) \ DOMAIN user

Init == user = [n \in {} |-> NoName]

Login ==
    \E n \in Free :
        /\ \A m \in Free : n <= m
        /\ user' = [m \in DOMAIN user \cup {n} |->
                        IF m = n THEN NoName ELSE user[m]]

Logout(n) ==
    user' = [m \in DOMAIN user \ {n} |-> user[m]]

Rename(n, name) ==
    /\ \A m \in DOMAIN user : user[m] # name
    /\ user' = [user EXCEPT ![n] = name]

Next ==
    \/ Login
    \/ \E n \in DOMAIN user : \/ Logout(n)
                              \/ \E name \in Name : Rename(n, name)

Spec == Init /\ [][Next]_user
=============================================================================
