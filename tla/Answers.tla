------------------------------ MODULE Answers ------------------------------
(***************************************************************************)
(* What a web server of hw3 owes its browsers.  A browser asks once.  The  *)
(* answer has a head, which is sent first, and pieces from one or more     *)
(* sources; what the page shows are pieces of this browser's own answer,   *)
(* each once, those of a source in their order; the page ends only when    *)
(* it is complete, and then stays as it is.                                *)
(***************************************************************************)
EXTENDS Naturals, Sequences

CONSTANTS
    Browser,
    Source,     \* where pieces come from
    First        \* the source of the head of an answer

VARIABLES
    answer,     \* answer[b][s]: how many pieces of source s b's answer has
    page,       \* page[b]: the pieces b has got
    over        \* over[b]: b has been told that the page is at its end

vars == <<answer, page, over>>

NoAnswer == [s \in Source |-> 0]    \* the answer of a browser that has not asked

Piece(b, s, k) == [whose |-> b, from |-> s, nth |-> k]
Pieces(b) == UNION {{Piece(b, s, k) : k \in 1..answer[b][s]} : s \in Source}

(* The pieces of b's answer that must be on the page before p. *)
Earlier(b, p) ==
    {q \in Pieces(b) : \/ q.from = p.from /\ q.nth < p.nth
                       \/ q.from = First /\ p.from # First}

Shown(b) == {page[b][i] : i \in DOMAIN page[b]}
Complete(b) == answer[b] # NoAnswer /\ Pieces(b) \subseteq Shown(b)

Own(b) ==
    /\ Shown(b) \subseteq Pieces(b)
    /\ \A i, j \in DOMAIN page[b] : page[b][i] = page[b][j] => i = j
    /\ \A i \in DOMAIN page[b] :
          Earlier(b, page[b][i]) \subseteq {page[b][j] : j \in 1..i - 1}

Init ==
    /\ answer = [b \in Browser |-> NoAnswer]
    /\ page = [b \in Browser |-> <<>>]
    /\ over = [b \in Browser |-> FALSE]

(* What a step may do to browser b. *)
Asks(b)  == answer[b]' # answer[b] => answer[b] = NoAnswer /\ page[b] = <<>>
Shows(b) == /\ Len(page[b]) <= Len(page[b]') /\ SubSeq(page[b]', 1, Len(page[b])) = page[b]
            /\ Own(b)'
Ends(b)  == /\ over[b] => over[b]' /\ page[b]' = page[b]
            /\ over[b]' => Complete(b)'

Next == \A b \in Browser : Asks(b) /\ Shows(b) /\ Ends(b)

Spec == Init /\ [][Next]_vars
=============================================================================
