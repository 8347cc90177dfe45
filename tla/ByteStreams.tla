---------------------------- MODULE ByteStreams ----------------------------
(***************************************************************************)
(* What a relay promises in each direction: the sink is always a prefix   *)
(* of the source, and both only grow at their ends.                       *)
(***************************************************************************)
EXTENDS SequencesExt

CONSTANT Dir

VARIABLES source, sink

Init == source = [d \in Dir |-> <<>>] /\ sink = [d \in Dir |-> <<>>]

(* The sender of direction d adds to its source. *)
Send(d) ==
    /\ IsStrictPrefix(source[d], source'[d])
    /\ \A e \in Dir \ {d} : source'[e] = source[e]
    /\ UNCHANGED sink

(* The receiver of direction d gets some of what it has not got yet. *)
Deliver(d) ==
    /\ IsStrictPrefix(sink[d], sink'[d]) /\ IsPrefix(sink'[d], source[d])
    /\ \A e \in Dir \ {d} : sink'[e] = sink[e]
    /\ UNCHANGED source

Next == \E d \in Dir : Send(d) \/ Deliver(d)

Spec == Init /\ [][Next]_<<source, sink>>
=============================================================================
