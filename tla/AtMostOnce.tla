----------------------------- MODULE AtMostOnce -----------------------------
(***************************************************************************)
(* What a receiver promises about the packets it lets through: each one    *)
(* is delivered at most once, in any order, and any of them may never be.  *)
(***************************************************************************)
EXTENDS Naturals

CONSTANT Packets
VARIABLE delivered      \* how often each packet was let through

Init == delivered = [p \in Packets |-> 0]

Deliver(p) ==
    /\ delivered[p] = 0
    /\ delivered' = [delivered EXCEPT ![p] = 1]

Next == \E p \in Packets : Deliver(p)

Spec == Init /\ [][Next]_delivered
=============================================================================
