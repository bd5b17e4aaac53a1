-------------------------------- MODULE Lists --------------------------------
(***************************************************************************)
(* What the edge uses of Rust's vectors: filter and retain, sort_by_key    *)
(* with Reverse, which is stable, and truncate or take.                    *)
(***************************************************************************)
EXTENDS Integers, Sequences, Functions

(* The entries at the positions in keep, in their order *)
Picked(list, keep) ==
    LET kept[n \in Nat] ==
            IF n = 0 THEN <<>>
            ELSE IF n \in keep THEN Append(kept[n - 1], list[n]) ELSE kept[n - 1]
    IN  kept[Len(list)]

(* Where position n goes among those placed before: behind all whose keys are as high *)
PlaceFor(n, placed, keys) ==
    CHOOSE p \in 1 .. n :
        /\ p = n \/ keys[placed[p]] < keys[n]
        /\ \A i \in 1 .. p - 1 : keys[placed[i]] >= keys[n]

Inserted(n, at, placed) == SubSeq(placed, 1, at - 1) \o <<n>> \o SubSeq(placed, at, n - 1)

(* The positions by their keys, the highest first *)
DescendingOrder(keys) ==
    LET order[n \in Nat] ==
            IF n = 0 THEN <<>>
            ELSE LET placed == order[n - 1] IN Inserted(n, PlaceFor(n, placed, keys), placed)
    IN  order[Len(keys)]

SortedDown(list, keys) ==
    LET order == DescendingOrder(keys)
    IN  [k \in DOMAIN list |-> list[order[k]]]

FirstOf(list, most) == SubSeq(list, 1, IF Len(list) < most THEN Len(list) ELSE most)
==============================================================================
