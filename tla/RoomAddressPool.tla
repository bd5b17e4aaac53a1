--------------------------- MODULE RoomAddressPool ---------------------------
(***************************************************************************)
(* The pool that gives each room its subnet (crates/r2n-room,              *)
(* RoomAddressPool).  The subnets of the pool are numbered 1 .. RoomCount  *)
(* in the order of candidate_indices, so "the first candidate that fits"   *)
(* is the least number that fits.  Two subnets of the pool have the same   *)
(* prefix length, hence overlap only when they are equal; a network to     *)
(* avoid is abstracted to the set of pool subnets it overlaps.             *)
(***************************************************************************)
EXTENDS Integers

CONSTANTS
    RoomIds,    \* room identifiers (random 128-bit numbers in the code)
    RoomCount   \* how many subnets the pool holds

(* 2^(room_prefix_len - pool_prefix) with room_prefix_len >= pool_prefix *)
ASSUME RoomCountAssumption == RoomCount \in Nat \ {0}

NoCidr == 0
Cidrs == 1 .. RoomCount
Allocations == [RoomIds -> Cidrs \cup {NoCidr}]

NewPool == [r \in RoomIds |-> NoCidr]

(* Mutant of FreeCidrs: subnets of other rooms are not skipped. *)
FreeCidrsShared(allocations, avoid) == Cidrs \ avoid

FreeCidrs(allocations, avoid) ==
    {c \in Cidrs \ avoid : \A q \in RoomIds : allocations[q] # c}

(***************************************************************************)
(* RoomAddressPool::allocate_with_avoidance: the set holding the subnet it *)
(* returns, empty when it fails with AddressPoolExhausted.                 *)
(***************************************************************************)
allocate_with_avoidance(allocations, r, avoid) ==
    IF allocations[r] # NoCidr
    THEN {allocations[r]}
    ELSE {c \in FreeCidrs(allocations, avoid) :
            \A d \in FreeCidrs(allocations, avoid) : c <= d}

allocate(allocations, r) == allocate_with_avoidance(allocations, r, {})
=============================================================================
