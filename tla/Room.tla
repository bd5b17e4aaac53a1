-------------------------------- MODULE Room --------------------------------
(***************************************************************************)
(* A room of the supernode (crates/r2n-room): its members, the address     *)
(* leases that outlive membership, and the allocation of virtual           *)
(* addresses.  A virtual address is abstracted to its host number inside   *)
(* the room's subnet; a subnet is abstracted to its position in the order  *)
(* in which RoomAddressPool tries them.                                    *)
(*                                                                         *)
(* A HashMap is a total function whose value NoIp means "no entry".        *)
(***************************************************************************)
EXTENDS Integers

CONSTANTS
    NodeIds,    \* the nodes that may register
    LastHost    \* the highest host number below the subnet's broadcast address

(***************************************************************************)
(* RoomAddressPool::new refuses a room prefix longer than /30, so a subnet *)
(* has at least two usable hosts.                                          *)
(***************************************************************************)
ASSUME LastHostAssumption == LastHost \in Nat /\ LastHost >= 2

NoIp == 0
Hosts == 1 .. LastHost
Roles == {"Owner", "Guest"}
IpTable == [NodeIds -> Hosts \cup {NoIp}]

Rooms(Cidrs, Tokens) ==
    [virtual_cidr: Cidrs, join_token: Tokens, members: IpTable, ip_leases: IpTable]

NewRoom(cidr, token) ==
    [virtual_cidr |-> cidr,
     join_token   |-> token,
     members      |-> [n \in NodeIds |-> NoIp],
     ip_leases    |-> [n \in NodeIds |-> NoIp]]

Members(room) == {n \in NodeIds : room.members[n] # NoIp}

LeasesDistinct(room) ==
    \A m, n \in NodeIds :
        room.ip_leases[m] = room.ip_leases[n] /\ room.ip_leases[n] # NoIp => m = n

(***************************************************************************)
(* Room::allocate_ip.  The result is the set holding the address it        *)
(* returns; the empty set is AddressPoolExhausted.                         *)
(***************************************************************************)
LeaseReusable(room, n) ==
    /\ room.ip_leases[n] # NoIp
    /\ \A m \in NodeIds \ {n} : room.members[m] # room.ip_leases[n]

PreferredHost(role) == IF role = "Owner" THEN 1 ELSE 2

(* Mutant of FreeHosts: the broadcast address is handed out too. *)
FreeHostsToBroadcast(room, role) ==
    {h \in 1 .. LastHost + 1 : /\ h >= PreferredHost(role)
                               /\ \A m \in NodeIds : room.members[m] # h /\ room.ip_leases[m] # h}

FreeHosts(room, role) ==
    {h \in Hosts : /\ h >= PreferredHost(role)
                   /\ \A m \in NodeIds : room.members[m] # h /\ room.ip_leases[m] # h}

allocate_ip(room, n, role) ==
    IF LeaseReusable(room, n)
    THEN {room.ip_leases[n]}
    ELSE {h \in FreeHosts(room, role) : \A k \in FreeHosts(room, role) : h <= k}

(* Mutant of add_member: the address is not entered as a lease. *)
add_member_unleased(room, n, ip) == [room EXCEPT !.members[n] = ip]

(* Room::add_member, with the address allocate_ip returned: add_or_reuse_member. *)
add_member(room, n, ip) ==
    [room EXCEPT !.members[n] = ip, !.ip_leases[n] = ip]

(* Mutant of remove_member: the lease goes with the membership. *)
remove_member_and_lease(room, n) == [room EXCEPT !.members[n] = NoIp, !.ip_leases[n] = NoIp]

(* Room::remove_member: the lease stays. *)
remove_member(room, n) == [room EXCEPT !.members[n] = NoIp]
=============================================================================
