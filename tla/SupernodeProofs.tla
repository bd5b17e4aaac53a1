--------------------------- MODULE SupernodeProofs ---------------------------
(***************************************************************************)
(* Theorems about the supernode: about its rooms (Supernode), for any      *)
(* number of nodes, addresses, rooms, subnets and hosts, and about its     *)
(* Relay, for any number of frames, slots, nodes and addresses.            *)
(*                                                                         *)
(* A step changes a room in one of four ways (RoomChange); what Room's     *)
(* operations do to one room's tables is proved once, in the lemmas, and   *)
(* the invariants follow.                                                  *)
(***************************************************************************)
EXTENDS Supernode, Relay, TLAPS

RoomRecs == Rooms(RoomCidrs, Tokens)

(* LeasesSound, for one room. *)
RoomSound(room) ==
    /\ \A n \in Members(room) : room.ip_leases[n] = room.members[n]
    /\ LeasesDistinct(room)

-----------------------------------------------------------------------------
(* The operations of Room *)

(* Room::new makes a room with nobody in it and no lease, which is sound. *)
LEMMA NewRoomFacts ==
    ASSUME NEW cidr \in RoomCidrs, NEW token \in Tokens
    PROVE  /\ NewRoom(cidr, token) \in RoomRecs
           /\ RoomSound(NewRoom(cidr, token))
           /\ NewRoom(cidr, token) # None
           /\ NewRoom(cidr, token).virtual_cidr = cidr
<1>1. NewRoom(cidr, token) \in RoomRecs
  BY Zenon DEF NewRoom, RoomRecs, Rooms, IpTable
<1>2. RoomSound(NewRoom(cidr, token))
  BY Zenon DEF NewRoom, RoomSound, Members, LeasesDistinct
<1>3. NewRoom(cidr, token) # None
  BY <1>1, SupernodeAssumption, Zenon DEF RoomRecs
<1>4. NewRoom(cidr, token).virtual_cidr = cidr
  BY Zenon DEF NewRoom
<1> QED
  BY <1>1, <1>2, <1>3, <1>4, Zenon

(* Room::allocate_ip returns the node's own lease, or a host that neither a member nor a lease holds. *)
LEMMA AllocateIpFacts ==
    ASSUME NEW room \in RoomRecs, NEW n \in NodeIds, NEW role \in Roles,
           NEW ip \in allocate_ip(room, n, role)
    PROVE  /\ ip \in Hosts
           /\ \/ LeaseReusable(room, n) /\ ip = room.ip_leases[n]
              \/ /\ ~LeaseReusable(room, n)
                 /\ \A m \in NodeIds : room.members[m] # ip /\ room.ip_leases[m] # ip
  BY LastHostAssumption, Zenon
  DEF allocate_ip, LeaseReusable, FreeHosts, RoomRecs, Rooms, IpTable, Hosts, NoIp

(* In a sound room a lease is always reusable: nobody else can be using the address. *)
LEMMA LeaseIsReusable ==
    ASSUME NEW room \in RoomRecs, RoomSound(room), NEW n \in NodeIds,
           room.ip_leases[n] # NoIp
    PROVE  LeaseReusable(room, n)
  BY Zenon DEF RoomSound, LeaseReusable, LeasesDistinct, Members, RoomRecs, Rooms, IpTable, NoIp, Hosts

(* Room::add_or_reuse_member keeps the tables typed and sound, and every lease that is there. *)
LEMMA AddMemberFacts ==
    ASSUME NEW room \in RoomRecs, RoomSound(room), NEW n \in NodeIds, NEW role \in Roles,
           NEW ip \in allocate_ip(room, n, role)
    PROVE  /\ add_member(room, n, ip) \in RoomRecs
           /\ RoomSound(add_member(room, n, ip))
           /\ \A m \in NodeIds : room.ip_leases[m] # NoIp =>
                 add_member(room, n, ip).ip_leases[m] = room.ip_leases[m]
           /\ add_member(room, n, ip).virtual_cidr = room.virtual_cidr
<1> DEFINE joined == add_member(room, n, ip)
<1>1. /\ ip \in Hosts
      /\ \/ ip = room.ip_leases[n]
         \/ /\ room.ip_leases[n] = NoIp
            /\ \A m \in NodeIds : room.members[m] # ip /\ room.ip_leases[m] # ip
  BY AllocateIpFacts, LeaseIsReusable, Zenon
<1>2. /\ joined \in RoomRecs
      /\ joined.members = [room.members EXCEPT ![n] = ip]
      /\ joined.ip_leases = [room.ip_leases EXCEPT ![n] = ip]
      /\ joined.virtual_cidr = room.virtual_cidr
  BY <1>1, Zenon DEF add_member, RoomRecs, Rooms, IpTable
<1>3. \A m \in NodeIds : room.ip_leases[m] # NoIp => joined.ip_leases[m] = room.ip_leases[m]
  BY <1>1, <1>2, Zenon DEF RoomRecs, Rooms, IpTable
<1>4. RoomSound(joined)
  <2>1. \A m \in Members(joined) : joined.ip_leases[m] = joined.members[m]
    BY <1>2, Zenon DEF RoomSound, Members, RoomRecs, Rooms, IpTable
  <2>2. LeasesDistinct(joined)
    <3> SUFFICES ASSUME NEW i \in NodeIds, NEW j \in NodeIds,
                        joined.ip_leases[i] = joined.ip_leases[j], joined.ip_leases[j] # NoIp
                 PROVE  i = j
      BY Zenon DEF LeasesDistinct
    <3> QED
      BY <1>1, <1>2 DEF RoomSound, LeasesDistinct, RoomRecs, Rooms, IpTable, Hosts, NoIp
  <2> QED
    BY <2>1, <2>2, Zenon DEF RoomSound
<1> QED
  BY <1>2, <1>3, <1>4, Zenon

(* Room::remove_member takes the membership and keeps every lease. *)
LEMMA RemoveMemberFacts ==
    ASSUME NEW room \in RoomRecs, NEW n \in NodeIds
    PROVE  /\ remove_member(room, n) \in RoomRecs
           /\ RoomSound(room) => RoomSound(remove_member(room, n))
           /\ remove_member(room, n).ip_leases = room.ip_leases
           /\ remove_member(room, n).virtual_cidr = room.virtual_cidr
<1> DEFINE left == remove_member(room, n)
<1>1. /\ left \in RoomRecs
      /\ left.members = [room.members EXCEPT ![n] = NoIp]
      /\ left.ip_leases = room.ip_leases
      /\ left.virtual_cidr = room.virtual_cidr
  BY Zenon DEF remove_member, RoomRecs, Rooms, IpTable
<1>2. RoomSound(room) => RoomSound(left)
  BY <1>1 DEF RoomSound, Members, LeasesDistinct, RoomRecs, Rooms, IpTable
<1> QED
  BY <1>1, <1>2, Zenon

-----------------------------------------------------------------------------
(* The operations of RoomAddressPool *)

(* An allocation is the one the room has, or a subnet that no room has. *)
LEMMA AllocateCidrFacts ==
    ASSUME NEW pool \in Allocations, NEW r \in RoomIds, NEW avoid,
           NEW cidr \in allocate_with_avoidance(pool, r, avoid)
    PROVE  /\ cidr \in Cidrs
           /\ cidr # NoCidr
           /\ pool[r] = NoCidr => \A q \in RoomIds : pool[q] # cidr
  BY RoomCountAssumption, Zenon
  DEF allocate_with_avoidance, FreeCidrs, Allocations, Cidrs, NoCidr

-----------------------------------------------------------------------------
(* How a step may change a room *)

(* rooms'[r] comes from base, the room the handler found or re-created, by Room's operations. *)
MadeFrom(base, r) ==
    \/ rooms'[r] = base
    \/ \E n \in NodeIds, role \in Roles : \E ip \in allocate_ip(base, n, role) :
          rooms'[r] = add_member(base, n, ip)
    \/ \E n \in NodeIds : rooms'[r] = remove_member(base, n)

RoomChange(r) ==
    \/ rooms[r] = None /\ rooms'[r] = None
    \/ rooms[r] # None /\ MadeFrom(rooms[r], r)
    \/ /\ rooms[r] = None
       /\ \E cidr \in RoomCidrs, token \in Tokens : MadeFrom(NewRoom(cidr, token), r)

(* The entry() of JoinRoom: the room that is there, or a new one on a subnet of the pool or the fallback. *)
LEMMA EntryFacts ==
    ASSUME TypeOK, NEW r \in RoomIds, NEW token \in Tokens, NEW room \in EntryRooms(r, token)
    PROVE  /\ room \in RoomRecs
           /\ rooms[r] # None => room = rooms[r]
           /\ rooms[r] = None =>
                 \E cidr \in RoomCidrs : /\ room = NewRoom(cidr, token)
                                         /\ cidr \in RestoredCidrs(r)
<1>1. CASE rooms[r] # None
  BY <1>1, Zenon DEF EntryRooms, TypeOK, RoomRecs
<1>2. CASE rooms[r] = None
  <2>1. PICK cidr \in RestoredCidrs(r) : room = NewRoom(cidr, token)
    BY <1>2, Zenon DEF EntryRooms
  <2>2. cidr \in RoomCidrs
    BY <2>1, AllocateCidrFacts, Zenon DEF RestoredCidrs, RoomCidrs, allocate, TypeOK
  <2> QED
    BY <1>2, <2>1, <2>2, NewRoomFacts, Zenon
<1> QED
  BY <1>1, <1>2, Zenon

(* Every step leaves every room alone, or applies one of Room's operations to it. *)
LEMMA RoomChanges ==
    ASSUME TypeOK, [Next]_vars, NEW r \in RoomIds
    PROVE  RoomChange(r)
<1> USE DEF TypeOK
<1>1. CASE rooms' = rooms
  BY <1>1, Zenon DEF RoomChange, MadeFrom
<1>2. ASSUME NEW a \in Addrs, NEW q \in RoomIds, NEW token \in Tokens, CreateRoom(a, q, token)
      PROVE  RoomChange(r)
  <2>1. PICK cidr \in allocate_with_avoidance(address_pool, q, LocalNetworks(addr_to_node[a])) :
        \E ip \in allocate_ip(NewRoom(cidr, token), addr_to_node[a], "Owner") :
           rooms' = [rooms EXCEPT ![q] = add_member(NewRoom(cidr, token), addr_to_node[a], ip)]
    BY <1>2, Zenon DEF CreateRoom
  <2>2. cidr \in RoomCidrs
    BY <2>1, AllocateCidrFacts, Zenon DEF RoomCidrs
  <2>3. addr_to_node[a] \in NodeIds /\ rooms[q] = None
    BY <1>2, Zenon DEF CreateRoom
  <2> QED
    BY <2>1, <2>2, <2>3 DEF RoomChange, MadeFrom, Roles
<1>3. ASSUME NEW a \in Addrs, NEW q \in RoomIds, NEW token \in Tokens,
             JoinRoomAccept(a, q, token) \/ JoinRoomReject(a, q, token)
               \/ JoinRoomExhausted(a, q, token)
      PROVE  RoomChange(r)
  <2> DEFINE n == addr_to_node[a]
  <2>1. PICK room \in EntryRooms(q, token) :
          /\ n \in NodeIds
          /\ \/ rooms' = [rooms EXCEPT ![q] = room]
             \/ \E ip \in allocate_ip(room, n, "Guest") :
                   rooms' = [rooms EXCEPT ![q] = add_member(room, n, ip)]
    <3>1. CASE JoinRoomAccept(a, q, token)
      <4>0. PICK room \in EntryRooms(q, token) :
              /\ JoinEntry(a, q, room)
              /\ \E joined \in JoinedRooms(room, n) : rooms' = [rooms EXCEPT ![q] = joined]
        BY <3>1, Zenon DEF JoinRoomAccept
      <4>1. PICK joined \in JoinedRooms(room, n) : rooms' = [rooms EXCEPT ![q] = joined]
        BY <4>0, Zenon
      <4>2. joined = room \/ \E ip \in allocate_ip(room, n, "Guest") : joined = add_member(room, n, ip)
        BY <4>1, Zenon DEF JoinedRooms
      <4>3. n \in NodeIds
        BY <4>0, Zenon DEF JoinEntry
      <4> QED
        BY <4>0, <4>1, <4>2, <4>3, Zenon
    <3>2. CASE JoinRoomReject(a, q, token)
      BY <3>2, Zenon DEF JoinRoomReject, JoinEntry
    <3>3. CASE JoinRoomExhausted(a, q, token)
      BY <3>3, Zenon DEF JoinRoomExhausted, JoinEntry
    <3> QED
      BY <1>3, <3>1, <3>2, <3>3, Zenon
  <2>2. /\ rooms[q] # None => room = rooms[q]
        /\ rooms[q] = None => \E cidr \in RoomCidrs : room = NewRoom(cidr, token)
    BY <2>1, EntryFacts
  <2>3. r = q => MadeFrom(room, r)
    BY <2>1, Zenon DEF MadeFrom, Roles
  <2>4. r # q => rooms'[r] = rooms[r]
    BY <2>1, Zenon
  <2> QED
    BY <2>2, <2>3, <2>4, Zenon DEF RoomChange, MadeFrom
<1>4. ASSUME NEW a \in Addrs, NEW q \in RoomIds, LeaveRoom(a, q)
      PROVE  RoomChange(r)
  <2>1. /\ addr_to_node[a] \in NodeIds /\ rooms[q] # None
        /\ rooms' = [rooms EXCEPT ![q] = remove_member(rooms[q], addr_to_node[a])]
    BY <1>4, Zenon DEF LeaveRoom
  <2> QED
    BY <2>1, Zenon DEF RoomChange, MadeFrom
<1> QED
  BY <1>1, <1>2, <1>3, <1>4
  DEF Next, Receive, vars, RegisterNode, Unregistered, OtherFrame, CreateRoomExhausted,
      Silence, Kick, Reap, loop_vars

(* What RoomChange means for one room: it stays typed and sound, and keeps its leases. *)
LEMMA RoomChangeFacts ==
    ASSUME TypeOK, LeasesSound, NEW r \in RoomIds, RoomChange(r)
    PROVE  /\ rooms'[r] \in RoomRecs \cup {None}
           /\ rooms'[r] # None => RoomSound(rooms'[r])
           /\ rooms[r] # None /\ rooms'[r] # None =>
                 \A n \in NodeIds : rooms[r].ip_leases[n] # NoIp =>
                     rooms'[r].ip_leases[n] = rooms[r].ip_leases[n]
<1>1. ASSUME NEW base \in RoomRecs, RoomSound(base), MadeFrom(base, r)
      PROVE  /\ rooms'[r] \in RoomRecs
             /\ RoomSound(rooms'[r])
             /\ \A n \in NodeIds : base.ip_leases[n] # NoIp =>
                     rooms'[r].ip_leases[n] = base.ip_leases[n]
  <2>1. CASE rooms'[r] = base
    BY <1>1, <2>1, Zenon
  <2>2. CASE \E n \in NodeIds, role \in Roles : \E ip \in allocate_ip(base, n, role) :
                rooms'[r] = add_member(base, n, ip)
    BY <1>1, <2>2, AddMemberFacts
  <2>3. CASE \E n \in NodeIds : rooms'[r] = remove_member(base, n)
    BY <1>1, <2>3, RemoveMemberFacts
  <2> QED
    BY <1>1, <2>1, <2>2, <2>3, Zenon DEF MadeFrom
<1>2. CASE rooms'[r] = None
  BY <1>2, Zenon
<1>3. CASE rooms[r] # None /\ MadeFrom(rooms[r], r)
  <2>1. rooms[r] \in RoomRecs /\ RoomSound(rooms[r])
    BY <1>3, Zenon DEF TypeOK, RoomRecs, LeasesSound, RoomSound, LiveRooms
  <2> QED
    BY <1>1, <1>3, <2>1, Zenon
<1>4. CASE rooms[r] = None /\ \E cidr \in RoomCidrs, token \in Tokens : MadeFrom(NewRoom(cidr, token), r)
  BY <1>1, <1>4, NewRoomFacts, Zenon
<1> QED
  BY <1>2, <1>3, <1>4, Zenon DEF RoomChange

-----------------------------------------------------------------------------
(* Type correctness *)

(* A frame built from typed parts is typed. *)
LEMMA FrameType ==
    ASSUME NEW type \in FrameTypes, NEW to \in Addrs, NEW room \in RoomIds \cup {None},
           NEW node \in NodeIds \cup {None}, NEW ip \in Hosts \cup {NoIp},
           NEW peers \in SUBSET NodeIds
    PROVE  /\ Frame(type, to, room, node, ip, peers) \in Frames
           /\ Reply(type, to) \in Frames
           /\ Punch(to, node) \in Frames
  BY DEF Frame, Reply, Punch, Frames, FrameTypes

(* Refreshing last_seen keeps the registry typed. *)
LEMMA TouchedType ==
    ASSUME TypeOK, NEW a \in Addrs
    PROVE  Touched(a) \in [NodeIds -> NodeInfo \cup {None}]
  BY ZenonT(40) DEF TypeOK, Touched, NodeInfo

(* The frames of a successful join are typed: only registered peers are written to. *)
LEMMA JoinFramesType ==
    ASSUME TypeOK, NEW a \in Addrs, NEW r \in RoomIds, NEW n \in NodeIds, NEW room \in RoomRecs
    PROVE  JoinFrames(a, r, n, room) \subseteq Frames
<1> DEFINE others == (Members(room) \ {n}) \cap Registered
<1>1. \A m \in others : m \in NodeIds /\ nodes[m].addr \in Addrs
  BY Zenon DEF Registered, TypeOK, NodeInfo
<1>2. room.members[n] \in Hosts \cup {NoIp} /\ Members(room) \subseteq NodeIds
  BY Zenon DEF RoomRecs, Rooms, IpTable, Members
<1>3. /\ Frame("JoinAccept", a, r, n, room.members[n], {}) \in Frames
      /\ Frame("PeerList", a, None, None, NoIp, Members(room)) \in Frames
  BY <1>2, Zenon DEF Frame, Frames, FrameTypes
<1>4. \A m \in others : /\ Frame("PeerAdd", nodes[m].addr, None, n, room.members[n], {}) \in Frames
                        /\ Punch(nodes[m].addr, n) \in Frames
                        /\ Punch(a, m) \in Frames
  BY <1>1, <1>2, Zenon DEF Frame, Punch, Frames, FrameTypes
<1> QED
  BY <1>3, <1>4, Zenon DEF JoinFrames

(* Reap keeps the reaper's copies typed and writes only to nodes of its copy. *)
LEMMA ReapType ==
    ASSUME TypeOK, Reap
    PROVE  TypeOK'
<1> DEFINE dead == {n \in NodeIds : nodes_clone[n] # None /\ ~nodes_clone[n].fresh}
           emptied(room) == [room EXCEPT !.members =
                               [n \in NodeIds |-> IF n \in dead THEN NoIp ELSE @[n]]]
<1>1. nodes_clone' \in [NodeIds -> NodeInfo \cup {None}]
  BY Zenon DEF Reap, TypeOK
<1>2. rooms_clone' \in [RoomIds -> Rooms(RoomCidrs, Tokens) \cup {None}]
  <2>1. \A room \in Rooms(RoomCidrs, Tokens) : emptied(room) \in Rooms(RoomCidrs, Tokens)
    BY Zenon DEF Rooms, IpTable
  <2>2. rooms_clone' = [r \in RoomIds |->
                          IF \/ rooms_clone[r] = None
                             \/ dead # {} /\ Members(emptied(rooms_clone[r])) = {}
                          THEN None ELSE emptied(rooms_clone[r])]
    BY Zenon DEF Reap
  <2> HIDE DEF emptied, dead
  <2> QED
    BY <2>1, <2>2, Zenon DEF TypeOK
<1>3. sent' \subseteq Frames
  <2>1. \A n \in NodeIds, m \in NodeIds : nodes_clone[m] # None =>
          Frame("PeerRemove", nodes_clone[m].addr, None, n, NoIp, {}) \in Frames
    BY Zenon DEF TypeOK, NodeInfo, Frame, Frames, FrameTypes
  <2> QED
    BY <2>1 DEF Reap
<1> QED
  BY <1>1, <1>2, <1>3, Zenon DEF Reap, loop_vars, TypeOK

(* JoinRoom's first part keeps the registry and the pool typed, and finds a typed room. *)
LEMMA JoinEntryType ==
    ASSUME TypeOK, NEW a \in Addrs, NEW r \in RoomIds, NEW token \in Tokens,
           NEW room \in EntryRooms(r, token), JoinEntry(a, r, room)
    PROVE  /\ nodes' \in [NodeIds -> NodeInfo \cup {None}]
           /\ address_pool' \in Allocations
           /\ addr_to_node[a] \in NodeIds
           /\ room \in RoomRecs
<1>1. allocate(address_pool, r) # {} /\ rooms[r] = None => room.virtual_cidr \in Cidrs
  BY EntryFacts, NewRoomFacts, AllocateCidrFacts DEF RestoredCidrs, allocate, TypeOK
<1>2. address_pool' \in Allocations
  BY <1>1, Zenon DEF JoinEntry, TypeOK, Allocations
<1> QED
  BY <1>2, EntryFacts, TouchedType DEF JoinEntry, TypeOK

(* Every step keeps every variable in its type. *)
LEMMA TypeStep ==
    ASSUME TypeOK, LeasesSound, [Next]_vars
    PROVE  TypeOK'
<1>1. rooms' \in [RoomIds -> Rooms(RoomCidrs, Tokens) \cup {None}]
  <2>1. \A r \in RoomIds : rooms'[r] \in Rooms(RoomCidrs, Tokens) \cup {None}
    BY RoomChanges, RoomChangeFacts, Zenon DEF RoomRecs
  <2>2. rooms' = [r \in RoomIds |-> rooms'[r]]
    <3> DEFINE Updated == \E r \in RoomIds : \E room : rooms' = [rooms EXCEPT ![r] = room]
    <3>1. CASE UNCHANGED rooms
      BY <3>1 DEF TypeOK
    <3>2. CASE Updated
      <4>1. PICK r \in RoomIds : \E room : rooms' = [rooms EXCEPT ![r] = room]
        BY <3>2, Zenon
      <4>2. PICK room : rooms' = [rooms EXCEPT ![r] = room]
        BY <4>1, Zenon
      <4>3. rooms = [s \in RoomIds |-> rooms[s]]
        BY Zenon DEF TypeOK
      <4> QED BY <4>2, <4>3
    <3>3. UNCHANGED rooms \/ Updated
      <4>1. ASSUME NEW a \in Addrs, NEW r \in RoomIds, LeaveRoom(a, r) PROVE Updated
        BY <4>1, Zenon DEF LeaveRoom
      <4>2. ASSUME NEW a \in Addrs, NEW r \in RoomIds, NEW token \in Tokens,
                   CreateRoom(a, r, token)
            PROVE  Updated
        BY <4>2, Zenon DEF CreateRoom
      <4>3. ASSUME NEW a \in Addrs, NEW r \in RoomIds, NEW token \in Tokens,
                   \/ JoinRoomAccept(a, r, token)
                   \/ JoinRoomReject(a, r, token)
                   \/ JoinRoomExhausted(a, r, token)
            PROVE  Updated
        BY <4>3, Zenon DEF JoinRoomAccept, JoinRoomReject, JoinRoomExhausted
      <4> HIDE DEF Updated
      <4> QED
        BY <4>1, <4>2, <4>3, Zenon
        DEF Next, Receive, vars, RegisterNode, Unregistered, OtherFrame, CreateRoomExhausted,
            Silence, Kick, Reap, loop_vars
    <3> QED BY <3>1, <3>2, <3>3, Zenon
  <2> QED
    BY <2>1, <2>2, Zenon
<1>2. CASE UNCHANGED vars
  BY <1>2, Zenon DEF vars, TypeOK
<1>3. ASSUME NEW a \in Addrs, NEW n \in NodeIds, NEW nets \in LocalNets, RegisterNode(n, a, nets)
      PROVE  TypeOK'
  <2>1. nodes' \in [NodeIds -> NodeInfo \cup {None}]
    BY <1>3, TouchedType, Zenon DEF RegisterNode, NodeInfo
  <2>2. sent' \subseteq Frames
    <3>1. \A m \in Registered : m \in NodeIds /\ nodes[m].addr \in Addrs
      BY Zenon DEF Registered, TypeOK, NodeInfo
    <3>2. \A m \in Registered : Punch(nodes[m].addr, n) \in Frames
      BY <3>1, Zenon DEF Punch, Frame, Frames, FrameTypes
    <3>3. Reply("RegisterOk", a) \in Frames
      BY Zenon DEF Reply, Frame, Frames, FrameTypes
    <3> QED
      BY <1>3, <3>2, <3>3, Zenon DEF RegisterNode
  <2> QED
    BY <1>3, <2>1, <2>2, Zenon DEF RegisterNode, TypeOK, clone_vars
<1>4. ASSUME NEW a \in Addrs, NEW answer \in SUBSET FrameTypes,
             Unregistered(a, answer) \/ OtherFrame(a, answer)
      PROVE  TypeOK'
  <2>1. sent' \subseteq Frames
    BY <1>4, FrameType DEF Unregistered, OtherFrame, Reply, Frame, Frames
  <2> QED
    BY <1>4, <2>1, TouchedType, Zenon DEF Unregistered, OtherFrame, TypeOK, loop_vars, clone_vars
<1>5. ASSUME NEW a \in Addrs, NEW r \in RoomIds, NEW token \in Tokens, CreateRoom(a, r, token)
      PROVE  TypeOK'
  <2>1. PICK cidr \in allocate_with_avoidance(address_pool, r, LocalNetworks(addr_to_node[a])) :
        \E ip \in allocate_ip(NewRoom(cidr, token), addr_to_node[a], "Owner") :
           /\ address_pool' = [address_pool EXCEPT ![r] = cidr]
           /\ sent' = {Frame("RoomCreated", a, r, addr_to_node[a], ip, {})}
    BY <1>5, Zenon DEF CreateRoom
  <2>2. PICK ip \in allocate_ip(NewRoom(cidr, token), addr_to_node[a], "Owner") :
           sent' = {Frame("RoomCreated", a, r, addr_to_node[a], ip, {})}
    BY <2>1, Zenon
  <2>3. cidr \in Cidrs /\ cidr \in RoomCidrs
    BY <2>1, AllocateCidrFacts, Zenon DEF TypeOK, RoomCidrs
  <2>4. addr_to_node[a] \in NodeIds
    BY <1>5, Zenon DEF CreateRoom, TypeOK
  <2>5. ip \in Hosts
    BY <2>2, <2>3, <2>4, AllocateIpFacts, NewRoomFacts, Zenon DEF Roles
  <2>6. sent' \subseteq Frames
    BY <2>2, <2>4, <2>5 DEF Frame, Frames, FrameTypes
  <2>7. address_pool' \in Allocations
    BY <2>1, <2>3, Zenon DEF TypeOK, Allocations
  <2> QED
    BY <1>1, <1>5, <2>6, <2>7, TouchedType, Zenon DEF CreateRoom, TypeOK, clone_vars
<1>6. ASSUME NEW a \in Addrs, NEW r \in RoomIds, CreateRoomExhausted(a, r)
      PROVE  TypeOK'
  BY <1>6, TouchedType, Zenon DEF CreateRoomExhausted, TypeOK, clone_vars
<1>7. ASSUME NEW a \in Addrs, NEW r \in RoomIds, NEW token \in Tokens, JoinRoomAccept(a, r, token)
      PROVE  TypeOK'
  <2> DEFINE n == addr_to_node[a]
  <2>1. PICK room \in EntryRooms(r, token) :
          /\ JoinEntry(a, r, room)
          /\ \E joined \in JoinedRooms(room, n) : sent' = JoinFrames(a, r, n, joined)
    BY <1>7, Zenon DEF JoinRoomAccept
  <2>2. PICK joined \in JoinedRooms(room, n) : sent' = JoinFrames(a, r, n, joined)
    BY <2>1, Zenon
  <2>3. room \in RoomRecs /\ n \in NodeIds
    BY <2>1, JoinEntryType, Zenon
  <2>4. joined \in RoomRecs
    <3>1. \A ip \in Hosts : add_member(room, n, ip) \in RoomRecs
      BY <2>3, Zenon DEF add_member, RoomRecs, Rooms, IpTable
    <3>2. \A ip \in allocate_ip(room, n, "Guest") : ip \in Hosts
      BY <2>3, AllocateIpFacts, Zenon DEF Roles
    <3> QED
      BY <2>2, <2>3, <3>1, <3>2, Zenon DEF JoinedRooms
  <2>5. sent' \subseteq Frames
    BY <2>2, <2>3, <2>4, JoinFramesType, Zenon
  <2> QED
    BY <1>1, <2>1, <2>5, JoinEntryType, Zenon DEF JoinEntry, TypeOK, clone_vars
<1>8. ASSUME NEW a \in Addrs, NEW r \in RoomIds, NEW token \in Tokens,
             JoinRoomReject(a, r, token) \/ JoinRoomExhausted(a, r, token)
      PROVE  TypeOK'
  <2>1. PICK room \in EntryRooms(r, token) :
          /\ JoinEntry(a, r, room)
          /\ sent' \subseteq {Reply("JoinReject", a)}
    BY <1>8, Zenon DEF JoinRoomReject, JoinRoomExhausted
  <2>2. sent' \subseteq Frames
    BY <2>1 DEF Reply, Frame, Frames, FrameTypes
  <2> QED
    BY <1>1, <2>1, <2>2, JoinEntryType, ZenonT(30) DEF JoinEntry, TypeOK, clone_vars
<1>9. ASSUME NEW a \in Addrs, NEW r \in RoomIds, LeaveRoom(a, r)
      PROVE  TypeOK'
  <2> DEFINE n == addr_to_node[a]
  <2>1. n \in NodeIds /\ rooms[r] \in RoomRecs
    BY <1>9, Zenon DEF LeaveRoom, TypeOK, RoomRecs
  <2>2. sent' \subseteq Frames
    <3>1. \A m \in Registered : nodes[m].addr \in Addrs
      BY Zenon DEF Registered, TypeOK, NodeInfo
    <3>2. rooms[r].members[n] \in Hosts \cup {NoIp}
      BY <2>1, Zenon DEF RoomRecs, Rooms, IpTable
    <3>3. \A m \in Registered :
            Frame("PeerRemove", nodes[m].addr, None, n, rooms[r].members[n], {}) \in Frames
      BY <2>1, <3>1, <3>2, Zenon DEF Frame, Frames, FrameTypes
    <3> QED
      BY <1>9, <3>3, Zenon DEF LeaveRoom
  <2>3. address_pool' \in Allocations /\ blocked' \in BOOLEAN
    BY <1>9, Zenon DEF LeaveRoom, TypeOK
  <2> QED
    BY <1>1, <1>9, <2>2, <2>3, TouchedType, Zenon DEF LeaveRoom, TypeOK, clone_vars
<1>10. ASSUME NEW n \in NodeIds, Silence(n)
       PROVE  TypeOK'
  <2>1. \A info \in NodeInfo : [info EXCEPT !.fresh = FALSE] \in NodeInfo
    BY Zenon DEF NodeInfo
  <2>2. /\ nodes' \in [NodeIds -> NodeInfo \cup {None}]
        /\ nodes_clone' \in [NodeIds -> NodeInfo \cup {None}]
    BY <1>10, <2>1, Zenon DEF Silence, TypeOK
  <2> QED
    BY <1>10, <2>2, Zenon DEF Silence, TypeOK
<1>11. ASSUME NEW n \in NodeIds, Kick(n)
       PROVE  TypeOK'
  BY <1>11, Zenon DEF Kick, TypeOK, loop_vars
<1> QED
  <2>1. {"Error"} \in SUBSET FrameTypes /\ {"JoinReject"} \in SUBSET FrameTypes
        /\ {"Heartbeat"} \in SUBSET FrameTypes /\ {"RoomsList"} \in SUBSET FrameTypes
        /\ {} \in SUBSET FrameTypes
    BY Zenon DEF FrameTypes
  <2> QED
    BY <1>2, <1>3, <1>4, <1>5, <1>6, <1>7, <1>8, <1>9, <1>10, <1>11, <2>1, ReapType, Zenon
    DEF Next, Receive

-----------------------------------------------------------------------------
(* The theorems *)

(* TypeOK alone is not enough for the room tables: that a lease is never changed needs LeasesSound. *)
IInv == TypeOK /\ LeasesSound

(* The empty supernode is typed, has no room, and nothing is allocated. *)
LEMMA InitFacts ==
    ASSUME Init
    PROVE  IInv /\ PoolBacksRooms
  BY Zenon DEF Init, IInv, TypeOK, LeasesSound, LiveRooms, PoolBacksRooms, Allocations, NewPool, NoCidr

(* The inductive invariant: types, and the soundness of every room's address tables. *)
THEOREM Inductive == Spec => []IInv
<1>1. Init => IInv
  BY InitFacts, Zenon
<1>2. IInv /\ [Next]_vars => IInv'
  <2> SUFFICES ASSUME IInv, [Next]_vars
               PROVE  IInv'
    BY Zenon
  <2>1. TypeOK'
    BY TypeStep, Zenon DEF IInv
  <2>2. LeasesSound'
    <3>1. \A r \in RoomIds : rooms'[r] # None => RoomSound(rooms'[r])
      BY RoomChanges, RoomChangeFacts, Zenon DEF IInv
    <3> QED
      BY <3>1, Zenon DEF LeasesSound, LiveRooms, RoomSound
  <2> QED
    BY <2>1, <2>2, Zenon DEF IInv
<1> QED
  BY <1>1, <1>2, PTL DEF Spec

(* Every reachable state of the supernode is typed. *)
THEOREM TypeCorrect == Spec => []TypeOK
<1>1. IInv => TypeOK
  BY Zenon DEF IInv
<1> QED
  BY <1>1, Inductive, PTL

(* A member's address is its lease, and leases are distinct, in every reachable state. *)
THEOREM LeasesAreSound == Spec => []LeasesSound
<1>1. IInv => LeasesSound
  BY Zenon DEF IInv
<1> QED
  BY <1>1, Inductive, PTL

(* No two members of a room ever hold the same virtual address. *)
THEOREM IpsAreUnique == Spec => []UniqueIps
<1>1. IInv => UniqueIps
  BY DEF IInv, LeasesSound, UniqueIps, LeasesDistinct, Members
<1> QED
  BY <1>1, Inductive, PTL

(* A node keeps its address in a room for as long as the room exists. *)
THEOREM LeasesAreStable == Spec => LeaseStable
<1>1. IInv /\ [Next]_vars =>
        [\A r \in RoomIds : \A n \in NodeIds :
           rooms[r] # None /\ rooms'[r] # None /\ rooms[r].ip_leases[n] # NoIp
           => rooms'[r].ip_leases[n] = rooms[r].ip_leases[n]]_vars
  BY RoomChanges, RoomChangeFacts, Zenon DEF IInv
<1> QED
  BY <1>1, Inductive, PTL DEF Spec, LeaseStable

(***************************************************************************)
(* PoolBacksRooms is kept when one room q changes: its new allocation is   *)
(* nobody else's, or it has none and uses the fallback subnet.             *)
(***************************************************************************)
LEMMA PoolChange ==
    ASSUME TypeOK, PoolBacksRooms, NEW q \in RoomIds,
           NEW room, NEW cidr \in Cidrs \cup {NoCidr},
           rooms' = [rooms EXCEPT ![q] = room],
           address_pool' = [address_pool EXCEPT ![q] = cidr],
           cidr # NoCidr => /\ room # None /\ room.virtual_cidr = cidr
                            /\ \A p \in RoomIds \ {q} : address_pool[p] # cidr,
           room # None /\ cidr = NoCidr => room.virtual_cidr = FallbackCidr
    PROVE  PoolBacksRooms'
<1> SUFFICES ASSUME NEW r \in RoomIds
             PROVE  /\ address_pool'[r] # NoCidr =>
                          /\ rooms'[r] # None /\ rooms'[r].virtual_cidr = address_pool'[r]
                          /\ \A p \in RoomIds : address_pool'[p] = address_pool'[r] => p = r
                    /\ rooms'[r] # None /\ address_pool'[r] = NoCidr =>
                          rooms'[r].virtual_cidr = FallbackCidr
  BY Zenon DEF PoolBacksRooms
<1>1. CASE r = q
  BY <1>1, Zenon DEF TypeOK, Allocations
<1>2. CASE r # q
  BY <1>2, Zenon DEF TypeOK, Allocations, PoolBacksRooms
<1> QED
  BY <1>1, <1>2, Zenon

(* The joins keep PoolBacksRooms: a re-created room has what the pool gave it, or the fallback. *)
LEMMA JoinKeepsPool ==
    ASSUME TypeOK, PoolBacksRooms, NEW a \in Addrs, NEW q \in RoomIds, NEW token \in Tokens,
           NEW room \in EntryRooms(q, token), JoinEntry(a, q, room),
           NEW joined, joined # None, joined.virtual_cidr = room.virtual_cidr,
           rooms' = [rooms EXCEPT ![q] = joined]
    PROVE  PoolBacksRooms'
<1>1. CASE rooms[q] # None
  <2>1. room = rooms[q]
    BY <1>1, EntryFacts, Zenon
  <2>2. address_pool' = [address_pool EXCEPT ![q] = address_pool[q]]
    BY <1>1, Zenon DEF JoinEntry, TypeOK, Allocations
  <2>3. /\ address_pool[q] \in Cidrs \cup {NoCidr}
        /\ address_pool[q] # NoCidr =>
              /\ joined.virtual_cidr = address_pool[q]
              /\ \A p \in RoomIds \ {q} : address_pool[p] # address_pool[q]
        /\ address_pool[q] = NoCidr => joined.virtual_cidr = FallbackCidr
    BY <1>1, <2>1, Zenon DEF PoolBacksRooms, TypeOK, Allocations
  <2> QED
    BY <2>2, <2>3, PoolChange, Zenon
<1>2. CASE rooms[q] = None /\ allocate(address_pool, q) # {}
  <2>1. PICK cidr \in allocate(address_pool, q) : room.virtual_cidr = cidr
    BY <1>2, EntryFacts, NewRoomFacts DEF RestoredCidrs
  <2>2. address_pool[q] = NoCidr
    BY <1>2, Zenon DEF PoolBacksRooms
  <2>3. cidr \in Cidrs /\ \A p \in RoomIds : address_pool[p] # cidr
    BY <2>1, <2>2, AllocateCidrFacts DEF allocate, TypeOK
  <2>4. address_pool' = [address_pool EXCEPT ![q] = cidr]
    BY <1>2, <2>1, Zenon DEF JoinEntry
  <2>5. cidr # NoCidr
    BY <2>3, RoomCountAssumption, SMTT(30) DEF Cidrs, NoCidr
  <2> QED
    BY <2>1, <2>3, <2>4, <2>5, PoolChange, Zenon
<1>3. CASE rooms[q] = None /\ allocate(address_pool, q) = {}
  <2>1. room.virtual_cidr = FallbackCidr
    BY <1>3, EntryFacts, NewRoomFacts DEF RestoredCidrs
  <2>2. address_pool[q] = NoCidr
    BY <1>3, Zenon DEF PoolBacksRooms
  <2>3. address_pool' = [address_pool EXCEPT ![q] = NoCidr]
    BY <1>3, <2>2, Zenon DEF JoinEntry, TypeOK, Allocations
  <2> QED
    BY <2>1, <2>3, PoolChange, Zenon
<1> QED
  BY <1>1, <1>2, <1>3, Zenon

(* Every step keeps the pool and the rooms in agreement. *)
LEMMA PoolStep ==
    ASSUME IInv, PoolBacksRooms, [Next]_vars
    PROVE  PoolBacksRooms'
<1> USE DEF IInv
<1>1. CASE UNCHANGED <<rooms, address_pool>>
  BY <1>1, Zenon DEF PoolBacksRooms
<1>2. ASSUME NEW a \in Addrs, NEW q \in RoomIds, NEW token \in Tokens, CreateRoom(a, q, token)
      PROVE  PoolBacksRooms'
  <2> DEFINE n == addr_to_node[a]
  <2>1. PICK cidr \in allocate_with_avoidance(address_pool, q, LocalNetworks(n)) :
        \E ip \in allocate_ip(NewRoom(cidr, token), n, "Owner") :
           /\ address_pool' = [address_pool EXCEPT ![q] = cidr]
           /\ rooms' = [rooms EXCEPT ![q] = add_member(NewRoom(cidr, token), n, ip)]
    BY <1>2, Zenon DEF CreateRoom
  <2>2. PICK ip \in allocate_ip(NewRoom(cidr, token), n, "Owner") :
           rooms' = [rooms EXCEPT ![q] = add_member(NewRoom(cidr, token), n, ip)]
    BY <2>1, ZenonT(30)
  <2>3. /\ cidr \in Cidrs /\ cidr # NoCidr /\ cidr \in RoomCidrs
        /\ \A p \in RoomIds : address_pool[p] # cidr
    BY <1>2, <2>1, AllocateCidrFacts, Zenon DEF TypeOK, CreateRoom, RoomCidrs
  <2>4. n \in NodeIds
    BY <1>2, Zenon DEF CreateRoom, TypeOK
  <2>5. /\ add_member(NewRoom(cidr, token), n, ip) \in RoomRecs
        /\ add_member(NewRoom(cidr, token), n, ip).virtual_cidr = cidr
    <3>1. /\ NewRoom(cidr, token) \in RoomRecs
          /\ RoomSound(NewRoom(cidr, token))
          /\ NewRoom(cidr, token).virtual_cidr = cidr
      BY <2>3, NewRoomFacts, Zenon
    <3>2. "Owner" \in Roles
      BY Zenon DEF Roles
    <3>3. QED
      BY <2>2, <2>4, <3>1, <3>2, AddMemberFacts, Zenon
  <2>6. add_member(NewRoom(cidr, token), n, ip) # None
    BY <2>5, SupernodeAssumption, Zenon DEF RoomRecs
  <2> QED
    BY <2>1, <2>2, <2>3, <2>5, <2>6, PoolChange, Zenon
<1>3. ASSUME NEW a \in Addrs, NEW q \in RoomIds, NEW token \in Tokens, JoinRoomAccept(a, q, token)
      PROVE  PoolBacksRooms'
  <2> DEFINE n == addr_to_node[a]
  <2>1. PICK room \in EntryRooms(q, token) :
          /\ JoinEntry(a, q, room)
          /\ \E joined \in JoinedRooms(room, n) : rooms' = [rooms EXCEPT ![q] = joined]
    BY <1>3, Zenon DEF JoinRoomAccept
  <2>2. PICK joined \in JoinedRooms(room, n) : rooms' = [rooms EXCEPT ![q] = joined]
    BY <2>1, Zenon
  <2>3. room \in RoomRecs /\ n \in NodeIds
    BY <2>1, JoinEntryType, Zenon
  <2>4. joined \in RoomRecs /\ joined.virtual_cidr = room.virtual_cidr
    <3>1. \A ip \in Hosts : /\ add_member(room, n, ip) \in RoomRecs
                            /\ add_member(room, n, ip).virtual_cidr = room.virtual_cidr
      BY <2>3, Zenon DEF add_member, RoomRecs, Rooms, IpTable
    <3>2. \A ip \in allocate_ip(room, n, "Guest") : ip \in Hosts
      BY <2>3, AllocateIpFacts, Zenon DEF Roles
    <3> QED
      BY <2>2, <2>3, <3>1, <3>2 DEF JoinedRooms
  <2>5. joined # None
    BY <2>4, SupernodeAssumption, Zenon DEF RoomRecs
  <2> QED
    BY <2>1, <2>2, <2>4, <2>5, JoinKeepsPool, ZenonT(40)
<1>4. ASSUME NEW a \in Addrs, NEW q \in RoomIds, NEW token \in Tokens,
             JoinRoomReject(a, q, token) \/ JoinRoomExhausted(a, q, token)
      PROVE  PoolBacksRooms'
  <2>1. PICK room \in EntryRooms(q, token) :
          JoinEntry(a, q, room) /\ rooms' = [rooms EXCEPT ![q] = room]
    BY <1>4, Zenon DEF JoinRoomReject, JoinRoomExhausted
  <2>2. room # None
    BY <2>1, EntryFacts, SupernodeAssumption, Zenon DEF RoomRecs
  <2> QED
    BY <2>1, <2>2, JoinKeepsPool, ZenonT(30)
<1>5. ASSUME NEW a \in Addrs, NEW q \in RoomIds, LeaveRoom(a, q)
      PROVE  PoolBacksRooms'
  <2> DEFINE left == remove_member(rooms[q], addr_to_node[a])
  <2>1. addr_to_node[a] \in NodeIds /\ rooms[q] \in RoomRecs /\ rooms[q] # None
    BY <1>5, ZenonT(30) DEF LeaveRoom, TypeOK, RoomRecs
  <2>2. left \in RoomRecs /\ left.virtual_cidr = rooms[q].virtual_cidr /\ left # None
    BY <2>1, RemoveMemberFacts, SupernodeAssumption, Zenon DEF RoomRecs
  <2>3. rooms' = [rooms EXCEPT ![q] = left] /\ address_pool' = address_pool
    BY <1>5, Zenon DEF LeaveRoom
  <2> HIDE DEF left
  <2>4. address_pool' = [address_pool EXCEPT ![q] = address_pool[q]]
    BY <2>3, Zenon DEF TypeOK, Allocations
  <2> QED
    BY <2>1, <2>2, <2>3, <2>4, PoolChange, SMTT(30) DEF PoolBacksRooms, TypeOK, Allocations
<1> QED
  BY <1>1, <1>2, <1>3, <1>4, <1>5
  DEF Next, Receive, vars, RegisterNode, Unregistered, OtherFrame, CreateRoomExhausted,
      Silence, Kick, Reap, loop_vars

(* In every reachable state a subnet is allocated only to the one room that exists and uses it. *)
THEOREM PoolAgrees == Spec => []PoolBacksRooms
<1>1. Init => PoolBacksRooms
  BY InitFacts, Zenon
<1>2. IInv /\ PoolBacksRooms /\ [Next]_vars => PoolBacksRooms'
  BY PoolStep, Zenon
<1> QED
  BY <1>1, <1>2, Inductive, PTL DEF Spec

-----------------------------------------------------------------------------
(* What the supernode announces *)

(* A frame that names nobody, or somebody who left *)
Silent(f) == f.type \notin {"RoomCreated", "JoinAccept", "PeerAdd", "PeerList", "PunchRequest"}

(* Refreshing last_seen leaves the registered addresses alone. *)
LEMMA TouchedAddr ==
    ASSUME TypeOK, NEW a \in Addrs, NEW m \in Registered
    PROVE  Touched(a)[m] # None /\ Touched(a)[m].addr = nodes[m].addr
<1>1. m \in NodeIds /\ nodes[m] \in NodeInfo
  BY Zenon DEF Registered, TypeOK
<1>2. Touched(a)[m] = nodes[m] \/ Touched(a)[m] = [nodes[m] EXCEPT !.fresh = TRUE]
  BY <1>1, Zenon DEF Touched
<1>3. Touched(a)[m] \in NodeInfo /\ Touched(a)[m].addr = nodes[m].addr
  BY <1>1, <1>2, Zenon DEF NodeInfo
<1> QED
  BY <1>3, SupernodeAssumption, Zenon

LEMMA FrameFacts ==
    ASSUME NEW type, NEW to, NEW room, NEW node, NEW ip, NEW peers
    PROVE  /\ Frame(type, to, room, node, ip, peers).type = type
           /\ Frame(type, to, room, node, ip, peers).to = to
           /\ Frame(type, to, room, node, ip, peers).room = room
           /\ Frame(type, to, room, node, ip, peers).node = node
           /\ Frame(type, to, room, node, ip, peers).ip = ip
           /\ Frame(type, to, room, node, ip, peers).peers = peers
           /\ Reply(type, to).type = type
           /\ Punch(to, node).type = "PunchRequest"
           /\ Punch(to, node).to = to /\ Punch(to, node).node = node
  BY Zenon DEF Frame, Reply, Punch

(* JoinRoom's entry and add_or_reuse_member leave the node in the room, with an address. *)
LEMMA JoinedFacts ==
    ASSUME TypeOK, NEW r \in RoomIds, NEW token \in Tokens, NEW room \in EntryRooms(r, token),
           NEW n \in NodeIds, NEW joined \in JoinedRooms(room, n)
    PROVE  /\ joined \in RoomRecs /\ joined # None
           /\ joined.members[n] # NoIp /\ n \in Members(joined)
           /\ Members(room) \subseteq Members(joined)
<1>1. room \in RoomRecs
  BY EntryFacts, Zenon
<1>2. CASE joined = room /\ room.members[n] # NoIp
  BY <1>1, <1>2, SupernodeAssumption, Zenon DEF Members, RoomRecs
<1>3. CASE \E ip \in allocate_ip(room, n, "Guest") : joined = add_member(room, n, ip)
  <2>1. PICK ip \in Hosts : joined = add_member(room, n, ip)
    BY <1>1, <1>3, AllocateIpFacts, Zenon DEF Roles
  <2>2. joined \in RoomRecs /\ joined.members = [room.members EXCEPT ![n] = ip]
    BY <1>1, <2>1, Zenon DEF add_member, RoomRecs, Rooms, IpTable
  <2>3. ip # NoIp /\ room.members \in IpTable
    BY <1>1 DEF Hosts, NoIp, RoomRecs, Rooms
  <2>4. joined # None
    BY <2>2, SupernodeAssumption, Zenon DEF RoomRecs
  <2>5. joined.members[n] = ip /\ \A m \in NodeIds : m = n \/ joined.members[m] = room.members[m]
    BY <2>2, <2>3, Zenon DEF IpTable
  <2> QED
    BY <2>2, <2>3, <2>4, <2>5, Zenon DEF Members
<1> QED
  BY <1>2, <1>3, Zenon DEF JoinedRooms

(* The frames of a join give the node its address in the joined room, and name it and the *)
(* registered other members to each other.                                                *)
JoinFrame(f, a, r, n, room) ==
    \/ /\ f.type = "JoinAccept" /\ f.to = a /\ f.room = r
       /\ f.node = n /\ f.ip = room.members[n]
    \/ f.type = "PeerList" /\ f.peers = Members(room) /\ f.to = a
    \/ \E m \in (Members(room) \ {n}) \cap Registered :
          \/ /\ f.type = "PeerAdd" /\ f.to = nodes[m].addr
             /\ f.node = n /\ f.ip = room.members[n]
          \/ f.type = "PunchRequest" /\ f.to = nodes[m].addr /\ f.node = n
          \/ f.type = "PunchRequest" /\ f.to = a /\ f.node = m

LEMMA JoinAnnounces ==
    ASSUME NEW a, NEW r, NEW n, NEW room, NEW f \in JoinFrames(a, r, n, room)
    PROVE  JoinFrame(f, a, r, n, room)
<1> DEFINE others == (Members(room) \ {n}) \cap Registered
<1>1. CASE f = Frame("JoinAccept", a, r, n, room.members[n], {})
  BY <1>1, Zenon DEF Frame, JoinFrame
<1>2. CASE f = Frame("PeerList", a, None, None, NoIp, Members(room))
  BY <1>2, Zenon DEF Frame, JoinFrame
<1>3. ASSUME NEW m \in others, f = Frame("PeerAdd", nodes[m].addr, None, n, room.members[n], {})
      PROVE  f.type = "PeerAdd" /\ f.to = nodes[m].addr /\ f.node = n /\ f.ip = room.members[n]
  BY <1>3, Zenon DEF Frame
<1>4. ASSUME NEW m \in others, f = Punch(nodes[m].addr, n)
      PROVE  f.type = "PunchRequest" /\ f.to = nodes[m].addr /\ f.node = n
  BY <1>4, Zenon DEF Frame, Punch
<1>5. ASSUME NEW m \in others, f = Punch(a, m)
      PROVE  f.type = "PunchRequest" /\ f.to = a /\ f.node = m
  BY <1>5, Zenon DEF Frame, Punch
<1>6. \/ f = Frame("JoinAccept", a, r, n, room.members[n], {})
      \/ f = Frame("PeerList", a, None, None, NoIp, Members(room))
      \/ \E m \in others : f = Frame("PeerAdd", nodes[m].addr, None, n, room.members[n], {})
      \/ \E m \in others : f = Punch(nodes[m].addr, n) \/ f = Punch(a, m)
  BY Zenon DEF JoinFrames
<1> QED
  BY <1>1, <1>2, <1>3, <1>4, <1>5, <1>6, Zenon DEF JoinFrame

(* Every step announces what is in the table when the frame leaves. *)
LEMMA AnnounceStep ==
    ASSUME TypeOK, TypeOK', AnnouncesTable, [Next]_vars
    PROVE  AnnouncesTable'
<1>1. ASSUME \A f \in sent' : Silent(f) PROVE AnnouncesTable'
  BY <1>1, Zenon DEF AnnouncesTable, Silent
<1>2. CASE UNCHANGED vars
  <2>1. UNCHANGED <<nodes, addr_to_node, rooms, sent>>
    BY <1>2, Zenon DEF vars
  <2>2. LiveRooms' = LiveRooms /\ \A f, r : ToFellow(f, r)' <=> ToFellow(f, r)
    BY <2>1, Zenon DEF LiveRooms, ToFellow
  <2> QED BY <2>1, <2>2, ZenonT(30) DEF AnnouncesTable
<1>3. ASSUME NEW a \in Addrs, NEW n \in NodeIds, NEW nets \in LocalNets, RegisterNode(n, a, nets)
      PROVE  AnnouncesTable'
  <2>1. UNCHANGED rooms
    BY <1>3, Zenon DEF RegisterNode
  <2>2. ASSUME NEW m \in Sharing(n) \cap Registered, NEW f, f = Punch(nodes[m].addr, n)
        PROVE  /\ f.type = "PunchRequest"
               /\ \E r \in LiveRooms' : f.node \in Members(rooms'[r]) /\ ToFellow(f, r)'
    <3>1. PICK r \in LiveRooms : {n, m} \subseteq Members(rooms[r])
      BY <2>2, Zenon DEF Sharing
    <3>2. m \in NodeIds /\ m # n
      BY <2>2, Zenon DEF Sharing
    <3>3. nodes'[m] # None /\ nodes'[m].addr = nodes[m].addr
      <4>1. Touched(a) \in [NodeIds -> NodeInfo \cup {None}]
        BY TouchedType, Zenon
      <4>2. nodes'[m] = Touched(a)[m]
        BY <1>3, <3>2, <4>1, Zenon DEF RegisterNode
      <4> QED BY <2>2, <4>2, TouchedAddr, Zenon
    <3>4. f.type = "PunchRequest" /\ f.to = nodes[m].addr /\ f.node = n
      BY <2>2, Zenon DEF Frame, Punch
    <3>5. r \in LiveRooms' /\ rooms'[r] = rooms[r]
      BY <2>1, <3>1, Zenon DEF LiveRooms
    <3>6. ToFellow(f, r)'
      BY <3>1, <3>2, <3>3, <3>4, <3>5, Zenon DEF ToFellow
    <3> QED BY <3>1, <3>4, <3>5, <3>6, Zenon
  <2>3. Reply("RegisterOk", a).type = "RegisterOk"
    BY Zenon DEF Frame, Reply
  <2>4. \A f \in sent' : f = Reply("RegisterOk", a)
                         \/ \E m \in Sharing(n) \cap Registered : f = Punch(nodes[m].addr, n)
    BY <1>3, Zenon DEF RegisterNode
  <2>5. ASSUME NEW f \in sent'
        PROVE  \/ Silent(f)
               \/ /\ f.type = "PunchRequest"
                  /\ \E r \in LiveRooms' : f.node \in Members(rooms'[r]) /\ ToFellow(f, r)'
    <3>1. CASE f = Reply("RegisterOk", a)
      BY <2>3, <3>1 DEF Silent
    <3> QED BY <2>2, <2>4, <2>5, <3>1, Zenon
  <2> QED BY <2>5, Zenon DEF AnnouncesTable, Silent
<1>4. ASSUME NEW a \in Addrs,
             NEW answer \in {{"Error"}, {"JoinReject"}, {"Heartbeat"}, {"RoomsList"}, {}},
             Unregistered(a, answer) \/ OtherFrame(a, answer)
      PROVE  AnnouncesTable'
  <2>1. \A type \in answer : Silent(Reply(type, a))
    BY FrameFacts, SMTT(30) DEF Silent
  <2> QED BY <1>1, <1>4, <2>1, Zenon DEF Unregistered, OtherFrame
<1>5. ASSUME NEW a \in Addrs, NEW r \in RoomIds, NEW token \in Tokens, CreateRoom(a, r, token)
      PROVE  AnnouncesTable'
  <2> DEFINE n == addr_to_node[a]
  <2>1. PICK cidr \in allocate_with_avoidance(address_pool, r, LocalNetworks(n)) :
        \E ip \in allocate_ip(NewRoom(cidr, token), n, "Owner") :
           /\ rooms' = [rooms EXCEPT ![r] = add_member(NewRoom(cidr, token), n, ip)]
           /\ sent' = {Frame("RoomCreated", a, r, n, ip, {})}
    BY <1>5, Zenon DEF CreateRoom
  <2>2. PICK ip \in allocate_ip(NewRoom(cidr, token), n, "Owner") :
           /\ rooms' = [rooms EXCEPT ![r] = add_member(NewRoom(cidr, token), n, ip)]
           /\ sent' = {Frame("RoomCreated", a, r, n, ip, {})}
    BY <2>1, Zenon
  <2>3. cidr \in RoomCidrs /\ n \in NodeIds
    BY <1>5, <2>1, AllocateCidrFacts, Zenon DEF TypeOK, RoomCidrs, CreateRoom
  <2>4. NewRoom(cidr, token) \in RoomRecs
    BY <2>3, NewRoomFacts, Zenon
  <2>5. ip \in Hosts /\ ip # NoIp
    <3>1. ip \in Hosts
      BY <2>2, <2>3, <2>4, AllocateIpFacts, Zenon DEF Roles
    <3> QED BY <3>1, SMTT(30) DEF Hosts, NoIp
  <2> DEFINE room == add_member(NewRoom(cidr, token), n, ip)
  <2>6. room \in RoomRecs /\ room.members[n] = ip
    BY <2>3, <2>4, <2>5, Zenon DEF add_member, RoomRecs, Rooms, IpTable
  <2>7. room # None /\ rooms'[r] = room
    BY <2>2, <2>6, SupernodeAssumption, ZenonT(30) DEF RoomRecs, TypeOK
  <2> HIDE DEF room, n
  <2>8. r \in LiveRooms' /\ rooms'[r].members[n] = ip
    BY <2>6, <2>7, Zenon DEF LiveRooms
  <2>9. \A f \in sent' : /\ f.type = "RoomCreated" /\ f.to = a /\ f.room = r
                         /\ f.node = n /\ f.ip = ip
    BY <2>2 DEF Frame
  <2>10. addr_to_node'[a] = n
    BY <1>5, Zenon DEF CreateRoom, n
  <2> QED BY <2>5, <2>8, <2>9, <2>10, ZenonT(30) DEF AnnouncesTable
<1>6. ASSUME NEW a \in Addrs, NEW r \in RoomIds, CreateRoomExhausted(a, r)
      PROVE  AnnouncesTable'
  BY <1>1, <1>6, Zenon DEF CreateRoomExhausted
<1>7. ASSUME NEW a \in Addrs, NEW r \in RoomIds, NEW token \in Tokens, JoinRoomAccept(a, r, token)
      PROVE  AnnouncesTable'
  <2> DEFINE n == addr_to_node[a]
  <2>1. PICK room \in EntryRooms(r, token) :
          /\ JoinEntry(a, r, room)
          /\ \E joined \in JoinedRooms(room, n) :
               rooms' = [rooms EXCEPT ![r] = joined] /\ sent' = JoinFrames(a, r, n, joined)
    BY <1>7, Zenon DEF JoinRoomAccept
  <2>2. PICK joined \in JoinedRooms(room, n) :
          rooms' = [rooms EXCEPT ![r] = joined] /\ sent' = JoinFrames(a, r, n, joined)
    BY <2>1, Zenon
  <2>3. n \in NodeIds /\ addr_to_node' = addr_to_node
    BY <2>1, JoinEntryType, Zenon DEF JoinEntry
  <2>4. joined # None /\ joined.members[n] # NoIp /\ n \in Members(joined)
    BY <2>1, <2>2, <2>3, JoinedFacts, SMTT(30)
  <2>5. rooms'[r] = joined /\ r \in LiveRooms' /\ addr_to_node'[a] = n
    BY <2>2, <2>3, <2>4, Zenon DEF LiveRooms, TypeOK
  <2>6. \A m \in Registered : nodes'[m] # None /\ nodes'[m].addr = nodes[m].addr
    BY <2>1, TouchedAddr, Zenon DEF JoinEntry
  <2> HIDE DEF n
  <2>7. Members(rooms[r])' = Members(joined)
    BY <2>5, Zenon DEF Members
  <2>8. ASSUME NEW f \in sent', NEW m \in (Members(joined) \ {n}) \cap Registered,
               f.to = nodes[m].addr, f.node = n
        PROVE  ToFellow(f, r)'
    BY <2>6, <2>7, <2>8, Zenon DEF ToFellow
  <2>9. ASSUME NEW f \in sent', NEW m \in (Members(joined) \ {n}) \cap Registered,
               f.to = a, f.node = m
        PROVE  ToFellow(f, r)'
    BY <2>4, <2>5, <2>7, <2>9, Zenon DEF ToFellow
  <2>10. ASSUME NEW f \in sent'
         PROVE  \/ /\ f.type = "JoinAccept" /\ f.to = a /\ f.room = r
                   /\ f.node = n /\ f.ip = joined.members[n]
                \/ f.type = "PeerList" /\ f.peers = Members(joined) /\ f.to = a
                \/ f.type = "PeerAdd" /\ f.node = n /\ f.ip = joined.members[n] /\ ToFellow(f, r)'
                \/ f.type = "PunchRequest" /\ f.node \in Members(joined) /\ ToFellow(f, r)'
    <3>1. f \in JoinFrames(a, r, n, joined)
      BY <2>2, <2>10, Zenon DEF n
    <3>2. JoinFrame(f, a, r, n, joined)
      BY <3>1, JoinAnnounces, Zenon
    <3> QED BY <2>4, <2>8, <2>9, <2>10, <3>2, Zenon DEF JoinFrame
  <2>11. \A f \in sent' : f.type = "JoinAccept" =>
            f.to = a /\ f.room = r /\ f.node = n /\ f.ip = joined.members[n]
    BY <2>10, Zenon
  <2>12. \A f \in sent' : f.type = "PeerList" => f.peers = Members(joined) /\ f.to = a
    BY <2>10, Zenon
  <2>13. \A f \in sent' : f.type = "PeerAdd" =>
            f.node = n /\ f.ip = joined.members[n] /\ ToFellow(f, r)'
    BY <2>10, Zenon
  <2>14. \A f \in sent' : f.type = "PunchRequest" => f.node \in Members(joined) /\ ToFellow(f, r)'
    BY <2>10, Zenon
  <2>15. \A f \in sent' : f.type # "RoomCreated"
    BY <2>10, Zenon
  <2> QED BY <2>4, <2>5, <2>7, <2>11, <2>12, <2>13, <2>14, <2>15, Zenon DEF AnnouncesTable
<1>8. ASSUME NEW a \in Addrs, NEW r \in RoomIds, NEW token \in Tokens,
             JoinRoomReject(a, r, token) \/ JoinRoomExhausted(a, r, token)
      PROVE  AnnouncesTable'
  <2>1. sent' \subseteq {Reply("JoinReject", a)}
    BY <1>8, Zenon DEF JoinRoomReject, JoinRoomExhausted
  <2>2. Silent(Reply("JoinReject", a))
    BY FrameFacts DEF Silent
  <2> QED BY <1>1, <2>1, <2>2, Zenon
<1>9. ASSUME NEW a \in Addrs, NEW r \in RoomIds, LeaveRoom(a, r)
      PROVE  AnnouncesTable'
  <2>1. \A f \in sent' : \E m, n, ip : f = Frame("PeerRemove", nodes[m].addr, None, n, ip, {})
    <3>1. CASE sent' = {}
      BY <3>1, Zenon
    <3>2. CASE sent' # {}
      <4> DEFINE n == addr_to_node[a]
                 told == Members(remove_member(rooms[r], n)) \cap Registered
                 ip == rooms[r].members[n]
      <4>1. sent' = {Frame("PeerRemove", nodes[m].addr, None, n, ip, {}) : m \in told}
        BY <1>9, <3>2, Zenon DEF LeaveRoom
      <4> HIDE DEF n, told, ip
      <4> QED BY <4>1, Zenon
    <3> QED BY <3>1, <3>2, Zenon
  <2>2. ASSUME NEW f \in sent' PROVE f.type = "PeerRemove"
    <3>1. PICK m, n, ip : f = Frame("PeerRemove", nodes[m].addr, None, n, ip, {})
      BY <2>1, Zenon
    <3> QED BY <3>1, Zenon DEF Frame
  <2> QED BY <1>1, <2>2, Zenon DEF Silent
<1>10. CASE Reap
  <2>1. \A f \in sent' : \E m, n : f = Frame("PeerRemove", nodes_clone[m].addr, None, n, NoIp, {})
    BY <1>10, Zenon DEF Reap
  <2>2. ASSUME NEW f \in sent' PROVE f.type = "PeerRemove"
    <3>1. PICK m, n : f = Frame("PeerRemove", nodes_clone[m].addr, None, n, NoIp, {})
      BY <2>1, Zenon
    <3> QED BY <3>1, Zenon DEF Frame
  <2> QED BY <1>1, <2>2, Zenon DEF Silent
<1>11. ASSUME NEW n \in NodeIds, Silence(n) \/ Kick(n)
       PROVE  AnnouncesTable'
  BY <1>1, <1>11, Zenon DEF Silence, Kick
<1> QED
  BY <1>2, <1>3, <1>4, <1>5, <1>6, <1>7, <1>8, <1>9, <1>10, <1>11, Zenon DEF Next, Receive

(***************************************************************************)
(* For any number of nodes, addresses and rooms: RoomCreated and JoinAccept*)
(* give the node registered at the address what the room's table holds for *)
(* it, a PeerList has the members of one room, the receiver among them, and *)
(* PeerUpdate Add and PunchRequest name a member to fellow members only.   *)
(***************************************************************************)
THEOREM AnnouncesAreTrue == Spec => []AnnouncesTable
<1>1. Init => AnnouncesTable
  BY Zenon DEF Init, AnnouncesTable
<1>2. TypeOK /\ TypeOK' /\ AnnouncesTable /\ [Next]_vars => AnnouncesTable'
  BY AnnounceStep, Zenon
<1> QED
  BY <1>1, <1>2, TypeCorrect, PTL DEF Spec

-----------------------------------------------------------------------------
(***************************************************************************)
(* Relay.  The inductive invariant ties a task to its slot: the slot is    *)
(* out of the freelist and holds the frame of the task, so no other task   *)
(* can have it.                                                            *)
(***************************************************************************)

RelayType ==
    /\ relay_free \in [RelaySlots -> Nat]
    /\ relay_buf \in [RelaySlots -> RelayFrames \cup {Nothing}]
    /\ relay_task \in [RelayFrames -> RelayTasks]
    /\ node_addr \in [RelayNodes -> RelayAddrs \cup {Nothing}]
    /\ relayed \in [RelayFrames -> Seq((RelayFrames \cup {Nothing}) \X (RelayAddrs \cup {Nothing}))]

(* A task under way has its slot to itself. *)
TaskHasSlot ==
    \A f \in RelayFrames : Relaying(f) =>
        /\ relay_task[f].slot \in RelaySlots
        /\ relay_free[relay_task[f].slot] = 0
        /\ relay_buf[relay_task[f].slot] = f

(* A slot is in the freelist once, or a task has it. *)
SlotAccounted ==
    \A s \in RelaySlots :
        \/ relay_free[s] = 1
        \/ relay_free[s] = 0 /\ \E f \in RelayFrames : Relaying(f) /\ relay_task[f].slot = s

(* What was sent so far; nothing before the task's own step. *)
SentOwn ==
    \A f \in RelayFrames :
        /\ relayed[f] \in {<<>>, << <<f, relay_task[f].addr>> >>}
        /\ relay_task[f].stage \in {"new", "spawned"} => relayed[f] = <<>>

RelayInv == RelayType /\ TaskHasSlot /\ SlotAccounted /\ SentOwn

-----------------------------------------------------------------------------

(* The freelist is full at the start, and nobody has a slot. *)
LEMMA RelayInitially == RelayInit => RelayInv
  BY RelayAssumption
  DEF RelayInit, RelayInv, RelayType, TaskHasSlot, SlotAccounted, SentOwn, Relaying, NoTask,
      RelayTasks, RelayStages

(* Every step of the receive loop and of the tasks keeps the invariant. *)
LEMMA RelayInductive == RelayInv /\ [RelayNext]_relay_vars => RelayInv'
  <1> SUFFICES ASSUME RelayInv, [RelayNext]_relay_vars PROVE RelayInv'
    OBVIOUS
  <1> USE DEF RelayInv
  <1>1. ASSUME NEW n \in RelayNodes, NEW a \in RelayAddrs, RelayRegister(n, a) PROVE RelayInv'
    <2>1. RelayType'
      BY <1>1 DEF RelayRegister, RelayType
    <2>2. TaskHasSlot' /\ SlotAccounted' /\ SentOwn'
      BY <1>1 DEF RelayRegister, TaskHasSlot, SlotAccounted, SentOwn, Relaying
    <2> QED
      BY <2>1, <2>2
  <1>2. ASSUME NEW f \in RelayFrames, NEW n \in RelayNodes, NEW s \in RelaySlots, RelayReceive(f, n, s)
        PROVE RelayInv'
    <2>1. /\ relay_free[s] = 1
          /\ relay_free' = [relay_free EXCEPT ![s] = 0]
      <3>1. relay_free[s] = 1
        BY <1>2 DEF RelayReceive, SlotAccounted
      <3>2. relay_free' = [relay_free EXCEPT ![s] = relay_free[s] - 1]
        BY <1>2 DEF RelayReceive
      <3> QED
        BY <3>1, <3>2
    <2>2. RelayType'
      BY <1>2, <2>1 DEF RelayReceive, RelayType, RelayTasks, RelayStages
    <2>3. \A g \in RelayFrames \ {f} :
             relay_task'[g] = relay_task[g] /\ (Relaying(g) => relay_task[g].slot # s)
      <3> SUFFICES ASSUME NEW g \in RelayFrames \ {f}
                   PROVE  relay_task'[g] = relay_task[g] /\ (Relaying(g) => relay_task[g].slot # s)
        OBVIOUS
      <3>1. relay_task'[g] = relay_task[g]
        BY <1>2 DEF RelayReceive, RelayType
      <3>2. Relaying(g) => relay_free[relay_task[g].slot] = 0
        BY DEF TaskHasSlot
      <3> QED BY <2>1, <3>1, <3>2
    <2>4. /\ relay_task'[f].stage = "spawned" /\ relay_task'[f].slot = s
          /\ ~Relaying(f) /\ relayed[f] = <<>>
      BY <1>2 DEF RelayReceive, RelayType, Relaying, SentOwn
    <2>5. TaskHasSlot'
      <3> SUFFICES ASSUME NEW g \in RelayFrames, Relaying(g)'
                   PROVE  /\ relay_task'[g].slot \in RelaySlots
                          /\ relay_free'[relay_task'[g].slot] = 0
                          /\ relay_buf'[relay_task'[g].slot] = g
        BY DEF TaskHasSlot, Relaying
      <3>1. relay_buf' = [relay_buf EXCEPT ![s] = f]
        BY <1>2 DEF RelayReceive
      <3>2. CASE g = f
        BY <2>1, <2>4, <3>1, <3>2 DEF RelayType
      <3>3. CASE g # f
        <4>1. /\ relay_task'[g] = relay_task[g] /\ Relaying(g) /\ relay_task[g].slot # s
          BY <2>3, <3>3 DEF Relaying
        <4>2. /\ relay_task[g].slot \in RelaySlots
              /\ relay_free[relay_task[g].slot] = 0 /\ relay_buf[relay_task[g].slot] = g
          BY <4>1 DEF TaskHasSlot
        <4> QED BY <2>1, <3>1, <4>1, <4>2 DEF RelayType
      <3> QED BY <3>2, <3>3
    <2>6. SlotAccounted'
      <3> SUFFICES ASSUME NEW x \in RelaySlots
                   PROVE  \/ relay_free'[x] = 1
                          \/ /\ relay_free'[x] = 0
                             /\ \E g \in RelayFrames : Relaying(g)' /\ relay_task'[g].slot = x
        BY DEF SlotAccounted
      <3>1. CASE x = s
        BY <2>1, <2>4, <3>1 DEF RelayType, Relaying
      <3>2. CASE x # s
        <4>1. relay_free'[x] = relay_free[x]
          BY <2>1, <3>2 DEF RelayType
        <4>2. CASE relay_free[x] = 0
          <5>1. PICK g \in RelayFrames : Relaying(g) /\ relay_task[g].slot = x
            BY <4>2 DEF SlotAccounted
          <5>2. relay_task'[g] = relay_task[g]
            BY <2>3, <2>4, <5>1
          <5> QED BY <4>1, <4>2, <5>1, <5>2 DEF Relaying
        <4> QED BY <4>1, <4>2 DEF SlotAccounted
      <3> QED BY <3>1, <3>2
    <2>7. SentOwn'
      BY <1>2, <2>3, <2>4 DEF RelayReceive, SentOwn, RelayType
    <2> QED
      BY <2>2, <2>5, <2>6, <2>7
  <1>3. ASSUME NEW f \in RelayFrames, RelayDrop(f) PROVE RelayInv'
    <2>1. RelayType'
      <3>1. relay_task \in [RelayFrames -> RelayTasks] /\ relay_task[f] \in RelayTasks
        BY DEF RelayType
      <3>2. [relay_task[f] EXCEPT !.stage = "done"] \in RelayTasks
        BY <3>1 DEF RelayTasks, RelayStages
      <3>3. relay_task' = [relay_task EXCEPT ![f] = [relay_task[f] EXCEPT !.stage = "done"]]
        BY <1>3 DEF RelayDrop
      <3>4. relay_task' \in [RelayFrames -> RelayTasks]
        BY <3>1, <3>2, <3>3
      <3> QED BY <1>3, <3>4, Zenon DEF RelayDrop, RelayType
    <2>2. \A g \in RelayFrames : /\ relay_task'[g].slot = relay_task[g].slot
                                 /\ relay_task'[g].addr = relay_task[g].addr
                                 /\ g # f => relay_task'[g].stage = relay_task[g].stage
      BY <1>3 DEF RelayDrop, RelayType, RelayTasks
    <2>3. relay_task[f].stage = "new" /\ relay_task'[f].stage = "done"
      BY <1>3 DEF RelayDrop, RelayType, RelayTasks
    <2>4. TaskHasSlot' /\ SlotAccounted' /\ SentOwn'
      BY <1>3, <2>2, <2>3 DEF RelayDrop, TaskHasSlot, SlotAccounted, SentOwn, Relaying
    <2> QED
      BY <2>1, <2>4
  <1>4. ASSUME NEW f \in RelayFrames, RelaySend(f) PROVE RelayInv'
    <2>1. /\ relay_task[f].stage = "spawned"
          /\ relay_buf[relay_task[f].slot] = f
          /\ relay_task[f] \in RelayTasks
      BY <1>4 DEF RelaySend, TaskHasSlot, Relaying, RelayType
    <2>2. \A g \in RelayFrames : /\ relay_task'[g].slot = relay_task[g].slot
                                 /\ relay_task'[g].addr = relay_task[g].addr
                                 /\ g # f => relay_task'[g].stage = relay_task[g].stage
      BY <1>4 DEF RelaySend, RelayType, RelayTasks
    <2>3. relay_task'[f].stage = "sent"
      BY <1>4 DEF RelaySend, RelayType, RelayTasks
    <2>4. /\ \A g \in RelayFrames \ {f} : relayed'[g] = relayed[g]
          /\ relayed'[f] \in {<<>>, << <<f, relay_task[f].addr>> >>}
      <3>1. relayed[f] = <<>>
        BY <2>1 DEF SentOwn
      <3>2. \/ relayed' = [relayed EXCEPT ![f] = Append(relayed[f], <<f, relay_task[f].addr>>)]
            \/ relayed' = relayed
        BY <1>4, <2>1 DEF RelaySend
      <3>3. Append(<<>>, <<f, relay_task[f].addr>>) = << <<f, relay_task[f].addr>> >>
        OBVIOUS
      <3> QED BY <3>1, <3>2, <3>3 DEF RelayType
    <2>5. RelayType'
      <3>1. relay_task' \in [RelayFrames -> RelayTasks]
        <4>1. relay_task \in [RelayFrames -> RelayTasks]
          BY DEF RelayType
        <4>2. [relay_task[f] EXCEPT !.stage = "sent"] \in RelayTasks
          BY <2>1 DEF RelayTasks, RelayStages
        <4>3. relay_task' = [relay_task EXCEPT ![f] = [relay_task[f] EXCEPT !.stage = "sent"]]
          BY <1>4 DEF RelaySend
        <4> QED BY <4>1, <4>2, <4>3
      <3>2. <<relay_buf[relay_task[f].slot], relay_task[f].addr>>
              \in (RelayFrames \cup {Nothing}) \X (RelayAddrs \cup {Nothing})
        BY <2>1 DEF RelayTasks
      <3> DEFINE Sent == (RelayFrames \cup {Nothing}) \X (RelayAddrs \cup {Nothing})
                 x == <<relay_buf[relay_task[f].slot], relay_task[f].addr>>
      <3>4. relayed \in [RelayFrames -> Seq(Sent)] /\ x \in Sent
        BY <3>2 DEF RelayType
      <3>5. relayed' = [relayed EXCEPT ![f] = Append(relayed[f], x)] \/ relayed' = relayed
        BY <1>4 DEF RelaySend
      <3>3. relayed' \in [RelayFrames -> Seq(Sent)]
        <4> HIDE DEF Sent, x
        <4>1. Append(relayed[f], x) \in Seq(Sent)
          BY <3>4
        <4> QED BY <3>4, <3>5, <4>1
      <3> QED
        BY <1>4, <3>1, <3>3 DEF RelaySend, RelayType
    <2>6. TaskHasSlot' /\ SlotAccounted'
      BY <1>4, <2>1, <2>2, <2>3 DEF RelaySend, TaskHasSlot, SlotAccounted, Relaying
    <2>7. SentOwn'
      <3> SUFFICES ASSUME NEW g \in RelayFrames
                   PROVE  /\ relayed'[g] \in {<<>>, << <<g, relay_task'[g].addr>> >>}
                          /\ relay_task'[g].stage \in {"new", "spawned"} => relayed'[g] = <<>>
        BY DEF SentOwn
      <3>1. relay_task'[g].addr = relay_task[g].addr
        BY <2>2, Zenon
      <3>2. relayed[g] \in {<<>>, << <<g, relay_task[g].addr>> >>}
        BY DEF SentOwn
      <3>3. CASE g = f
        BY <2>3, <2>4, <3>1, <3>3
      <3>4. CASE g # f
        <4>1. relayed'[g] = relayed[g] /\ relay_task'[g].stage = relay_task[g].stage
          BY <2>2, <2>4, <3>4, Zenon
        <4> QED BY <3>1, <3>2, <4>1 DEF SentOwn
      <3> QED BY <3>3, <3>4
    <2> QED
      BY <2>5, <2>6, <2>7
  <1>5. ASSUME NEW f \in RelayFrames, RelayRelease(f) PROVE RelayInv'
    <2> DEFINE s == relay_task[f].slot
    <2>1. /\ relay_task[f].stage = "sent" /\ Relaying(f)
          /\ s \in RelaySlots /\ relay_free[s] = 0 /\ relay_buf[s] = f
      BY <1>5 DEF RelayRelease, TaskHasSlot, Relaying
    <2>2. relay_free' = [relay_free EXCEPT ![s] = 1]
      <3>1. relay_free' = [relay_free EXCEPT ![s] = relay_free[s] + 1]
        BY <1>5 DEF RelayRelease
      <3> QED
        BY <2>1, <3>1
    <2>3. RelayType'
      BY <1>5, <2>1, <2>2 DEF RelayRelease, RelayType, RelayTasks, RelayStages
    <2>4. \A g \in RelayFrames \ {f} :
             relay_task'[g] = relay_task[g] /\ (Relaying(g) => relay_task[g].slot # s)
      <3> SUFFICES ASSUME NEW g \in RelayFrames \ {f}
                   PROVE  relay_task'[g] = relay_task[g] /\ (Relaying(g) => relay_task[g].slot # s)
        OBVIOUS
      <3>1. relay_task'[g] = relay_task[g]
        BY <1>5 DEF RelayRelease, RelayType
      <3>2. Relaying(g) => relay_buf[relay_task[g].slot] = g
        BY DEF TaskHasSlot
      <3> QED BY <2>1, <3>1, <3>2
    <2>5. relay_task'[f].stage = "done" /\ relay_task'[f].addr = relay_task[f].addr
      BY <1>5 DEF RelayRelease, RelayType, RelayTasks
    <2>6. TaskHasSlot'
      <3> SUFFICES ASSUME NEW g \in RelayFrames, Relaying(g)'
                   PROVE  /\ relay_task'[g].slot \in RelaySlots
                          /\ relay_free'[relay_task'[g].slot] = 0
                          /\ relay_buf'[relay_task'[g].slot] = g
        BY DEF TaskHasSlot, Relaying
      <3>1. g # f
        BY <2>5 DEF Relaying
      <3>2. /\ relay_task'[g] = relay_task[g] /\ Relaying(g) /\ relay_task[g].slot # s
        BY <2>4, <3>1 DEF Relaying
      <3>3. /\ relay_task[g].slot \in RelaySlots
            /\ relay_free[relay_task[g].slot] = 0 /\ relay_buf[relay_task[g].slot] = g
        BY <3>2 DEF TaskHasSlot
      <3>4. relay_buf' = relay_buf
        BY <1>5 DEF RelayRelease
      <3> HIDE DEF s
      <3> QED BY <2>2, <3>2, <3>3, <3>4 DEF RelayType
    <2>7. SlotAccounted'
      <3> SUFFICES ASSUME NEW x \in RelaySlots
                   PROVE  \/ relay_free'[x] = 1
                          \/ /\ relay_free'[x] = 0
                             /\ \E g \in RelayFrames : Relaying(g)' /\ relay_task'[g].slot = x
        BY DEF SlotAccounted
      <3>1. CASE x = s
        BY <2>2, <3>1 DEF RelayType
      <3>2. CASE x # s
        <4>1. relay_free'[x] = relay_free[x]
          BY <2>2, <3>2 DEF RelayType
        <4>2. CASE relay_free[x] = 0
          <5>1. PICK g \in RelayFrames : Relaying(g) /\ relay_task[g].slot = x
            BY <4>2 DEF SlotAccounted
          <5>2. relay_task'[g] = relay_task[g]
            BY <2>4, <3>2, <5>1
          <5> QED BY <4>1, <4>2, <5>1, <5>2 DEF Relaying
        <4> QED BY <4>1, <4>2 DEF SlotAccounted
      <3> QED BY <3>1, <3>2
    <2>8. SentOwn'
      BY <1>5, <2>4, <2>5 DEF RelayRelease, SentOwn
    <2> QED
      BY <2>3, <2>6, <2>7, <2>8
  <1>6. CASE UNCHANGED relay_vars
    BY <1>6 DEF relay_vars, RelayType, TaskHasSlot, SlotAccounted, SentOwn, Relaying
  <1> QED
    BY <1>1, <1>2, <1>3, <1>4, <1>5, <1>6 DEF RelayNext

LEMMA RelayInvariant == RelaySpec => []RelayInv
  BY RelayInitially, RelayInductive, PTL DEF RelaySpec

(***************************************************************************)
(* The supernode's relay loses no slot, whatever its tasks do and however  *)
(* often sends fail: a slot is in the freelist once and nobody's, or       *)
(* exactly one task has it.                                                *)
(***************************************************************************)
THEOREM RelayConservesSlots == RelaySpec => []RelaySlotsConserved
  <1>1. RelayInv => RelaySlotsConserved
    <2> SUFFICES ASSUME RelayInv, NEW s \in RelaySlots
                 PROVE  \/ relay_free[s] = 1 /\ RelayHolders(s) = {}
                        \/ relay_free[s] = 0 /\ \E f \in RelayFrames : RelayHolders(s) = {f}
      BY DEF RelaySlotsConserved
    <2>1. CASE relay_free[s] = 1
      BY <2>1 DEF RelayInv, TaskHasSlot, RelayHolders
    <2>2. CASE relay_free[s] = 0
      <3>1. PICK f \in RelayFrames : Relaying(f) /\ relay_task[f].slot = s
        BY <2>2 DEF RelayInv, SlotAccounted
      <3>2. RelayHolders(s) = {f}
        BY <3>1 DEF RelayInv, TaskHasSlot, RelayHolders
      <3> QED
        BY <2>2, <3>2
    <2> QED
      BY <2>1, <2>2 DEF RelayInv, SlotAccounted
  <1> QED
    BY <1>1, RelayInvariant, PTL

(***************************************************************************)
(* A task of the relay sends the bytes of its own frame to the address the *)
(* target had when the frame came, although slots are reused.              *)
(***************************************************************************)
THEOREM RelayForwardsOwn == RelaySpec => []RelaysIntact
  <1>1. RelayInv => RelaysIntact
    BY DEF RelayInv, SentOwn, RelaysIntact
  <1> QED
    BY <1>1, RelayInvariant, PTL
==============================================================================
