------------------------------ MODULE Supernode ------------------------------
(***************************************************************************)
(* The supernode's control plane (crates/r2n-supernode-lib): the registry  *)
(* of nodes, the rooms, the address pool, the receive loop that handles    *)
(* one control frame at a time, and the two background parties (reaper and *)
(* management API), which work on copies of the maps taken when run()      *)
(* starts, before any node has registered.                                 *)
(*                                                                         *)
(* The receive loop is the only writer of nodes, addr_to_node, rooms and   *)
(* address_pool, and it awaits each handler before the next packet, so one *)
(* frame is one action.  `sent' is what the last step put on the wire; a   *)
(* send that fails half way through a fan-out is a datagram that was lost. *)
(***************************************************************************)
EXTENDS Room, RoomAddressPool

CONSTANTS
    Addrs,         \* socket addresses packets come from
    Tokens,        \* join tokens
    LocalNets,     \* what a node may report as local networks (sets of pool subnets)
    FallbackCidr,  \* "192.168.255.0/24", the subnet used when the pool is exhausted
    None

RoomCidrs == Cidrs \cup {FallbackCidr}
NodeInfo == [addr: Addrs, local_networks: LocalNets, fresh: BOOLEAN]

ASSUME SupernodeAssumption ==
    /\ FallbackCidr \in Nat \ {NoCidr}
    /\ LocalNets \subseteq SUBSET RoomCidrs
    /\ None \notin NodeIds \cup Addrs \cup RoomIds
    /\ None \notin NodeInfo \cup Rooms(RoomCidrs, Tokens)

VARIABLES
    nodes,         \* NodeId -> NodeInfo; fresh abstracts last_seen within 120 s
    addr_to_node,  \* SocketAddr -> NodeId
    rooms,         \* RoomId -> Room
    address_pool,  \* RoomId -> subnet
    blocked,       \* the receive loop waits for a lock it holds itself
    nodes_clone,   \* the reaper's copies
    rooms_clone,
    mgmt_nodes,    \* the management API's copy
    sent           \* frames sent by the last step

loop_vars == <<nodes, addr_to_node, rooms, address_pool, blocked>>
clone_vars == <<nodes_clone, rooms_clone, mgmt_nodes>>
vars == <<nodes, addr_to_node, rooms, address_pool, blocked,
          nodes_clone, rooms_clone, mgmt_nodes, sent>>

FrameTypes == {"RegisterOk", "Error", "RoomCreated", "JoinAccept", "JoinReject", "PeerList",
               "PeerAdd", "PeerRemove", "PunchRequest", "Heartbeat", "RoomsList"}
Frames == [type: FrameTypes, to: Addrs, room: RoomIds \cup {None},
           node: NodeIds \cup {None}, ip: Hosts \cup {NoIp}, peers: SUBSET NodeIds]

Frame(type, to, room, node, ip, peers) ==
    [type |-> type, to |-> to, room |-> room, node |-> node, ip |-> ip, peers |-> peers]
Reply(type, to) == Frame(type, to, None, None, NoIp, {})
Punch(to, target) == Frame("PunchRequest", to, None, target, NoIp, {})

Registered == {n \in NodeIds : nodes[n] # None}
LiveRooms == {r \in RoomIds : rooms[r] # None}

TypeOK ==
    /\ nodes \in [NodeIds -> NodeInfo \cup {None}]
    /\ addr_to_node \in [Addrs -> NodeIds \cup {None}]
    /\ rooms \in [RoomIds -> Rooms(RoomCidrs, Tokens) \cup {None}]
    /\ address_pool \in Allocations
    /\ blocked \in BOOLEAN
    /\ nodes_clone \in [NodeIds -> NodeInfo \cup {None}]
    /\ rooms_clone \in [RoomIds -> Rooms(RoomCidrs, Tokens) \cup {None}]
    /\ mgmt_nodes \in [NodeIds -> NodeInfo \cup {None}]
    /\ sent \subseteq Frames

Init ==
    /\ nodes = [n \in NodeIds |-> None]
    /\ addr_to_node = [a \in Addrs |-> None]
    /\ rooms = [r \in RoomIds |-> None]
    /\ address_pool = NewPool
    /\ blocked = FALSE
    /\ nodes_clone = nodes
    /\ rooms_clone = rooms
    /\ mgmt_nodes = nodes
    /\ sent = {}

-----------------------------------------------------------------------------
(* The receive loop *)

(* last_seen of the sender is refreshed before the frame is handled. *)
Touched(a) ==
    [n \in NodeIds |-> IF addr_to_node[a] = n /\ nodes[n] # None
                       THEN [nodes[n] EXCEPT !.fresh = TRUE]
                       ELSE nodes[n]]

Sharing(n) == {m \in NodeIds \ {n} : \E r \in LiveRooms : {n, m} \subseteq Members(rooms[r])}

RegisterNode(n, a, nets) ==
    /\ ~blocked
    /\ nodes' = [Touched(a) EXCEPT ![n] = [addr |-> a, local_networks |-> nets, fresh |-> TRUE]]
    /\ addr_to_node' = [addr_to_node EXCEPT ![a] = n]
    /\ sent' = {Reply("RegisterOk", a)}
               \cup {Punch(nodes[m].addr, n) : m \in Sharing(n) \cap Registered}
    /\ UNCHANGED <<rooms, address_pool, blocked, clone_vars>>

(* A frame that needs a registered sender, from an address that has none. *)
Unregistered(a, answer) ==
    /\ ~blocked
    /\ addr_to_node[a] = None
    /\ sent' = {Reply(type, a) : type \in answer}
    /\ UNCHANGED <<loop_vars, clone_vars>>

LocalNetworks(n) == IF nodes[n] # None THEN nodes[n].local_networks ELSE {}

CreateRoom(a, r, token) ==
    /\ ~blocked
    /\ addr_to_node[a] # None
    /\ rooms[r] = None /\ address_pool[r] = NoCidr     \* a fresh random id
    /\ LET n == addr_to_node[a] IN
       \E cidr \in allocate_with_avoidance(address_pool, r, LocalNetworks(n)) :
       \E ip \in allocate_ip(NewRoom(cidr, token), n, "Owner") :
          /\ address_pool' = [address_pool EXCEPT ![r] = cidr]
          /\ rooms' = [rooms EXCEPT ![r] = add_member(NewRoom(cidr, token), n, ip)]
          /\ sent' = {Frame("RoomCreated", a, r, n, ip, {})}
    /\ nodes' = Touched(a)
    /\ UNCHANGED <<addr_to_node, blocked, clone_vars>>

(* allocate_with_avoidance fails: the handler returns the error and answers nothing. *)
CreateRoomExhausted(a, r) ==
    /\ ~blocked
    /\ addr_to_node[a] # None
    /\ rooms[r] = None /\ address_pool[r] = NoCidr
    /\ allocate_with_avoidance(address_pool, r, LocalNetworks(addr_to_node[a])) = {}
    /\ nodes' = Touched(a)
    /\ sent' = {}
    /\ UNCHANGED <<addr_to_node, rooms, address_pool, blocked, clone_vars>>

(* rooms.entry(room_id).or_insert_with: a room that is not there is re-created on demand. *)
RestoredCidrs(r) ==
    IF allocate(address_pool, r) # {} THEN allocate(address_pool, r) ELSE {FallbackCidr}

EntryRooms(r, token) ==
    IF rooms[r] # None THEN {rooms[r]}
    ELSE {NewRoom(cidr, token) : cidr \in RestoredCidrs(r)}

JoinEntry(a, r, room) ==
    /\ ~blocked
    /\ addr_to_node[a] # None
    /\ nodes' = Touched(a)
    /\ address_pool' = IF rooms[r] = None /\ allocate(address_pool, r) # {}
                       THEN [address_pool EXCEPT ![r] = room.virtual_cidr]
                       ELSE address_pool
    /\ UNCHANGED <<addr_to_node, blocked, clone_vars>>

(* Mutant of JoinFrames: the peer list is built before the new member is in the room. *)
JoinFramesEarlyList(a, r, n, room) ==
    {Frame("JoinAccept", a, r, n, room.members[n], {}),
     Frame("PeerList", a, None, None, NoIp, Members(room) \ {n})}

(* What a successful join sends: the answer, the peer list, and the two fan-outs. *)
JoinFrames(a, r, n, room) ==
    LET others == (Members(room) \ {n}) \cap Registered IN
    {Frame("JoinAccept", a, r, n, room.members[n], {}),
     Frame("PeerList", a, None, None, NoIp, Members(room))}
    \cup {Frame("PeerAdd", nodes[m].addr, None, n, room.members[n], {}) : m \in others}
    \cup {Punch(nodes[m].addr, n) : m \in others}
    \cup {Punch(a, m) : m \in others}

(* A member that joins again keeps its entry. *)
JoinedRooms(room, n) ==
    IF room.members[n] # NoIp THEN {room}
    ELSE {add_member(room, n, ip) : ip \in allocate_ip(room, n, "Guest")}

JoinRoomAccept(a, r, token) ==
    \E room \in EntryRooms(r, token) :
        LET n == addr_to_node[a] IN
        /\ JoinEntry(a, r, room)
        /\ room.join_token = token
        /\ room.virtual_cidr \notin LocalNetworks(n)
        /\ \E joined \in JoinedRooms(room, n) :
              /\ rooms' = [rooms EXCEPT ![r] = joined]
              /\ sent' = JoinFrames(a, r, n, joined)

(* A refused or failed join still leaves a re-created room behind. *)
JoinRoomReject(a, r, token) ==
    \E room \in EntryRooms(r, token) :
        /\ JoinEntry(a, r, room)
        /\ \/ room.join_token # token
           \/ room.virtual_cidr \in LocalNetworks(addr_to_node[a])
        /\ rooms' = [rooms EXCEPT ![r] = room]
        /\ sent' = {Reply("JoinReject", a)}

(* allocate_ip fails: the error is logged by the loop and nothing is answered. *)
JoinRoomExhausted(a, r, token) ==
    \E room \in EntryRooms(r, token) :
        LET n == addr_to_node[a] IN
        /\ JoinEntry(a, r, room)
        /\ room.join_token = token
        /\ room.virtual_cidr \notin LocalNetworks(n)
        /\ room.members[n] = NoIp
        /\ allocate_ip(room, n, "Guest") = {}
        /\ rooms' = [rooms EXCEPT ![r] = room]
        /\ sent' = {}

(***************************************************************************)
(* The handler holds the get_mut guard of the room to its end.  When the   *)
(* room is empty it calls rooms.remove under that guard: DashMap waits for *)
(* the guard of the same shard, so the loop never gets past the call, and  *)
(* neither the room nor its subnet (release, two lines below) is given     *)
(* back.                                                                   *)
(***************************************************************************)
LeaveRoom(a, r) ==
    LET n == addr_to_node[a]
        left == remove_member(rooms[r], n) IN
    /\ ~blocked
    /\ n # None
    /\ rooms[r] # None
    /\ nodes' = Touched(a)
    /\ sent' = IF rooms[r].members[n] = NoIp THEN {}
               ELSE {Frame("PeerRemove", nodes[m].addr, None, n, rooms[r].members[n], {}) :
                        m \in Members(left) \cap Registered}
    /\ rooms' = [rooms EXCEPT ![r] = left]
    /\ blocked' = (Members(left) = {})
    /\ UNCHANGED <<addr_to_node, address_pool, clone_vars>>

(* LeaveRoom for a room that is not there, and every frame without an effect of its own. *)
OtherFrame(a, answer) ==
    /\ ~blocked
    /\ nodes' = Touched(a)
    /\ sent' = {Reply(type, a) : type \in answer}
    /\ UNCHANGED <<addr_to_node, rooms, address_pool, blocked, clone_vars>>

-----------------------------------------------------------------------------
(* Time and the background parties *)

(* Nothing arrives from n for 120 s. *)
Silence(n) ==
    LET aged(map) == [map EXCEPT ![n] = IF @ = None THEN None ELSE [@ EXCEPT !.fresh = FALSE]] IN
    /\ nodes[n] # None
    /\ nodes' = aged(nodes)
    /\ nodes_clone' = aged(nodes_clone)
    /\ sent' = {}
    /\ UNCHANGED <<addr_to_node, rooms, address_pool, blocked, rooms_clone, mgmt_nodes>>

(***************************************************************************)
(* One tick of the reaper, on its own copies; it has no handle on the      *)
(* pool.  (Its own addr_to_node copy is written and never read, and the    *)
(* notices to nodes removed by the same tick are left out.)                *)
(***************************************************************************)
Reap ==
    LET dead == {n \in NodeIds : nodes_clone[n] # None /\ ~nodes_clone[n].fresh}
        told(n) == {m \in NodeIds \ dead :
                      /\ nodes_clone[m] # None
                      /\ \E r \in RoomIds : /\ rooms_clone[r] # None
                                           /\ {n, m} \subseteq Members(rooms_clone[r])}
        emptied(room) == [room EXCEPT !.members = [n \in NodeIds |-> IF n \in dead THEN NoIp ELSE @[n]]]
    IN
    /\ nodes_clone' = [n \in NodeIds |-> IF n \in dead THEN None ELSE nodes_clone[n]]
    /\ rooms_clone' = [r \in RoomIds |->
                          IF \/ rooms_clone[r] = None
                             \/ dead # {} /\ Members(emptied(rooms_clone[r])) = {}
                          THEN None ELSE emptied(rooms_clone[r])]
    /\ sent' = UNION {{Frame("PeerRemove", nodes_clone[m].addr, None, n, NoIp, {}) : m \in told(n)} :
                       n \in dead}
    /\ UNCHANGED <<loop_vars, mgmt_nodes>>

(* POST /nodes/:node_id/kick *)
Kick(n) ==
    /\ mgmt_nodes' = [mgmt_nodes EXCEPT ![n] = None]
    /\ sent' = {}
    /\ UNCHANGED <<loop_vars, nodes_clone, rooms_clone>>

Receive ==
    \E a \in Addrs :
        \/ \E n \in NodeIds, nets \in LocalNets : RegisterNode(n, a, nets)
        \/ \E answer \in {{"Error"}, {"JoinReject"}, {}} : Unregistered(a, answer)
        \/ \E answer \in {{"Heartbeat"}, {"RoomsList"}, {}} : OtherFrame(a, answer)
        \/ \E r \in RoomIds :
              \/ LeaveRoom(a, r)
              \/ CreateRoomExhausted(a, r)
              \/ \E token \in Tokens :
                    \/ CreateRoom(a, r, token)
                    \/ JoinRoomAccept(a, r, token)
                    \/ JoinRoomReject(a, r, token)
                    \/ JoinRoomExhausted(a, r, token)

Next ==
    \/ Receive
    \/ Reap
    \/ \E n \in NodeIds : Silence(n) \/ Kick(n)

Spec == Init /\ [][Next]_vars

-----------------------------------------------------------------------------
(* Properties *)

(***************************************************************************)
(* No two members of a room hold the same virtual address, whatever the    *)
(* order of joins, leaves and rejoins (Room::allocate_ip reuses a lease    *)
(* and skips the addresses of members and of leases).                      *)
(***************************************************************************)
UniqueIps ==
    \A r \in LiveRooms : \A m, n \in Members(rooms[r]) :
        rooms[r].members[m] = rooms[r].members[n] => m = n

(***************************************************************************)
(* A member's address is its lease, and no two nodes ever seen by a room   *)
(* have the same lease: this is what makes the reuse of a lease safe       *)
(* without a second look at the table (Room::add_member keeps both maps).  *)
(***************************************************************************)
LeasesSound ==
    \A r \in LiveRooms :
        /\ \A n \in Members(rooms[r]) : rooms[r].ip_leases[n] = rooms[r].members[n]
        /\ LeasesDistinct(rooms[r])

(***************************************************************************)
(* As long as a room exists, a node that once had an address in it keeps   *)
(* that address, across leaving and rejoining ("room_reuses_lease_after_   *)
(* member_leaves", crates/r2n-room/src/lib.rs).                            *)
(***************************************************************************)
LeaseStable ==
    [][\A r \in RoomIds : \A n \in NodeIds :
         rooms[r] # None /\ rooms'[r] # None /\ rooms[r].ip_leases[n] # NoIp
         => rooms'[r].ip_leases[n] = rooms[r].ip_leases[n]]_vars

(***************************************************************************)
(* The pool and the rooms agree: a subnet is allocated only to a room that *)
(* exists and uses it (nothing leaks, whichever handler returned early),   *)
(* two rooms never have the same allocation, and a room without one uses   *)
(* the fallback subnet of JoinRoom.                                        *)
(***************************************************************************)
PoolBacksRooms ==
    \A r \in RoomIds :
        /\ address_pool[r] # NoCidr =>
              /\ rooms[r] # None /\ rooms[r].virtual_cidr = address_pool[r]
              /\ \A q \in RoomIds : address_pool[q] = address_pool[r] => q = r
        /\ rooms[r] # None /\ address_pool[r] = NoCidr => rooms[r].virtual_cidr = FallbackCidr

(* The frame goes to where another member of the room registered last, or came from. *)
ToFellow(f, r) ==
    \E m \in Members(rooms[r]) \ {f.node} :
        addr_to_node[f.to] = m \/ (nodes[m] # None /\ nodes[m].addr = f.to)

(***************************************************************************)
(* What the supernode announces is so when the frame leaves.  RoomCreated  *)
(* and JoinAccept give the node registered at the address what the room's  *)
(* table holds for it; a PeerList has the members of one room, the         *)
(* receiver among them; PeerUpdate Add (with the address in the table) and *)
(* PunchRequest name a member of a room only to other members of it, also  *)
(* when nodes share an address or moved to another one.                    *)
(***************************************************************************)
AnnouncesTable ==
    \A f \in sent :
        /\ f.type \in {"RoomCreated", "JoinAccept"} =>
              /\ f.room \in LiveRooms /\ addr_to_node[f.to] = f.node
              /\ f.ip # NoIp /\ rooms[f.room].members[f.node] = f.ip
        /\ f.type = "PeerList" =>
              \E r \in LiveRooms : f.peers = Members(rooms[r]) /\ addr_to_node[f.to] \in f.peers
        /\ f.type \in {"PeerAdd", "PunchRequest"} =>
              \E r \in LiveRooms :
                 /\ f.node \in Members(rooms[r]) /\ ToFellow(f, r)
                 /\ f.type = "PeerAdd" => rooms[r].members[f.node] = f.ip

-----------------------------------------------------------------------------
(* What comments and documentation say of the supernode, for the runs that show otherwise *)

(* The reaper's interval ticks for ever; nothing obliges a client to send a frame. *)
FairSpec == Spec /\ WF_vars(Reap)

(***************************************************************************)
(* "120 seconds timeout for zombies": a node that stays silent is          *)
(* eventually removed from the registry (the reaper task of run()).        *)
(***************************************************************************)
ZombiesRemoved ==
    \A n \in NodeIds :
        (nodes[n] # None /\ ~nodes[n].fresh) ~> (nodes[n] = None \/ nodes[n].fresh)

(***************************************************************************)
(* "if room.members.is_empty()" the LeaveRoom handler removes the room and *)
(* calls release, after which the pool gives the subnet to the next room   *)
(* (test address_pool_allocates_distinct_room_subnets_and_releases,        *)
(* crates/r2n-room/src/lib.rs).  So when its last member leaves, a room    *)
(* ends and its subnet is free again.                                      *)
(***************************************************************************)
EmptiedRoomEnds ==
    [][\A r \in RoomIds :
         (rooms[r] # None /\ Members(rooms[r]) # {} /\ (rooms'[r] # None => Members(rooms'[r]) = {}))
         => rooms'[r] = None /\ address_pool'[r] = NoCidr]_vars
============================================================================
