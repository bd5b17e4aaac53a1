------------------------------ MODULE Incoming ------------------------------
(***************************************************************************)
(* What a DataPlane (crates/r2n-dataplane) does with the frames of its     *)
(* peers and with the Ethernet frames of its TAP device: header            *)
(* validation, flood deduplication, the peer table, MAC learning, and the  *)
(* choice of targets.                                                      *)
(*                                                                         *)
(* Three tasks meet here.  The UDP task handles frames (Receive, Lookup,   *)
(* Deliver: cut where it reads what others write), and between frames      *)
(* activates rooms and updates peers.  The command task leaves the room,   *)
(* one lock at a time.  The TUN task forwards.  EdgeRoom has the steps of  *)
(* an activation; here it is one step.                                     *)
(*                                                                         *)
(* A frame is [src, dst, room, id, mac]: id is 0 in a frame that is not    *)
(* flooded (ttl 0) and its packet id otherwise; mac is the source address  *)
(* of its Ethernet payload.  Time enters as `aged' and `idle': what in a   *)
(* table is older than its limit.  Policy and decryption may refuse any    *)
(* frame.                                                                  *)
(***************************************************************************)
EXTENDS Integers, Sequences, FiniteSets

CONSTANTS
    Self,            \* local_node_id
    Nodes,           \* the other nodes
    Rooms,
    Macs,
    PacketIds,
    SEEN_FLOOD_CAPACITY,
    MAC_TABLE_MAX_ENTRIES,
    MaxFloods,       \* bound: floods accepted in a behaviour
    None

ASSUME IncomingAssumption ==
    /\ Self \notin Nodes
    /\ None \notin Nodes \cup Rooms \cup Macs
    /\ PacketIds \subseteq Nat \ {0}
    /\ SEEN_FLOOD_CAPACITY \in Nat \ {0}
    /\ MAC_TABLE_MAX_ENTRIES \in Nat \ {0}
    /\ MaxFloods \in Nat

VARIABLES
    room_id,     \* Edge::room_id
    tun,         \* the room whose device is open
    dp_room,     \* DataPlane::room_id
    peers,       \* DataPlane::peers
    order,       \* SeenFloodPackets::order, [key, at]: at stands for seen_at
    set,         \* SeenFloodPackets::set
    mac_table,   \* DataPlane::mac_table, the node of each entry
    idle,        \* the MACs whose last_seen is longer ago than MAC_TABLE_MAX_AGE
    frame,       \* the frame in the UDP task's hands
    stage,       \* how far it is
    leave,       \* how far deactivate_room is
    log,         \* history: the floods let through, [key, aged]
    aged,        \* so many of them are longer ago than SEEN_FLOOD_WINDOW
    heard,       \* history: who sent a frame from a MAC last
    overlapped,  \* history: a leave overlapped an activation
    raced,       \* history: a leave cleared the tables under a frame
    out          \* what the last step wrote to the device or sent to peers

tables == <<order, set, mac_table, idle>>
rooms == <<room_id, tun, dp_room, leave, overlapped>>
vars == <<room_id, tun, dp_room, peers, order, set, mac_table, idle, frame, stage,
          leave, log, aged, heard, overlapped, raced, out>>

Keys == Nodes \X PacketIds
Frames == [src : Nodes \cup {Self}, dst : {"self", "other"}, room : Rooms,
           id : PacketIds \cup {0}, mac : Macs]
Nothing == [kind |-> "none"]
Learned(t) == {m \in Macs : t[m] # None}

TypeOK ==
    /\ room_id \in Rooms \cup {None}
    /\ tun \in Rooms \cup {None}
    /\ dp_room \in Rooms \cup {None}
    /\ peers \subseteq Nodes
    /\ order \in Seq([key : Keys, at : 1 .. MaxFloods])
    /\ Len(order) <= SEEN_FLOOD_CAPACITY
    /\ set \subseteq Keys
    /\ mac_table \in [Macs -> Nodes \cup {None}]
    /\ Cardinality(Learned(mac_table)) <= MAC_TABLE_MAX_ENTRIES
    /\ idle \subseteq Learned(mac_table)
    /\ stage \in {"idle", "validated", "found"}
    /\ frame \in Frames \cup {None}
    /\ leave \in {"idle", "tun", "clear", "dataplane"}
    /\ log \in Seq([key : Keys, aged : 0 .. MaxFloods])
    /\ aged \in 0 .. Len(log)
    /\ heard \in [Macs -> Nodes \cup {None}]
    /\ overlapped \in BOOLEAN
    /\ raced \in BOOLEAN

Init ==
    /\ room_id = None /\ tun = None /\ dp_room = None
    /\ peers = {}
    /\ order = <<>> /\ set = {}
    /\ mac_table = [m \in Macs |-> None] /\ idle = {}
    /\ frame = None /\ stage = "idle"
    /\ leave = "idle"
    /\ log = <<>> /\ aged = 0
    /\ heard = [m \in Macs |-> None]
    /\ overlapped = FALSE /\ raced = FALSE
    /\ out = Nothing

-----------------------------------------------------------------------------
(* SeenFloodPackets *)

Recorded(q) == {q[i].key : i \in DOMAIN q}

(* Mutant of Overflowing: the queue is cut when it is full, not when it is over-full. *)
OverflowingEarly(q) == IF Len(q) >= SEEN_FLOOD_CAPACITY THEN 1 ELSE 0

(* so many entries have to go from the front to keep to the capacity *)
Overflowing(q) == IF Len(q) > SEEN_FLOOD_CAPACITY THEN Len(q) - SEEN_FLOOD_CAPACITY ELSE 0

(* prune: so many leave from the front, first to keep to the capacity, then as long as the *)
(* one in front is too old                                                                 *)
Popped(q) ==
    CHOOSE k \in Overflowing(q) .. Len(q) :
        /\ \A i \in Overflowing(q) + 1 .. k : q[i].at <= aged
        /\ k < Len(q) => q[k + 1].at > aged

pruned(q) == SubSeq(q, Popped(q) + 1, Len(q))

(* what leaves the queue leaves the set *)
Forgotten(q) == {q[i].key : i \in 1 .. Popped(q)}

(* insert_if_new prunes, looks the key up, and prunes again after an insertion. *)
Held == set \ Forgotten(order)

InsertNew(key) ==
    LET q == Append(pruned(order), [key |-> key, at |-> Len(log) + 1])
    IN  /\ key \notin Held
        /\ order' = pruned(q)
        /\ set' = (Held \cup {key}) \ Forgotten(q)
        /\ log' = Append(log, [key |-> key, aged |-> aged])

RefuseSeen(key) ==
    /\ key \in Held
    /\ order' = pruned(order)
    /\ set' = Held
    /\ UNCHANGED log

-----------------------------------------------------------------------------
(* The MAC table *)

Without(t, gone) == [m \in Macs |-> IF m \in gone THEN None ELSE t[m]]

(* prune_mac_table: retain what was seen recently *)
prune_mac_table == Without(mac_table, idle)

(* Mutant of Entered: a known MAC stays with the node it was first seen at. *)
EnteredOnce(mac, node) ==
    [prune_mac_table EXCEPT ![mac] = IF @ = None THEN node ELSE @]

Entered(mac, node) == [prune_mac_table EXCEPT ![mac] = node]

(* learn_mac: over the limit the entry seen longest ago goes, which is not the new one *)
learn_mac(mac, node) ==
    LET t == Entered(mac, node)
    IN  IF Cardinality(Learned(t)) > MAC_TABLE_MAX_ENTRIES
        THEN {Without(t, {old}) : old \in Learned(t) \ {mac}}
        ELSE {t}

-----------------------------------------------------------------------------
(* The UDP task: handle_incoming_frame *)

header_is_flood(f) == f.id # 0

(* Mutant of ValidHeader: any room's frames pass. *)
ValidHeaderAnyRoom(f) ==
    dp_room # None /\ f.src # Self /\ (header_is_flood(f) \/ f.dst = "self")

(* validate_incoming_header up to the look at the floods *)
ValidHeader(f) ==
    /\ dp_room # None
    /\ f.room = dp_room
    /\ f.src # Self
    /\ header_is_flood(f) \/ f.dst = "self"

Discard ==
    /\ frame' = None
    /\ stage' = "idle"

Receive(f) ==
    /\ stage = "idle"
    /\ ValidHeader(f)
    /\ \/ ~header_is_flood(f) /\ UNCHANGED <<order, set, log>>
       \/ header_is_flood(f) /\ Len(log) < MaxFloods /\ InsertNew(<<f.src, f.id>>)
    /\ frame' = f
    /\ stage' = "validated"
    /\ out' = Nothing
    /\ UNCHANGED <<rooms, peers, mac_table, idle, aged, heard, raced>>

ReceiveRefused(f) ==
    /\ stage = "idle"
    /\ \/ ~ValidHeader(f) /\ UNCHANGED <<order, set, log>>
       \/ ValidHeader(f) /\ header_is_flood(f) /\ RefuseSeen(<<f.src, f.id>>)
    /\ out' = Nothing
    /\ UNCHANGED <<rooms, peers, mac_table, idle, frame, stage, aged, heard, raced>>

(* A frame of an unknown peer, one that does not decrypt (sealed for another node  *)
(* or with another key, or a repetition), a ping and a pong go no further; what     *)
(* they do to paths is in Paths.                                                    *)
Lookup ==
    /\ stage = "validated"
    /\ \/ Discard
       \/ /\ frame.src \in peers /\ frame.dst = "self"
          /\ stage' = "found" /\ UNCHANGED frame
    /\ out' = Nothing
    /\ UNCHANGED <<rooms, peers, tables, log, aged, heard, raced>>

(* The MAC is learned before the policy is asked; a frame the policy refuses, or for    *)
(* which there is no device any more, is dropped.  learn_mac and the write are one step *)
(* because no other task's step has to do with both.                                    *)
Deliver ==
    /\ stage = "found"
    /\ mac_table' \in learn_mac(frame.mac, frame.src)
    /\ idle' = {}
    /\ heard' = [heard EXCEPT ![frame.mac] = frame.src]
    /\ \/ out' = Nothing
       \/ tun # None /\ out' = [kind |-> "write", room |-> frame.room, device |-> tun]
    /\ Discard
    /\ UNCHANGED <<rooms, peers, order, set, log, aged, raced>>

-----------------------------------------------------------------------------
(* The UDP task between two frames *)

upsert_peer(n) ==
    /\ stage = "idle"
    /\ peers' = peers \cup {n}
    /\ out' = Nothing
    /\ UNCHANGED <<rooms, tables, frame, stage, log, aged, heard, raced>>

EntriesOf(n) == {m \in Macs : mac_table[m] = n}

remove_peer(n) ==
    /\ stage = "idle"
    /\ peers' = peers \ {n}
    /\ mac_table' = Without(mac_table, EntriesOf(n))
    /\ idle' = idle \ EntriesOf(n)
    /\ out' = Nothing
    /\ UNCHANGED <<rooms, order, set, frame, stage, log, aged, heard, raced>>

(* activate_room: a device that is there is used as it is *)
ActivateRoom(r) ==
    /\ stage = "idle"
    /\ room_id \in {None, r}
    /\ room_id' = r
    /\ tun' = IF tun = None THEN r ELSE tun
    /\ dp_room' = r
    /\ overlapped' = (overlapped \/ leave # "idle")
    /\ out' = Nothing
    /\ UNCHANGED <<peers, tables, frame, stage, leave, log, aged, heard, raced>>

-----------------------------------------------------------------------------
(* The command task: deactivate_room from room_id on *)

LeaveBegin ==
    /\ leave = "idle"
    /\ room_id' = None
    /\ leave' = "tun"
    /\ out' = Nothing
    /\ UNCHANGED <<tun, dp_room, overlapped, peers, tables, frame, stage, log, aged, heard, raced>>

LeaveTun ==
    /\ leave = "tun"
    /\ tun' = None
    /\ leave' = "clear"
    /\ out' = Nothing
    /\ UNCHANGED <<room_id, dp_room, overlapped, peers, tables, frame, stage, log, aged, heard, raced>>

clear_peers ==
    /\ leave = "clear"
    /\ peers' = {}
    /\ mac_table' = [m \in Macs |-> None]
    /\ idle' = {}
    /\ raced' = (stage = "found")
    /\ leave' = "dataplane"
    /\ out' = Nothing
    /\ UNCHANGED <<room_id, tun, dp_room, overlapped, order, set, frame, stage, log, aged, heard>>

LeaveDataplane ==
    /\ leave = "dataplane"
    /\ dp_room' = None
    /\ leave' = "idle"
    /\ out' = Nothing
    /\ UNCHANGED <<room_id, tun, overlapped, peers, tables, frame, stage, log, aged, heard, raced>>

-----------------------------------------------------------------------------
(* The TUN task *)

(* the peer behind a learned MAC; a group address has no entry *)
UnicastTarget(mac) == {prune_mac_table[mac]} \cap peers

(* select_l2_targets: that peer, else all *)
select_l2_targets(mac) == IF UnicastTarget(mac) = {} THEN peers ELSE UnicastTarget(mac)

(* The limiter of broadcasts may hold a flood back. *)
Forward(mac) ==
    /\ tun # None
    /\ \/ out' = [kind |-> "forward", mac |-> mac, nodes |-> select_l2_targets(mac)]
       \/ UnicastTarget(mac) = {} /\ out' = Nothing
    /\ mac_table' = prune_mac_table
    /\ idle' = {}
    /\ UNCHANGED <<rooms, peers, order, set, frame, stage, log, aged, heard, raced>>

-----------------------------------------------------------------------------
(* Time *)

AgeFlood ==
    /\ aged < Len(log)
    /\ aged' = aged + 1
    /\ out' = Nothing
    /\ UNCHANGED <<rooms, peers, tables, frame, stage, log, heard, raced>>

AgeMac(mac) ==
    /\ mac_table[mac] # None
    /\ idle' = idle \cup {mac}
    /\ out' = Nothing
    /\ UNCHANGED <<rooms, peers, order, set, mac_table, frame, stage, log, aged, heard, raced>>

Next ==
    \/ \E f \in Frames : Receive(f) \/ ReceiveRefused(f)
    \/ Lookup \/ Deliver
    \/ \E n \in Nodes : upsert_peer(n) \/ remove_peer(n)
    \/ \E r \in Rooms : ActivateRoom(r)
    \/ LeaveBegin \/ LeaveTun \/ clear_peers \/ LeaveDataplane
    \/ \E m \in Macs : Forward(m) \/ AgeMac(m)
    \/ AgeFlood

Spec == Init /\ [][Next]_vars

-----------------------------------------------------------------------------

(***************************************************************************)
(* A flood of one origin and packet id is let through again only when the  *)
(* first one is more than SEEN_FLOOD_CAPACITY accepted floods or longer    *)
(* than SEEN_FLOOD_WINDOW ago (SeenFloodPackets).                          *)
(***************************************************************************)
RecentFloodsOnce ==
    \A j \in DOMAIN log : \A i \in 1 .. j - 1 :
        log[i].key = log[j].key => i <= log[j].aged \/ j - i > SEEN_FLOOD_CAPACITY

(***************************************************************************)
(* A frame the TAP device sends to a learned MAC goes to the node that     *)
(* MAC was heard from last, and only while it is a peer; any other goes to *)
(* all peers (select_l2_targets), also when the MAC moved, the peer left   *)
(* or the table was cleared in the meantime.                               *)
(***************************************************************************)
ForwardsToLastHeard ==
    out.kind = "forward" =>
        \/ out.nodes = peers
        \/ out.nodes = {heard[out.mac]} /\ heard[out.mac] \in peers

(***************************************************************************)
(* Every entry of the MAC table is of a peer: remove_peer and clear_peers  *)
(* take a node's entries with it.  Only a leave that runs between the look *)
(* at the peers and learn_mac of one frame leaves an entry behind.         *)
(***************************************************************************)
EntriesHavePeers ==
    ~raced => \A m \in Learned(mac_table) : mac_table[m] \in peers

(***************************************************************************)
(* A frame is written to the device of the room its header was validated   *)
(* for, although a leave may run between the two (handle_incoming_frame    *)
(* reads the room first and the device last), unless a leave ever          *)
(* overlapped an activation.                                               *)
(***************************************************************************)
WrittenToOwnRoom ==
    out.kind = "write" /\ ~overlapped => out.room = out.device
============================================================================
