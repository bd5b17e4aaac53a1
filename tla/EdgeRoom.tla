------------------------------ MODULE EdgeRoom ------------------------------
(***************************************************************************)
(* How the edge daemon (crates/r2n-edge-lib) enters and leaves a room.     *)
(* The UDP task handles the supernode's frames one at a time and enters a  *)
(* room with activate_room; the command task handles IPC commands one at a *)
(* time and leaves with deactivate_room; the watchdog repeats the join.    *)
(* The tasks run on several threads and share the state below, each piece  *)
(* under a lock of its own, so both functions are modelled lock by lock.   *)
(*                                                                         *)
(* A grant is a room with the address and network the supernode assigned   *)
(* in it; address, network and the TUN device carrying them go by one name *)
(* (net).  The supernode answers or not, and its answers may be late.      *)
(***************************************************************************)
EXTENDS Integers, FiniteSets

CONSTANTS
    Grants,         \* what the supernode may assign, records [room, net]
    Peers,          \* other members
    OsErrors,       \* may TunDevice::name ("name") or remove_route ("route") fail?
    MaxInflight,    \* bound on the frames on their way to the edge
    NoRoom,
    NoNet

RoomSet == {g.room : g \in Grants}
NetSet == {g.net : g \in Grants}

ASSUME EdgeRoomAssumption ==
    /\ Grants \subseteq [room: RoomSet, net: NetSet]
    /\ NoRoom \notin RoomSet /\ NoNet \notin NetSet
    /\ MaxInflight \in Nat

VARIABLES
    room_id,
    tun,             \* the net the TUN device was created for
    routes,          \* routes in the operating system
    dp_room,         \* DataPlane::room_id
    runtime,         \* RuntimeState::route_cidr, virtual_ip and tun_name
    peers,           \* Edge::peers: absent, known, or known with a cipher
    dp_peers,        \* DataPlane::peers
    active_invite,   \* the room of active_invite_code
    pending,         \* is there a pending_create, a pending_join?
    inflight,        \* frames on their way to the edge
    udp,             \* the frame in the works and how far it is
    cmd,             \* the command in the works
    overlapped,      \* history: a frame was handled during the leave in the works
    disturbed,       \* history: a frame and a leave ever overlapped
    leftover         \* history: something of another grant ever stayed in the OS, see below

shared == <<room_id, tun, routes, dp_room, runtime>>
tables == <<peers, dp_peers>>
history == <<overlapped, disturbed, leftover>>
vars == <<room_id, tun, routes, dp_room, runtime, peers, dp_peers, active_invite, pending,
          inflight, udp, cmd, overlapped, disturbed, leftover>>

Requests == {"create", "join"}
Entries == {"absent", "known", "keyed"}
UdpStages == {"idle", "tun", "route", "room", "dataplane", "runtime", "reply", "peers"}
CmdStages == {"idle", "peers", "read", "routes", "room", "tun", "clear", "dataplane", "runtime",
              "exited"}

Grant(type, g) == [type |-> type, room |-> g.room, net |-> g.net, add |-> {}, drop |-> {}]
Notice(type, add, drop) ==
    [type |-> type, room |-> NoRoom, net |-> NoNet, add |-> add, drop |-> drop]

Frames ==
    [type: {"RoomCreated", "JoinAccept", "JoinReject", "Error",
            "PeerList", "PeerUpdate", "None"},
     room: RoomSet \cup {NoRoom}, net: NetSet \cup {NoNet},
     add: SUBSET Peers, drop: SUBSET Peers]

NoFrame == Notice("None", {}, {})

TypeOK ==
    /\ room_id \in RoomSet \cup {NoRoom}
    /\ tun \in NetSet \cup {NoNet}
    /\ routes \subseteq NetSet
    /\ dp_room \in RoomSet \cup {NoRoom}
    /\ runtime \in NetSet \cup {NoNet}
    /\ peers \in [Peers -> Entries]
    /\ dp_peers \in [Peers -> Entries]
    /\ active_invite \in RoomSet \cup {NoRoom}
    /\ pending \in [Requests -> BOOLEAN]
    /\ inflight \subseteq Frames
    /\ udp \in [pc: UdpStages, frame: Frames, created: BOOLEAN]
    /\ cmd \in [pc: CmdStages, stop: BOOLEAN, route: NetSet \cup {NoNet}]
    /\ overlapped \in BOOLEAN
    /\ disturbed \in BOOLEAN
    /\ leftover \in BOOLEAN

UdpIdle == [pc |-> "idle", frame |-> NoFrame, created |-> FALSE]
CmdIdle == [pc |-> "idle", stop |-> FALSE, route |-> NoNet]

Init ==
    /\ room_id = NoRoom
    /\ tun = NoNet
    /\ routes = {}
    /\ dp_room = NoRoom
    /\ runtime = NoNet
    /\ peers = [p \in Peers |-> "absent"]
    /\ dp_peers = [p \in Peers |-> "absent"]
    /\ active_invite = NoRoom
    /\ pending = [q \in Requests |-> FALSE]
    /\ inflight = {}
    /\ udp = UdpIdle
    /\ cmd = CmdIdle
    /\ overlapped = FALSE
    /\ disturbed = FALSE
    /\ leftover = FALSE

-----------------------------------------------------------------------------
(* The supernode, as the edge sees it *)

(* A request or its answer is lost, or one of the possible answers is on its way. *)
Answer(frames) ==
    \/ inflight' = inflight
    \/ /\ Cardinality(inflight) < MaxInflight
       /\ \E f \in frames : inflight' = inflight \cup {f}

CreateAnswers == {Grant("RoomCreated", g) : g \in Grants} \cup {Notice("Error", {}, {})}
JoinAnswers(r) ==
    {Grant("JoinAccept", g) : g \in {h \in Grants : h.room = r}} \cup {Notice("JoinReject", {}, {})}

(* Membership news comes at any time: a LeaveRoom that was lost, or an earlier run of the  *)
(* daemon, still brings some.                                                               *)
NewsFrames ==
    {Notice("PeerList", add, Peers \ add) : add \in SUBSET Peers}
        \cup {Notice("PeerUpdate", {p}, {}) : p \in Peers}
        \cup {Notice("PeerUpdate", {}, {p}) : p \in Peers}

-----------------------------------------------------------------------------
(* The UDP task *)

(* The task turns to a frame, maybe during a leave. *)
Handle ==
    /\ udp.pc = "idle"
    /\ cmd.pc # "exited"
    /\ overlapped' = (overlapped \/ cmd.pc # "idle")
    /\ disturbed' = (disturbed \/ cmd.pc # "idle")
    /\ UNCHANGED <<shared, cmd, leftover>>

Receive(f) ==
    /\ Handle
    /\ f \in inflight
    /\ inflight' = inflight \ {f}

Running(stage) ==
    /\ udp.pc = stage
    /\ cmd.pc # "exited"
    /\ UNCHANGED <<inflight, cmd, overlapped, disturbed>>

(* send_pending_reply takes the sender; a caller that timed out is not told. *)
Replied(qs) == [q \in Requests |-> pending[q] /\ q \notin qs]
AskedBy(f) == IF f.type = "RoomCreated" THEN "create" ELSE "join"

(* Mutant of ActivateBegin: the room in use is not looked at. *)
ActivateBeginAnyRoom(f) ==
    /\ Receive(f)
    /\ f.type \in {"RoomCreated", "JoinAccept"}
    /\ udp' = [pc |-> "tun", frame |-> f, created |-> FALSE]
    /\ UNCHANGED <<tables, active_invite, pending>>

(* activate_room: no room, or a refresh of this one *)
ActivateBegin(f) ==
    /\ Receive(f)
    /\ f.type \in {"RoomCreated", "JoinAccept"}
    /\ room_id \in {NoRoom, f.room}
    /\ udp' = [pc |-> "tun", frame |-> f, created |-> FALSE]
    /\ UNCHANGED <<tables, active_invite, pending>>

(* "already in room" another one *)
ActivateRefused(f) ==
    /\ Receive(f)
    /\ f.type \in {"RoomCreated", "JoinAccept"}
    /\ room_id \notin {NoRoom, f.room}
    /\ pending' = Replied({AskedBy(f)})
    /\ UNCHANGED <<tables, active_invite, udp>>

ActivateFails ==
    /\ udp' = UdpIdle
    /\ pending' = Replied({AskedBy(udp.frame)})
    /\ UNCHANGED <<tables, active_invite>>

(* A device that is there is used as it is, also one that was made for another network. *)
TunReady ==
    /\ Running("tun")
    /\ leftover' = (leftover \/ tun \notin {NoNet, udp.frame.net})
    /\ tun' = IF tun = NoNet THEN udp.frame.net ELSE tun
    /\ udp' = [udp EXCEPT !.pc = "route", !.created = (tun = NoNet)]
    /\ UNCHANGED <<room_id, routes, dp_room, runtime, tables, active_invite, pending>>

TunFails ==
    /\ Running("tun")
    /\ tun = NoNet
    /\ ActivateFails
    /\ UNCHANGED <<leftover, shared>>

(* device.name()?: the error leaves a device just created in place. *)
NameFails ==
    /\ Running("tun")
    /\ "name" \in OsErrors
    /\ leftover' = (leftover \/ tun = NoNet)
    /\ tun' = IF tun = NoNet THEN udp.frame.net ELSE tun
    /\ ActivateFails
    /\ UNCHANGED <<room_id, routes, dp_room, runtime>>

AddRoute ==
    /\ Running("route")
    /\ routes' = routes \cup {udp.frame.net}
    /\ udp' = [udp EXCEPT !.pc = "room"]
    /\ UNCHANGED <<leftover, room_id, tun, dp_room, runtime, tables, active_invite, pending>>

(* Mutant of AddRouteFails: the device that was created for the room stays. *)
AddRouteFailsKeepingTun ==
    /\ Running("route")
    /\ ActivateFails
    /\ UNCHANGED <<leftover, shared>>

AddRouteFails ==
    /\ Running("route")
    /\ tun' = IF udp.created THEN NoNet ELSE tun
    /\ ActivateFails
    /\ UNCHANGED <<leftover, room_id, routes, dp_room, runtime>>

SetRoom ==
    /\ Running("room")
    /\ room_id' = udp.frame.room
    /\ udp' = [udp EXCEPT !.pc = "dataplane"]
    /\ UNCHANGED <<leftover, tun, routes, dp_room, runtime, tables, active_invite, pending>>

SetDataplaneRoom ==
    /\ Running("dataplane")
    /\ dp_room' = udp.frame.room
    /\ udp' = [udp EXCEPT !.pc = "runtime"]
    /\ UNCHANGED <<leftover, room_id, tun, routes, runtime, tables, active_invite, pending>>

SetRuntime ==
    /\ Running("runtime")
    /\ runtime' = udp.frame.net
    /\ udp' = [udp EXCEPT !.pc = "reply"]
    /\ UNCHANGED <<leftover, room_id, tun, routes, dp_room, tables, active_invite, pending>>

ReplyOk ==
    /\ Running("reply")
    /\ active_invite' = IF udp.frame.type = "RoomCreated" THEN udp.frame.room ELSE active_invite
    /\ pending' = Replied({AskedBy(udp.frame)})
    /\ udp' = UdpIdle
    /\ UNCHANGED <<leftover, shared, tables>>

(* JoinReject and Error: the callers are answered; an Error may be meant for either request. *)
Answered(f) ==
    /\ Receive(f)
    /\ f.type \in {"JoinReject", "Error"}
    /\ pending' = Replied(IF f.type = "Error" THEN Requests ELSE {"join"})
    /\ active_invite' = IF f.type = "JoinReject" THEN NoRoom ELSE active_invite
    /\ UNCHANGED <<tables, udp>>

(* PeerList and PeerUpdate write Edge::peers first ... *)
UpdatePeers(f) ==
    /\ Handle
    /\ peers' = [p \in Peers |-> IF p \in f.add /\ peers[p] = "absent" THEN "known"
                                 ELSE IF p \in f.drop THEN "absent" ELSE peers[p]]
    /\ udp' = [pc |-> "peers", created |-> FALSE,
               frame |-> [f EXCEPT !.drop = IF f.type = "PeerList"
                                            THEN {p \in f.drop : peers[p] # "absent"} ELSE @]]
    /\ UNCHANGED <<dp_peers, active_invite, pending, inflight>>

(* Mutant of UpdateDataplane: an entry that is there is replaced. *)
UpdateDataplaneReplacing ==
    /\ Running("peers")
    /\ dp_peers' = [p \in Peers |-> IF p \in udp.frame.add THEN "known"
                                    ELSE IF p \in udp.frame.drop THEN "absent" ELSE dp_peers[p]]
    /\ udp' = UdpIdle
    /\ UNCHANGED <<leftover, shared, peers, active_invite, pending>>

(* ... and the dataplane's table next: upsert_peer keeps the cipher of an entry. *)
UpdateDataplane ==
    /\ Running("peers")
    /\ dp_peers' = [p \in Peers |->
                      IF p \in udp.frame.add /\ dp_peers[p] = "absent" THEN "known"
                      ELSE IF p \in udp.frame.drop THEN "absent" ELSE dp_peers[p]]
    /\ udp' = UdpIdle
    /\ UNCHANGED <<leftover, shared, peers, active_invite, pending>>

(* A handshake completes and both tables get the cipher, under the guard of the peer's entry. *)
InstallCipher(p) ==
    /\ Running("idle")
    /\ peers[p] = "known"
    /\ peers' = [peers EXCEPT ![p] = "keyed"]
    /\ dp_peers' = [dp_peers EXCEPT ![p] = IF @ = "absent" THEN "absent" ELSE "keyed"]
    /\ UNCHANGED <<leftover, shared, active_invite, pending, udp>>

-----------------------------------------------------------------------------
(* The command task *)

Command == cmd.pc = "idle"

(* A create or join while in a room, or while one is pending, is refused and changes nothing. *)
Accept(q) ==
    /\ Command
    /\ ~pending[q]
    /\ pending' = [pending EXCEPT ![q] = TRUE]
    /\ UNCHANGED <<shared, tables, udp, cmd, history>>

CreateRoom ==
    /\ room_id = NoRoom
    /\ Accept("create")
    /\ Answer(CreateAnswers)
    /\ UNCHANGED active_invite

JoinRoom(r) ==
    /\ room_id = NoRoom
    /\ Accept("join")
    /\ Answer(JoinAnswers(r))
    /\ active_invite' = r

(* send_control fails: the caller gets the error and the request is as if never made. *)
JoinRoomSendFails ==
    /\ Command
    /\ room_id = NoRoom /\ ~pending["join"]
    /\ active_invite' = NoRoom
    /\ UNCHANGED <<shared, tables, pending, inflight, udp, cmd, history>>

(***************************************************************************)
(* The supernode is told, then all local state is reset.  SwitchSupernode  *)
(* does what LeaveRoom does before it turns to the other supernode.        *)
(***************************************************************************)
Leave(stop) ==
    /\ Command
    /\ active_invite' = NoRoom
    /\ cmd' = [pc |-> "peers", stop |-> stop, route |-> NoNet]
    /\ overlapped' = (udp.pc # "idle")
    /\ disturbed' = (disturbed \/ udp.pc # "idle")
    /\ UNCHANGED <<shared, tables, pending, inflight, udp, leftover>>

LeaveRoom == Leave(FALSE)
Stop == Leave(TRUE)

Leaving(stage, then) ==
    /\ cmd.pc = stage
    /\ cmd' = [cmd EXCEPT !.pc = then]
    /\ UNCHANGED <<active_invite, pending, inflight, udp, overlapped, disturbed>>

ClearPeers ==
    /\ Leaving("peers", "read")
    /\ peers' = [p \in Peers |-> "absent"]
    /\ UNCHANGED <<leftover, shared, dp_peers>>

(* deactivate_room: the route to remove is the one runtime has now ... *)
ReadRuntime ==
    /\ cmd.pc = "read"
    /\ cmd' = [cmd EXCEPT !.pc = "routes", !.route = runtime]
    /\ UNCHANGED <<shared, tables, active_invite, pending, inflight, udp, history>>

(* ... and failing to remove it is only logged. *)
RemoveRoute ==
    /\ Leaving("routes", "room")
    /\ \/ routes' = routes \ {cmd.route} /\ UNCHANGED leftover
       \/ /\ "route" \in OsErrors /\ cmd.route # NoNet
          /\ UNCHANGED routes /\ leftover' = TRUE
    /\ UNCHANGED <<room_id, tun, dp_room, runtime, tables>>

ClearRoom ==
    /\ Leaving("room", "tun")
    /\ room_id' = NoRoom
    /\ UNCHANGED <<leftover, tun, routes, dp_room, runtime, tables>>

(* Mutant of ClearTun: the device is not dropped. *)
ClearTunKept ==
    /\ Leaving("tun", "clear")
    /\ UNCHANGED <<leftover, shared, tables>>

ClearTun ==
    /\ Leaving("tun", "clear")
    /\ tun' = NoNet
    /\ UNCHANGED <<leftover, room_id, routes, dp_room, runtime, tables>>

ClearDataplanePeers ==
    /\ Leaving("clear", "dataplane")
    /\ dp_peers' = [p \in Peers |-> "absent"]
    /\ UNCHANGED <<leftover, shared, peers>>

ClearDataplaneRoom ==
    /\ Leaving("dataplane", "runtime")
    /\ dp_room' = NoRoom
    /\ UNCHANGED <<leftover, room_id, tun, routes, runtime, tables>>

(* The caller is told "left room"; Stop ends the process. *)
ClearRuntime ==
    /\ cmd.pc = "runtime"
    /\ runtime' = NoNet
    /\ cmd' = IF cmd.stop THEN [cmd EXCEPT !.pc = "exited"] ELSE CmdIdle
    /\ UNCHANGED <<room_id, tun, routes, dp_room, tables, active_invite, pending, inflight, udp,
                   history>>

-----------------------------------------------------------------------------
(***************************************************************************)
(* The watchdog, with nothing from the supernode for 25 s.  It looked for  *)
(* an active room some awaits ago, so there may be none by now.            *)
(***************************************************************************)
WatchdogJoin ==
    /\ cmd.pc # "exited"
    /\ active_invite # NoRoom
    /\ Answer(JoinAnswers(active_invite))
    /\ UNCHANGED <<shared, tables, active_invite, pending, udp, cmd, history>>

UdpStep ==
    \/ \E f \in inflight :
          \/ ActivateBegin(f) \/ ActivateRefused(f) \/ Answered(f)
    \/ \E f \in NewsFrames : UpdatePeers(f)
    \/ TunReady \/ TunFails \/ NameFails \/ AddRoute \/ AddRouteFails
    \/ SetRoom \/ SetDataplaneRoom \/ SetRuntime \/ ReplyOk
    \/ UpdateDataplane
    \/ \E p \in Peers : InstallCipher(p)

CmdStep ==
    \/ CreateRoom \/ JoinRoomSendFails
    \/ \E r \in RoomSet : JoinRoom(r)
    \/ LeaveRoom \/ Stop
    \/ ClearPeers \/ ReadRuntime \/ RemoveRoute \/ ClearRoom \/ ClearTun
    \/ ClearDataplanePeers \/ ClearDataplaneRoom \/ ClearRuntime

Next ==
    \/ UdpStep
    \/ CmdStep
    \/ WatchdogJoin

Spec == Init /\ [][Next]_vars

-----------------------------------------------------------------------------

Quiet == udp.pc = "idle" /\ cmd.pc \in {"idle", "exited"}

(***************************************************************************)
(* The room check of activate_room is some locks away from the write to    *)
(* room_id.  Still the edge never goes from one room to another without    *)
(* leaving the first, whatever frames and commands meet on the way.        *)
(***************************************************************************)
RoomNeverReplaced ==
    [][room_id # NoRoom /\ room_id' # NoRoom => room_id' = room_id]_vars

(***************************************************************************)
(* Whatever earlier overlaps of the two tasks left behind, a leave during  *)
(* which no frame is handled clears room, device, tables and runtime, so   *)
(* the next join starts afresh (deactivate_room looks at no state before   *)
(* it resets it, the route apart).                                         *)
(***************************************************************************)
LeaveHeals ==
    [][cmd.pc = "runtime" /\ cmd'.pc # "runtime" /\ ~overlapped
       => /\ room_id' = NoRoom /\ dp_room' = NoRoom /\ tun' = NoNet /\ runtime' = NoNet
          /\ \A p \in Peers : peers'[p] = "absent" /\ dp_peers'[p] = "absent"]_vars

(* A room in use has the dataplane, a device, and a grant of its own that is shown and routed. *)
Served ==
    /\ dp_room = room_id
    /\ runtime = NoNet <=> room_id = NoRoom
    /\ room_id # NoRoom => /\ [room |-> room_id, net |-> runtime] \in Grants
                           /\ runtime \in routes
                           /\ tun # NoNet

(* The device and the routes are those of the network that is shown. *)
Exact == tun = runtime /\ routes = {tun} \ {NoNet}

Wired == Served /\ Exact

(***************************************************************************)
(* Handled one after the other, frames and commands keep room, dataplane,  *)
(* runtime and route in step, also when an activation fails half way, is   *)
(* refused, late, or repeated by the watchdog at a supernode that grants   *)
(* another network.  The device and the other routes are then exactly      *)
(* those of the network shown, unless something of another grant stayed in *)
(* the operating system: the device that activate_room found and kept, the *)
(* one left by a failing device.name(), a route that could not be removed. *)
(***************************************************************************)
WiredInTurn == Quiet /\ ~disturbed => Served /\ (leftover \/ Exact)

(***************************************************************************)
(* The edge's peer table and the dataplane's name the same peers, and the  *)
(* same ones have a cipher: Edge::peers decides whether a cipher is        *)
(* installed, DataPlane::peers is where it is used.  Again as long as a    *)
(* leave does not overlap a frame.                                         *)
(***************************************************************************)
TablesAgree == Quiet /\ ~disturbed => peers = dp_peers

-----------------------------------------------------------------------------
(* What a comment says of activate_room, for the run that shows otherwise *)

(***************************************************************************)
(* "Room activation wires route, interface, runtime, and dataplane state   *)
(* atomically" (crates/r2n-edge-lib/src/lib.rs): when no frame and no      *)
(* command is being handled the five agree on the room and its network.    *)
(***************************************************************************)
WiredAtomically == Quiet => Wired
============================================================================
