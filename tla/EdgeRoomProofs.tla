--------------------------- MODULE EdgeRoomProofs ----------------------------
(***************************************************************************)
(* Proofs about the daemon and its room: what a frame, a command and the   *)
(* watchdog do to the room of an edge (EdgeRoom), and who may be the       *)
(* daemon and own its files (Daemon).                                      *)
(***************************************************************************)
EXTENDS EdgeRoom, Daemon, TLAPS

-----------------------------------------------------------------------------
(***************************************************************************)
(* Proofs about EdgeRoom for any set of grants, peers and OS errors and    *)
(* any number of frames on their way.                                      *)
(*                                                                         *)
(* The inductive invariant says what an activation in the works knows of   *)
(* the room since it looked at it (RoomHeld), what a leave that no frame   *)
(* overlapped has reset so far (Healing), and, as long as frames and       *)
(* leaves take turns, how the peer tables (InTurn) and the five pieces of  *)
(* state that a room is wired with are at each stage of either: Serving is *)
(* what they always are, Wiring what they are as long as nothing of        *)
(* another grant stayed in the operating system.                           *)
(***************************************************************************)

Activating == {"tun", "route", "room"}

(* An activation that checked the room and has not written it finds it unchanged or cleared. *)
RoomHeld == udp.pc \in Activating => room_id \in {NoRoom, udp.frame.room}

(* Only frames that name a grant are activated. *)
GrantInHand ==
    /\ \A f \in inflight : f.type \in {"RoomCreated", "JoinAccept"}
                              => [room |-> f.room, net |-> f.net] \in Grants
    /\ udp.pc \notin {"idle", "peers"} => [room |-> udp.frame.room, net |-> udp.frame.net] \in Grants

AllAbsent == [p \in Peers |-> "absent"]

(* What a leave has reset once it has come to a stage *)
Healing ==
    ~overlapped =>
        /\ cmd.pc \notin {"idle", "exited"} => udp.pc = "idle"
        /\ cmd.pc \in {"read", "routes", "room", "tun", "clear", "dataplane", "runtime"}
              => peers = AllAbsent
        /\ cmd.pc \in {"tun", "clear", "dataplane", "runtime"} => room_id = NoRoom
        /\ cmd.pc \in {"clear", "dataplane", "runtime"} => tun = NoNet
        /\ cmd.pc \in {"dataplane", "runtime"} => dp_peers = AllAbsent
        /\ cmd.pc = "runtime" => dp_room = NoRoom

-----------------------------------------------------------------------------
(* The five pieces of state outside, and the ones of a grant *)

Outside == room_id = NoRoom /\ dp_room = NoRoom /\ tun = NoNet /\ runtime = NoNet /\ routes = {}

Inside ==
    /\ [room |-> room_id, net |-> runtime] \in Grants
    /\ dp_room = room_id /\ tun = runtime /\ routes = {tun}

Fresh == room_id = NoRoom /\ dp_room = NoRoom /\ runtime = NoNet
Again == room_id = udp.frame.room /\ dp_room = udp.frame.room /\ runtime = udp.frame.net

(* How far an activation is *)
Activation ==
    /\ udp.pc \in {"idle", "peers", "tun"} => Outside \/ Inside
    /\ udp.pc \notin {"idle", "peers", "tun"} => tun = udp.frame.net
    /\ udp.pc = "route" => IF udp.created THEN Fresh /\ routes = {} ELSE Again /\ routes = {tun}
    /\ udp.pc \in {"room", "dataplane", "runtime", "reply"} => routes = {tun}
    /\ udp.pc = "room" => Fresh \/ Again
    /\ udp.pc \in {"dataplane", "runtime", "reply"} => room_id = udp.frame.room
    /\ udp.pc \in {"runtime", "reply"} => dp_room = udp.frame.room
    /\ udp.pc = "reply" => runtime = udp.frame.net

(* How far a leave is *)
Withdrawal ==
    /\ cmd.pc \in {"peers", "read", "routes"} => Outside \/ Inside
    /\ cmd.pc = "routes" => cmd.route = runtime
    /\ cmd.pc = "room" => tun = runtime
    /\ cmd.pc \in {"room", "tun", "clear", "dataplane", "runtime", "exited"} => routes = {}
    /\ cmd.pc \in {"tun", "clear", "dataplane", "runtime", "exited"} => room_id = NoRoom
    /\ cmd.pc \in {"clear", "dataplane", "runtime", "exited"} => tun = NoNet
    /\ cmd.pc \in {"runtime", "exited"} => dp_room = NoRoom
    /\ cmd.pc = "exited" => runtime = NoNet

(* The tables: apart only between the two writes of a frame and of a leave *)
Applied(t, f) == [p \in Peers |-> IF p \in f.add /\ t[p] = "absent" THEN "known"
                                  ELSE IF p \in f.drop THEN "absent" ELSE t[p]]

Tables ==
    /\ cmd.pc \in {"idle", "peers", "dataplane", "runtime", "exited"} /\ udp.pc # "peers"
          => peers = dp_peers
    /\ cmd.pc \in {"read", "routes", "room", "tun", "clear", "dataplane", "runtime", "exited"}
          => peers = AllAbsent
    /\ udp.pc = "peers" => peers = Applied(dp_peers, udp.frame)

InTurn == ~disturbed => (udp.pc = "idle" \/ cmd.pc = "idle") /\ Tables

Wiring == ~disturbed /\ ~leftover => IF cmd.pc = "idle" THEN Activation ELSE Withdrawal

(* In a room, whatever network its device was made for *)
Joined ==
    /\ [room |-> room_id, net |-> runtime] \in Grants
    /\ dp_room = room_id /\ tun # NoNet /\ runtime \in routes

(* The same of any grants and errors: what an activation and a leave have done so far *)
Entering ==
    /\ udp.pc \in {"idle", "peers", "tun"} => Fresh \/ Joined
    /\ udp.pc \notin {"idle", "peers", "tun"} => tun # NoNet
    /\ udp.pc = "route" => Fresh \/ (~udp.created /\ Joined)
    /\ udp.pc \in {"room", "dataplane", "runtime", "reply"} => udp.frame.net \in routes
    /\ udp.pc \in {"dataplane", "runtime", "reply"} => room_id = udp.frame.room
    /\ udp.pc \in {"runtime", "reply"} => dp_room = udp.frame.room
    /\ udp.pc = "reply" => runtime = udp.frame.net

Exiting ==
    /\ cmd.pc \in {"tun", "clear", "dataplane", "runtime", "exited"} => room_id = NoRoom
    /\ cmd.pc \in {"runtime", "exited"} => dp_room = NoRoom
    /\ cmd.pc = "exited" => runtime = NoNet

Serving == ~disturbed => IF cmd.pc = "idle" THEN Entering ELSE Exiting

-----------------------------------------------------------------------------

(* An answer adds at most one frame, one of those it may be. *)
LEMMA AnswerAdds ==
  ASSUME NEW S, Answer(S)
  PROVE  inflight' \subseteq inflight \cup S
  BY Zenon DEF Answer

(* What the supernode may send are frames, and its grants name one of Grants. *)
LEMMA AnswersAreFrames ==
  /\ CreateAnswers \subseteq Frames
  /\ \A r \in RoomSet : JoinAnswers(r) \subseteq Frames
  /\ \A f \in CreateAnswers : f.type \in {"RoomCreated", "JoinAccept"}
                              => [room |-> f.room, net |-> f.net] \in Grants
  /\ \A r \in RoomSet : \A f \in JoinAnswers(r) :
        f.type \in {"RoomCreated", "JoinAccept"} => [room |-> f.room, net |-> f.net] \in Grants
<1>1. \A g \in Grants : /\ g = [room |-> g.room, net |-> g.net]
                        /\ g.room \in RoomSet /\ g.net \in NetSet
  BY EdgeRoomAssumption
<1>2. \A g \in Grants, t \in {"RoomCreated", "JoinAccept"} : Grant(t, g) \in Frames
  BY <1>1, Zenon DEF Grant, Frames
<1>3. \A t \in {"JoinReject", "Error"} : Notice(t, {}, {}) \in Frames
  BY Zenon DEF Notice, Frames
<1>4. \A g \in Grants, t \in {"RoomCreated", "JoinAccept"} :
         [room |-> Grant(t, g).room, net |-> Grant(t, g).net] \in Grants
  BY <1>1, Zenon DEF Grant
<1>5. \A t \in {"JoinReject", "Error"} : Notice(t, {}, {}).type = t
  BY Zenon DEF Notice
<1> QED BY <1>2, <1>3, <1>4, <1>5, Zenon DEF CreateAnswers, JoinAnswers

(* Membership news is a frame. *)
LEMMA NewsIsFrames == NewsFrames \subseteq Frames
  BY DEF NewsFrames, Notice, Frames

-----------------------------------------------------------------------------

LEMMA TypeStep ==
  ASSUME TypeOK, GrantInHand, [Next]_vars
  PROVE  TypeOK'
<1>1. ASSUME NEW f \in inflight, ActivateBegin(f) PROVE TypeOK'
  BY <1>1
  DEF ActivateBegin, Receive, Handle, TypeOK, Frames, UdpStages, CmdStages, Entries, Requests,
      shared, tables, history
<1>2. ASSUME NEW f \in inflight, ActivateRefused(f) PROVE TypeOK'
  BY <1>2
  DEF ActivateRefused, Receive, Handle, Replied, AskedBy, TypeOK, Frames, UdpStages, CmdStages,
      Entries, Requests, shared, tables, history
<1>3. ASSUME NEW f \in inflight, Answered(f) PROVE TypeOK'
  BY <1>3
  DEF Answered, Receive, Handle, Replied, TypeOK, Frames, UdpStages, CmdStages, Entries, Requests,
      shared, tables, history
<1>4. ASSUME NEW f \in NewsFrames, UpdatePeers(f) PROVE TypeOK'
  BY <1>4, NewsIsFrames
  DEF UpdatePeers, Handle, TypeOK, Frames, UdpStages, CmdStages, Entries, Requests,
      shared, tables, history
<1>5. CASE TunReady
  <2>1. udp.frame.net \in NetSet \cup {NoNet} /\ (tun = NoNet) \in BOOLEAN
    BY Zenon DEF TypeOK, Frames
  <2>2. udp' \in [pc: UdpStages, frame: Frames, created: BOOLEAN]
    BY <1>5, <2>1, Zenon DEF TunReady, TypeOK, UdpStages
  <2>3. tun' \in NetSet \cup {NoNet}
    BY <1>5, <2>1, Zenon DEF TunReady, TypeOK
  <2> QED BY <1>5, <2>2, <2>3, Zenon DEF TunReady, Running, TypeOK, tables
<1>6. CASE TunFails
  BY <1>6
  DEF TunFails, Running, ActivateFails, Replied, AskedBy, TypeOK, Frames, UdpStages,
      CmdStages, Entries, Requests, UdpIdle, NoFrame, Notice, shared, tables, history
<1>7. CASE NameFails
  BY <1>7
  DEF NameFails, Running, ActivateFails, Replied, AskedBy, TypeOK, Frames, UdpStages,
      CmdStages, Entries, Requests, UdpIdle, NoFrame, Notice, shared, tables, history
<1>8. CASE AddRoute
  <2>1. udp.frame.net \in NetSet
    BY <1>8 DEF AddRoute, Running, GrantInHand, NetSet
  <2>2. udp' \in [pc: UdpStages, frame: Frames, created: BOOLEAN]
    BY <1>8, Zenon DEF AddRoute, TypeOK, UdpStages
  <2> QED BY <1>8, <2>1, <2>2 DEF AddRoute, Running, TypeOK, tables
<1>9. CASE AddRouteFails
  BY <1>9
  DEF AddRouteFails, Running, ActivateFails, Replied, AskedBy, TypeOK, Frames, UdpStages,
      CmdStages, Entries, Requests, UdpIdle, NoFrame, Notice, shared, tables, history
<1>10. CASE SetRoom
  BY <1>10
  DEF SetRoom, Running, TypeOK, Frames, UdpStages, CmdStages, Entries, Requests, shared,
      tables, history
<1>11. CASE SetDataplaneRoom
  BY <1>11
  DEF SetDataplaneRoom, Running, TypeOK, Frames, UdpStages, CmdStages, Entries, Requests,
      shared, tables, history
<1>12. CASE SetRuntime
  BY <1>12
  DEF SetRuntime, Running, TypeOK, Frames, UdpStages, CmdStages, Entries, Requests, shared,
      tables, history
<1>13. CASE ReplyOk
  BY <1>13
  DEF ReplyOk, Running, Replied, AskedBy, TypeOK, Frames, UdpStages, CmdStages, Entries,
      Requests, UdpIdle, NoFrame, Notice, shared, tables, history
<1>14. CASE UpdateDataplane
  BY <1>14
  DEF UpdateDataplane, Running, TypeOK, Frames, UdpStages, CmdStages, Entries, Requests,
      UdpIdle, NoFrame, Notice, shared, tables, history
<1>15. ASSUME NEW p \in Peers, InstallCipher(p) PROVE TypeOK'
  BY <1>15
  DEF InstallCipher, Running, TypeOK, Frames, UdpStages, CmdStages, Entries, Requests,
      shared, tables, history
<1>16. CASE CreateRoom
  <2>1. inflight' \subseteq Frames
    BY <1>16, AnswerAdds, AnswersAreFrames, Zenon DEF CreateRoom, TypeOK
  <2> QED BY <1>16, <2>1 DEF CreateRoom, Accept, TypeOK, Requests, shared, tables, history
<1>17. CASE JoinRoomSendFails
  BY <1>17
  DEF JoinRoomSendFails, Command, TypeOK, Frames, UdpStages, CmdStages, Entries, Requests,
      shared, tables, history
<1>18. ASSUME NEW r \in RoomSet, JoinRoom(r) PROVE TypeOK'
  <2>1. inflight' \subseteq Frames
    BY <1>18, AnswerAdds, AnswersAreFrames, Zenon DEF JoinRoom, TypeOK
  <2> QED BY <1>18, <2>1, Zenon DEF JoinRoom, Accept, TypeOK, Requests, shared, tables, history
<1>19. CASE LeaveRoom
  BY <1>19
  DEF LeaveRoom, Leave, Command, TypeOK, Frames, UdpStages, CmdStages, Entries, Requests,
      shared, tables, history
<1>20. CASE Stop
  BY <1>20
  DEF Stop, Leave, Command, TypeOK, Frames, UdpStages, CmdStages, Entries, Requests,
      shared, tables, history
<1>21. CASE ClearPeers
  BY <1>21
  DEF ClearPeers, Leaving, TypeOK, Frames, UdpStages, CmdStages, Entries, Requests, shared,
      tables, history
<1>22. CASE ReadRuntime
  <2>1. cmd' \in [pc: CmdStages, stop: BOOLEAN, route: NetSet \cup {NoNet}]
    BY <1>22, Zenon DEF ReadRuntime, TypeOK, CmdStages
  <2> QED BY <1>22, <2>1, Zenon DEF ReadRuntime, TypeOK, shared, tables, history
<1>23. CASE RemoveRoute
  <2>1. cmd' \in [pc: CmdStages, stop: BOOLEAN, route: NetSet \cup {NoNet}]
    BY <1>23, Zenon DEF RemoveRoute, Leaving, TypeOK, CmdStages
  <2>2. routes' \subseteq NetSet /\ leftover' \in BOOLEAN
    BY <1>23, Zenon DEF RemoveRoute, TypeOK
  <2> QED BY <1>23, <2>1, <2>2, Zenon DEF RemoveRoute, Leaving, TypeOK, tables
<1>24. CASE ClearRoom
  BY <1>24
  DEF ClearRoom, Leaving, TypeOK, Frames, UdpStages, CmdStages, Entries, Requests, shared,
      tables, history
<1>25. CASE ClearTun
  BY <1>25
  DEF ClearTun, Leaving, TypeOK, Frames, UdpStages, CmdStages, Entries, Requests, shared,
      tables, history
<1>26. CASE ClearDataplanePeers
  BY <1>26
  DEF ClearDataplanePeers, Leaving, TypeOK, Frames, UdpStages, CmdStages, Entries,
      Requests, shared, tables, history
<1>27. CASE ClearDataplaneRoom
  BY <1>27
  DEF ClearDataplaneRoom, Leaving, TypeOK, Frames, UdpStages, CmdStages, Entries, Requests,
      shared, tables, history
<1>28. CASE ClearRuntime
  BY <1>28
  DEF ClearRuntime, TypeOK, Frames, UdpStages, CmdStages, Entries, Requests, CmdIdle,
      shared, tables, history
<1>29. CASE WatchdogJoin
  <2>1. inflight' \subseteq Frames
    BY <1>29, AnswerAdds, AnswersAreFrames, Zenon DEF WatchdogJoin, TypeOK
  <2> QED BY <1>29, <2>1 DEF WatchdogJoin, TypeOK, shared, tables, history
<1>30. CASE UNCHANGED vars
  BY <1>30
  DEF vars, TypeOK, Frames, UdpStages, CmdStages, Entries, Requests
<1> QED BY <1>1, <1>2, <1>3, <1>4, <1>5, <1>6, <1>7, <1>8, <1>9, <1>10, <1>11, <1>12,
           <1>13, <1>14, <1>15, <1>16, <1>17, <1>18, <1>19, <1>20, <1>21, <1>22, <1>23,
           <1>24, <1>25, <1>26, <1>27, <1>28, <1>29, <1>30, Zenon
       DEF Next, UdpStep, CmdStep

(* The room an activation looked at is not another one before it writes its own. *)
LEMMA RoomHeldStep ==
  ASSUME TypeOK, RoomHeld, [Next]_vars
  PROVE  RoomHeld'
<1>1. ASSUME NEW f \in inflight, ActivateBegin(f) PROVE RoomHeld'
  BY <1>1, Zenon
  DEF ActivateBegin, Receive, Handle, TypeOK, RoomHeld, Activating, shared, tables, history
<1>2. ASSUME NEW f \in inflight, ActivateRefused(f) PROVE RoomHeld'
  BY <1>2, Zenon
  DEF ActivateRefused, Receive, Handle, Replied, AskedBy, TypeOK, RoomHeld, Activating, shared,
      tables, history
<1>3. ASSUME NEW f \in inflight, Answered(f) PROVE RoomHeld'
  BY <1>3, Zenon
  DEF Answered, Receive, Handle, Replied, TypeOK, RoomHeld, Activating, shared, tables, history
<1>4. ASSUME NEW f \in NewsFrames, UpdatePeers(f) PROVE RoomHeld'
  BY <1>4, Zenon
  DEF UpdatePeers, Handle, TypeOK, RoomHeld, Activating, shared, tables, history
<1>5. CASE TunReady
  BY <1>5, Zenon
  DEF TunReady, Running, TypeOK, RoomHeld, Activating, shared, tables, history
<1>6. CASE TunFails
  BY <1>6, Zenon
  DEF TunFails, Running, ActivateFails, Replied, AskedBy, TypeOK, RoomHeld, Activating,
      UdpIdle, shared, tables, history
<1>7. CASE NameFails
  BY <1>7, Zenon
  DEF NameFails, Running, ActivateFails, Replied, AskedBy, TypeOK, RoomHeld, Activating,
      UdpIdle, shared, tables, history
<1>8. CASE AddRoute
  BY <1>8, Zenon
  DEF AddRoute, Running, TypeOK, RoomHeld, Activating, shared, tables, history
<1>9. CASE AddRouteFails
  BY <1>9, Zenon
  DEF AddRouteFails, Running, ActivateFails, Replied, AskedBy, TypeOK, RoomHeld,
      Activating, UdpIdle, shared, tables, history
<1>10. CASE SetRoom
  BY <1>10, Zenon
  DEF SetRoom, Running, TypeOK, RoomHeld, Activating, shared, tables, history
<1>11. CASE SetDataplaneRoom
  BY <1>11, Zenon
  DEF SetDataplaneRoom, Running, TypeOK, RoomHeld, Activating, shared, tables, history
<1>12. CASE SetRuntime
  BY <1>12, Zenon
  DEF SetRuntime, Running, TypeOK, RoomHeld, Activating, shared, tables, history
<1>13. CASE ReplyOk
  BY <1>13, Zenon
  DEF ReplyOk, Running, Replied, AskedBy, TypeOK, RoomHeld, Activating, UdpIdle, shared,
      tables, history
<1>14. CASE UpdateDataplane
  BY <1>14, Zenon
  DEF UpdateDataplane, Running, TypeOK, RoomHeld, Activating, UdpIdle, shared, tables,
      history
<1>15. ASSUME NEW p \in Peers, InstallCipher(p) PROVE RoomHeld'
  BY <1>15, Zenon
  DEF InstallCipher, Running, TypeOK, RoomHeld, Activating, shared, tables, history
<1>16. CASE CreateRoom
  BY <1>16, Zenon
  DEF CreateRoom, Accept, Command, TypeOK, RoomHeld, Activating, shared, tables, history
<1>17. CASE JoinRoomSendFails
  BY <1>17, Zenon
  DEF JoinRoomSendFails, Command, TypeOK, RoomHeld, Activating, shared, tables, history
<1>18. ASSUME NEW r \in RoomSet, JoinRoom(r) PROVE RoomHeld'
  BY <1>18, Zenon
  DEF JoinRoom, Accept, Command, TypeOK, RoomHeld, Activating, shared, tables, history
<1>19. CASE LeaveRoom
  BY <1>19, Zenon
  DEF LeaveRoom, Leave, Command, TypeOK, RoomHeld, Activating, shared, tables, history
<1>20. CASE Stop
  BY <1>20, Zenon
  DEF Stop, Leave, Command, TypeOK, RoomHeld, Activating, shared, tables, history
<1>21. CASE ClearPeers
  BY <1>21, Zenon
  DEF ClearPeers, Leaving, TypeOK, RoomHeld, Activating, shared, tables, history
<1>22. CASE ReadRuntime
  BY <1>22, Zenon
  DEF ReadRuntime, TypeOK, RoomHeld, Activating, shared, tables, history
<1>23. CASE RemoveRoute
  BY <1>23, Zenon
  DEF RemoveRoute, Leaving, TypeOK, RoomHeld, Activating, shared, tables, history
<1>24. CASE ClearRoom
  BY <1>24, Zenon
  DEF ClearRoom, Leaving, TypeOK, RoomHeld, Activating, shared, tables, history
<1>25. CASE ClearTun
  BY <1>25, Zenon
  DEF ClearTun, Leaving, TypeOK, RoomHeld, Activating, shared, tables, history
<1>26. CASE ClearDataplanePeers
  BY <1>26, Zenon
  DEF ClearDataplanePeers, Leaving, TypeOK, RoomHeld, Activating, shared, tables, history
<1>27. CASE ClearDataplaneRoom
  BY <1>27, Zenon
  DEF ClearDataplaneRoom, Leaving, TypeOK, RoomHeld, Activating, shared, tables, history
<1>28. CASE ClearRuntime
  BY <1>28, Zenon
  DEF ClearRuntime, TypeOK, RoomHeld, Activating, CmdIdle, shared, tables, history
<1>29. CASE WatchdogJoin
  BY <1>29, Zenon
  DEF WatchdogJoin, TypeOK, RoomHeld, Activating, shared, tables, history
<1>30. CASE UNCHANGED vars
  BY <1>30, Zenon
  DEF vars, TypeOK, RoomHeld, Activating
<1> QED BY <1>1, <1>2, <1>3, <1>4, <1>5, <1>6, <1>7, <1>8, <1>9, <1>10, <1>11, <1>12,
           <1>13, <1>14, <1>15, <1>16, <1>17, <1>18, <1>19, <1>20, <1>21, <1>22, <1>23,
           <1>24, <1>25, <1>26, <1>27, <1>28, <1>29, <1>30, Zenon
       DEF Next, UdpStep, CmdStep

LEMMA GrantInHandStep ==
  ASSUME TypeOK, GrantInHand, [Next]_vars
  PROVE  GrantInHand'
<1>1. ASSUME NEW f \in inflight, ActivateBegin(f) PROVE GrantInHand'
  BY <1>1, Zenon
  DEF ActivateBegin, Receive, Handle, TypeOK, GrantInHand, shared, tables, history
<1>2. ASSUME NEW f \in inflight, ActivateRefused(f) PROVE GrantInHand'
  BY <1>2, Zenon
  DEF ActivateRefused, Receive, Handle, Replied, AskedBy, TypeOK, GrantInHand, shared, tables,
      history
<1>3. ASSUME NEW f \in inflight, Answered(f) PROVE GrantInHand'
  BY <1>3, Zenon
  DEF Answered, Receive, Handle, Replied, TypeOK, GrantInHand, shared, tables, history
<1>4. ASSUME NEW f \in NewsFrames, UpdatePeers(f) PROVE GrantInHand'
  BY <1>4, Zenon
  DEF UpdatePeers, Handle, TypeOK, GrantInHand, shared, tables, history
<1>5. CASE TunReady
  BY <1>5, Zenon
  DEF TunReady, Running, TypeOK, GrantInHand, shared, tables, history
<1>6. CASE TunFails
  BY <1>6, Zenon
  DEF TunFails, Running, ActivateFails, Replied, AskedBy, TypeOK, GrantInHand, UdpIdle,
      shared, tables, history
<1>7. CASE NameFails
  BY <1>7, Zenon
  DEF NameFails, Running, ActivateFails, Replied, AskedBy, TypeOK, GrantInHand, UdpIdle,
      shared, tables, history
<1>8. CASE AddRoute
  BY <1>8, Zenon
  DEF AddRoute, Running, TypeOK, GrantInHand, shared, tables, history
<1>9. CASE AddRouteFails
  BY <1>9, Zenon
  DEF AddRouteFails, Running, ActivateFails, Replied, AskedBy, TypeOK, GrantInHand,
      UdpIdle, shared, tables, history
<1>10. CASE SetRoom
  BY <1>10, Zenon
  DEF SetRoom, Running, TypeOK, GrantInHand, shared, tables, history
<1>11. CASE SetDataplaneRoom
  BY <1>11, Zenon
  DEF SetDataplaneRoom, Running, TypeOK, GrantInHand, shared, tables, history
<1>12. CASE SetRuntime
  BY <1>12, Zenon
  DEF SetRuntime, Running, TypeOK, GrantInHand, shared, tables, history
<1>13. CASE ReplyOk
  BY <1>13, Zenon
  DEF ReplyOk, Running, Replied, AskedBy, TypeOK, GrantInHand, UdpIdle, shared, tables,
      history
<1>14. CASE UpdateDataplane
  BY <1>14, Zenon
  DEF UpdateDataplane, Running, TypeOK, GrantInHand, UdpIdle, shared, tables, history
<1>15. ASSUME NEW p \in Peers, InstallCipher(p) PROVE GrantInHand'
  BY <1>15, Zenon
  DEF InstallCipher, Running, TypeOK, GrantInHand, shared, tables, history
<1>16. CASE CreateRoom
  <2>1. \A f \in inflight' : f.type \in {"RoomCreated", "JoinAccept"}
                               => [room |-> f.room, net |-> f.net] \in Grants
    BY <1>16, AnswerAdds, AnswersAreFrames, Zenon DEF CreateRoom, GrantInHand
  <2> QED BY <1>16, <2>1, Zenon DEF CreateRoom, Accept, GrantInHand, history
<1>17. CASE JoinRoomSendFails
  BY <1>17, Zenon
  DEF JoinRoomSendFails, Command, TypeOK, GrantInHand, shared, tables, history
<1>18. ASSUME NEW r \in RoomSet, JoinRoom(r) PROVE GrantInHand'
  <2>1. \A f \in inflight' : f.type \in {"RoomCreated", "JoinAccept"}
                               => [room |-> f.room, net |-> f.net] \in Grants
    BY <1>18, AnswerAdds, AnswersAreFrames, Zenon DEF JoinRoom, GrantInHand
  <2> QED BY <1>18, <2>1, Zenon DEF JoinRoom, Accept, GrantInHand, history
<1>19. CASE LeaveRoom
  BY <1>19, Zenon
  DEF LeaveRoom, Leave, Command, TypeOK, GrantInHand, shared, tables, history
<1>20. CASE Stop
  BY <1>20, Zenon
  DEF Stop, Leave, Command, TypeOK, GrantInHand, shared, tables, history
<1>21. CASE ClearPeers
  BY <1>21, Zenon
  DEF ClearPeers, Leaving, TypeOK, GrantInHand, shared, tables, history
<1>22. CASE ReadRuntime
  BY <1>22, Zenon
  DEF ReadRuntime, TypeOK, GrantInHand, shared, tables, history
<1>23. CASE RemoveRoute
  BY <1>23, Zenon
  DEF RemoveRoute, Leaving, TypeOK, GrantInHand, shared, tables, history
<1>24. CASE ClearRoom
  BY <1>24, Zenon
  DEF ClearRoom, Leaving, TypeOK, GrantInHand, shared, tables, history
<1>25. CASE ClearTun
  BY <1>25, Zenon
  DEF ClearTun, Leaving, TypeOK, GrantInHand, shared, tables, history
<1>26. CASE ClearDataplanePeers
  BY <1>26, Zenon
  DEF ClearDataplanePeers, Leaving, TypeOK, GrantInHand, shared, tables, history
<1>27. CASE ClearDataplaneRoom
  BY <1>27, Zenon
  DEF ClearDataplaneRoom, Leaving, TypeOK, GrantInHand, shared, tables, history
<1>28. CASE ClearRuntime
  BY <1>28, Zenon
  DEF ClearRuntime, TypeOK, GrantInHand, CmdIdle, shared, tables, history
<1>29. CASE WatchdogJoin
  <2>1. \A f \in inflight' : f.type \in {"RoomCreated", "JoinAccept"}
                               => [room |-> f.room, net |-> f.net] \in Grants
    BY <1>29, AnswerAdds, AnswersAreFrames, Zenon DEF WatchdogJoin, GrantInHand, TypeOK
  <2> QED BY <1>29, <2>1, Zenon DEF WatchdogJoin, GrantInHand, history
<1>30. CASE UNCHANGED vars
  BY <1>30, Zenon
  DEF vars, TypeOK, GrantInHand
<1> QED BY <1>1, <1>2, <1>3, <1>4, <1>5, <1>6, <1>7, <1>8, <1>9, <1>10, <1>11, <1>12,
           <1>13, <1>14, <1>15, <1>16, <1>17, <1>18, <1>19, <1>20, <1>21, <1>22, <1>23,
           <1>24, <1>25, <1>26, <1>27, <1>28, <1>29, <1>30, Zenon
       DEF Next, UdpStep, CmdStep

(* Each stage of a leave resets one piece, and only a frame would set it again. *)
LEMMA HealingStep ==
  ASSUME TypeOK, Healing, [Next]_vars
  PROVE  Healing'
<1>1. ASSUME NEW f \in inflight, ActivateBegin(f) PROVE Healing'
  BY <1>1, Zenon
  DEF ActivateBegin, Receive, Handle, TypeOK, Healing, AllAbsent, shared, tables, history
<1>2. ASSUME NEW f \in inflight, ActivateRefused(f) PROVE Healing'
  BY <1>2, Zenon
  DEF ActivateRefused, Receive, Handle, Replied, AskedBy, TypeOK, Healing, AllAbsent, shared,
      tables, history
<1>3. ASSUME NEW f \in inflight, Answered(f) PROVE Healing'
  BY <1>3, Zenon
  DEF Answered, Receive, Handle, Replied, TypeOK, Healing, AllAbsent, shared, tables, history
<1>4. ASSUME NEW f \in NewsFrames, UpdatePeers(f) PROVE Healing'
  BY <1>4, Zenon
  DEF UpdatePeers, Handle, TypeOK, Healing, AllAbsent, shared, tables, history
<1>5. CASE TunReady
  BY <1>5, Zenon
  DEF TunReady, Running, TypeOK, Healing, AllAbsent, shared, tables, history
<1>6. CASE TunFails
  BY <1>6, Zenon
  DEF TunFails, Running, ActivateFails, Replied, AskedBy, TypeOK, Healing, AllAbsent,
      UdpIdle, shared, tables, history
<1>7. CASE NameFails
  BY <1>7, Zenon
  DEF NameFails, Running, ActivateFails, Replied, AskedBy, TypeOK, Healing, AllAbsent,
      UdpIdle, shared, tables, history
<1>8. CASE AddRoute
  BY <1>8, Zenon
  DEF AddRoute, Running, TypeOK, Healing, AllAbsent, shared, tables, history
<1>9. CASE AddRouteFails
  BY <1>9, Zenon
  DEF AddRouteFails, Running, ActivateFails, Replied, AskedBy, TypeOK, Healing, AllAbsent,
      UdpIdle, shared, tables, history
<1>10. CASE SetRoom
  BY <1>10, Zenon
  DEF SetRoom, Running, TypeOK, Healing, AllAbsent, shared, tables, history
<1>11. CASE SetDataplaneRoom
  BY <1>11, Zenon
  DEF SetDataplaneRoom, Running, TypeOK, Healing, AllAbsent, shared, tables, history
<1>12. CASE SetRuntime
  BY <1>12, Zenon
  DEF SetRuntime, Running, TypeOK, Healing, AllAbsent, shared, tables, history
<1>13. CASE ReplyOk
  BY <1>13, Zenon
  DEF ReplyOk, Running, Replied, AskedBy, TypeOK, Healing, AllAbsent, UdpIdle, shared,
      tables, history
<1>14. CASE UpdateDataplane
  BY <1>14, Zenon
  DEF UpdateDataplane, Running, TypeOK, Healing, AllAbsent, UdpIdle, shared, tables, history
<1>15. ASSUME NEW p \in Peers, InstallCipher(p) PROVE Healing'
  BY <1>15, Zenon
  DEF InstallCipher, Running, TypeOK, Healing, AllAbsent, shared, tables, history
<1>16. CASE CreateRoom
  BY <1>16, Zenon
  DEF CreateRoom, Accept, Command, TypeOK, Healing, AllAbsent, shared, tables, history
<1>17. CASE JoinRoomSendFails
  BY <1>17, Zenon
  DEF JoinRoomSendFails, Command, TypeOK, Healing, AllAbsent, shared, tables, history
<1>18. ASSUME NEW r \in RoomSet, JoinRoom(r) PROVE Healing'
  BY <1>18, Zenon
  DEF JoinRoom, Accept, Command, TypeOK, Healing, AllAbsent, shared, tables, history
<1>19. CASE LeaveRoom
  BY <1>19, Zenon
  DEF LeaveRoom, Leave, Command, TypeOK, Healing, AllAbsent, shared, tables, history
<1>20. CASE Stop
  BY <1>20, Zenon
  DEF Stop, Leave, Command, TypeOK, Healing, AllAbsent, shared, tables, history
<1>21. CASE ClearPeers
  BY <1>21, Zenon
  DEF ClearPeers, Leaving, TypeOK, Healing, AllAbsent, shared, tables, history
<1>22. CASE ReadRuntime
  BY <1>22, Zenon
  DEF ReadRuntime, TypeOK, Healing, AllAbsent, shared, tables, history
<1>23. CASE RemoveRoute
  BY <1>23, Zenon
  DEF RemoveRoute, Leaving, TypeOK, Healing, AllAbsent, shared, tables, history
<1>24. CASE ClearRoom
  BY <1>24, Zenon
  DEF ClearRoom, Leaving, TypeOK, Healing, AllAbsent, shared, tables, history
<1>25. CASE ClearTun
  BY <1>25, Zenon
  DEF ClearTun, Leaving, TypeOK, Healing, AllAbsent, shared, tables, history
<1>26. CASE ClearDataplanePeers
  BY <1>26, Zenon
  DEF ClearDataplanePeers, Leaving, TypeOK, Healing, AllAbsent, shared, tables, history
<1>27. CASE ClearDataplaneRoom
  BY <1>27, Zenon
  DEF ClearDataplaneRoom, Leaving, TypeOK, Healing, AllAbsent, shared, tables, history
<1>28. CASE ClearRuntime
  BY <1>28, Zenon
  DEF ClearRuntime, TypeOK, Healing, AllAbsent, CmdIdle, shared, tables, history
<1>29. CASE WatchdogJoin
  BY <1>29, Zenon
  DEF WatchdogJoin, TypeOK, Healing, AllAbsent, shared, tables, history
<1>30. CASE UNCHANGED vars
  BY <1>30, Zenon
  DEF vars, TypeOK, Healing, AllAbsent
<1> QED BY <1>1, <1>2, <1>3, <1>4, <1>5, <1>6, <1>7, <1>8, <1>9, <1>10, <1>11, <1>12,
           <1>13, <1>14, <1>15, <1>16, <1>17, <1>18, <1>19, <1>20, <1>21, <1>22, <1>23,
           <1>24, <1>25, <1>26, <1>27, <1>28, <1>29, <1>30, Zenon
       DEF Next, UdpStep, CmdStep

(* Handled in turn, the two writes of a frame or of a leave make the tables equal again. *)
LEMMA InTurnStep ==
  ASSUME TypeOK, InTurn, [Next]_vars
  PROVE  InTurn'
<1>1. ASSUME NEW f \in inflight, ActivateBegin(f) PROVE InTurn'
  BY <1>1, Zenon
  DEF ActivateBegin, Receive, Handle, TypeOK, InTurn, Tables, AllAbsent, Applied, shared, tables,
      history
<1>2. ASSUME NEW f \in inflight, ActivateRefused(f) PROVE InTurn'
  BY <1>2, Zenon
  DEF ActivateRefused, Receive, Handle, Replied, AskedBy, TypeOK, InTurn, Tables, AllAbsent,
      Applied, shared, tables, history
<1>3. ASSUME NEW f \in inflight, Answered(f) PROVE InTurn'
  BY <1>3, Zenon
  DEF Answered, Receive, Handle, Replied, TypeOK, InTurn, Tables, AllAbsent, Applied, shared,
      tables, history
<1>4. ASSUME NEW f \in NewsFrames, UpdatePeers(f) PROVE InTurn'
  <2> SUFFICES ASSUME ~disturbed' PROVE InTurn'
    BY Zenon DEF InTurn
  <2>1. ~disturbed /\ cmd.pc = "idle" /\ udp.pc = "idle" /\ udp'.pc = "peers" /\ cmd' = cmd
    BY <1>4, Zenon DEF UpdatePeers, Handle
  <2>2. peers = dp_peers
    BY <2>1, Zenon DEF InTurn, Tables
  <2>3. udp'.frame.add = f.add
        /\ \A p \in Peers : p \in udp'.frame.drop
                            <=> p \in f.drop /\ (f.type = "PeerList" => peers[p] # "absent")
    BY <1>4, NewsIsFrames, Zenon DEF UpdatePeers, Frames
  <2>4. peers' = Applied(dp_peers', udp'.frame)
    BY <1>4, <2>2, <2>3, Zenon DEF UpdatePeers, Applied, TypeOK
  <2> QED BY <2>1, <2>4, Zenon DEF InTurn, Tables
<1>5. CASE TunReady
  BY <1>5, Zenon
  DEF TunReady, Running, TypeOK, InTurn, Tables, AllAbsent, Applied, shared, tables, history
<1>6. CASE TunFails
  BY <1>6, Zenon
  DEF TunFails, Running, ActivateFails, Replied, AskedBy, TypeOK, InTurn, Tables,
      AllAbsent, Applied, UdpIdle, shared, tables, history
<1>7. CASE NameFails
  BY <1>7, Zenon
  DEF NameFails, Running, ActivateFails, Replied, AskedBy, TypeOK, InTurn, Tables,
      AllAbsent, Applied, UdpIdle, shared, tables, history
<1>8. CASE AddRoute
  BY <1>8, Zenon
  DEF AddRoute, Running, TypeOK, InTurn, Tables, AllAbsent, Applied, shared, tables, history
<1>9. CASE AddRouteFails
  BY <1>9, Zenon
  DEF AddRouteFails, Running, ActivateFails, Replied, AskedBy, TypeOK, InTurn, Tables,
      AllAbsent, Applied, UdpIdle, shared, tables, history
<1>10. CASE SetRoom
  BY <1>10, Zenon
  DEF SetRoom, Running, TypeOK, InTurn, Tables, AllAbsent, Applied, shared, tables, history
<1>11. CASE SetDataplaneRoom
  BY <1>11, Zenon
  DEF SetDataplaneRoom, Running, TypeOK, InTurn, Tables, AllAbsent, Applied, shared,
      tables, history
<1>12. CASE SetRuntime
  BY <1>12, Zenon
  DEF SetRuntime, Running, TypeOK, InTurn, Tables, AllAbsent, Applied, shared, tables,
      history
<1>13. CASE ReplyOk
  BY <1>13, Zenon
  DEF ReplyOk, Running, Replied, AskedBy, TypeOK, InTurn, Tables, AllAbsent, Applied,
      UdpIdle, shared, tables, history
<1>14. CASE UpdateDataplane
  BY <1>14, Zenon
  DEF UpdateDataplane, Running, TypeOK, InTurn, Tables, AllAbsent, Applied, UdpIdle,
      shared, tables, history
<1>15. ASSUME NEW p \in Peers, InstallCipher(p) PROVE InTurn'
  BY <1>15, ZenonT(30)
  DEF InstallCipher, Running, TypeOK, InTurn, Tables, AllAbsent, Applied, shared, tables,
      history
<1>16. CASE CreateRoom
  BY <1>16, Zenon
  DEF CreateRoom, Accept, Command, TypeOK, InTurn, Tables, AllAbsent, Applied, shared,
      tables, history
<1>17. CASE JoinRoomSendFails
  BY <1>17, Zenon
  DEF JoinRoomSendFails, Command, TypeOK, InTurn, Tables, AllAbsent, Applied, shared,
      tables, history
<1>18. ASSUME NEW r \in RoomSet, JoinRoom(r) PROVE InTurn'
  BY <1>18, Zenon
  DEF JoinRoom, Accept, Command, TypeOK, InTurn, Tables, AllAbsent, Applied, shared,
      tables, history
<1>19. CASE LeaveRoom
  BY <1>19, Zenon
  DEF LeaveRoom, Leave, Command, TypeOK, InTurn, Tables, AllAbsent, Applied, shared,
      tables, history
<1>20. CASE Stop
  BY <1>20, Zenon
  DEF Stop, Leave, Command, TypeOK, InTurn, Tables, AllAbsent, Applied, shared, tables,
      history
<1>21. CASE ClearPeers
  BY <1>21, Zenon
  DEF ClearPeers, Leaving, TypeOK, InTurn, Tables, AllAbsent, Applied, shared, tables,
      history
<1>22. CASE ReadRuntime
  BY <1>22, Zenon
  DEF ReadRuntime, TypeOK, InTurn, Tables, AllAbsent, Applied, shared, tables, history
<1>23. CASE RemoveRoute
  BY <1>23, Zenon
  DEF RemoveRoute, Leaving, TypeOK, InTurn, Tables, AllAbsent, Applied, shared, tables,
      history
<1>24. CASE ClearRoom
  BY <1>24, Zenon
  DEF ClearRoom, Leaving, TypeOK, InTurn, Tables, AllAbsent, Applied, shared, tables,
      history
<1>25. CASE ClearTun
  BY <1>25, Zenon
  DEF ClearTun, Leaving, TypeOK, InTurn, Tables, AllAbsent, Applied, shared, tables, history
<1>26. CASE ClearDataplanePeers
  BY <1>26, Zenon
  DEF ClearDataplanePeers, Leaving, TypeOK, InTurn, Tables, AllAbsent, Applied, shared,
      tables, history
<1>27. CASE ClearDataplaneRoom
  BY <1>27, Zenon
  DEF ClearDataplaneRoom, Leaving, TypeOK, InTurn, Tables, AllAbsent, Applied, shared,
      tables, history
<1>28. CASE ClearRuntime
  BY <1>28, Zenon
  DEF ClearRuntime, TypeOK, InTurn, Tables, AllAbsent, Applied, CmdIdle, shared, tables,
      history
<1>29. CASE WatchdogJoin
  BY <1>29, Zenon
  DEF WatchdogJoin, TypeOK, InTurn, Tables, AllAbsent, Applied, shared, tables, history
<1>30. CASE UNCHANGED vars
  BY <1>30, Zenon
  DEF vars, TypeOK, InTurn, Tables, AllAbsent, Applied
<1> QED BY <1>1, <1>2, <1>3, <1>4, <1>5, <1>6, <1>7, <1>8, <1>9, <1>10, <1>11, <1>12,
           <1>13, <1>14, <1>15, <1>16, <1>17, <1>18, <1>19, <1>20, <1>21, <1>22, <1>23,
           <1>24, <1>25, <1>26, <1>27, <1>28, <1>29, <1>30, Zenon
       DEF Next, UdpStep, CmdStep

(* Handled in turn, an activation and a leave take the state from one stage to the next. *)
LEMMA WiringStep ==
  ASSUME TypeOK, GrantInHand, RoomHeld, InTurn, Wiring, [Next]_vars
  PROVE  Wiring'
<1>1. ASSUME NEW f \in inflight, ActivateBegin(f) PROVE Wiring'
  BY <1>1, EdgeRoomAssumption, Zenon
  DEF ActivateBegin, Receive, Handle, TypeOK, InTurn, Wiring, Activation, Withdrawal, Outside,
      Inside, Fresh, Again, shared, tables, history
<1>2. ASSUME NEW f \in inflight, ActivateRefused(f) PROVE Wiring'
  BY <1>2, EdgeRoomAssumption, Zenon
  DEF ActivateRefused, Receive, Handle, Replied, AskedBy, TypeOK, InTurn, Wiring, Activation,
      Withdrawal, Outside, Inside, Fresh, Again, shared, tables, history
<1>3. ASSUME NEW f \in inflight, Answered(f) PROVE Wiring'
  BY <1>3, EdgeRoomAssumption, Zenon
  DEF Answered, Receive, Handle, Replied, TypeOK, InTurn, Wiring, Activation, Withdrawal, Outside,
      Inside, Fresh, Again, shared, tables, history
<1>4. ASSUME NEW f \in NewsFrames, UpdatePeers(f) PROVE Wiring'
  BY <1>4, EdgeRoomAssumption, Zenon
  DEF UpdatePeers, Handle, TypeOK, InTurn, Wiring, Activation, Withdrawal, Outside,
      Inside, Fresh, Again, shared, tables, history
<1>5. CASE TunReady
  <2> SUFFICES ASSUME ~disturbed', ~leftover' PROVE Wiring'
    BY Zenon DEF Wiring
  <2>1. /\ ~disturbed /\ ~leftover /\ tun \in {NoNet, udp.frame.net}
        /\ cmd.pc = "idle" /\ udp.pc = "tun" /\ cmd' = cmd
    BY <1>5, Zenon DEF TunReady, Running, InTurn
  <2>2. Outside \/ Inside
    BY <2>1, Zenon DEF Wiring, Activation
  <2>3. /\ udp'.pc = "route" /\ udp'.frame = udp.frame /\ udp'.created = (tun = NoNet)
        /\ UNCHANGED <<room_id, dp_room, runtime, routes>>
        /\ tun' = IF tun = NoNet THEN udp.frame.net ELSE tun
    BY <1>5, Zenon DEF TunReady, Running, TypeOK
  <2>4. room_id \in {NoRoom, udp.frame.room}
    BY <2>1, Zenon DEF RoomHeld, Activating
  <2>5. CASE Outside
    BY <2>1, <2>3, <2>5, Zenon DEF Wiring, Activation, Outside, Fresh
  <2>6. CASE Inside
    <3>1. runtime # NoNet /\ room_id # NoRoom
      BY <2>6, EdgeRoomAssumption, Zenon DEF Inside, RoomSet, NetSet
    <3>2. room_id = udp.frame.room /\ runtime = udp.frame.net
      BY <2>1, <2>4, <2>6, <3>1, Zenon DEF Inside
    <3> QED BY <2>1, <2>3, <2>6, <3>1, <3>2, ZenonT(30) DEF Wiring, Activation, Inside, Again
  <2> QED BY <2>2, <2>5, <2>6, Zenon
<1>6. CASE TunFails
  BY <1>6, EdgeRoomAssumption, Zenon
  DEF TunFails, Running, ActivateFails, Replied, AskedBy, TypeOK, InTurn, Wiring,
      Activation, Withdrawal, Outside, Inside, Fresh, Again, UdpIdle, shared, tables,
      history
<1>7. CASE NameFails
  BY <1>7, EdgeRoomAssumption, Zenon
  DEF NameFails, Running, ActivateFails, Replied, AskedBy, TypeOK, InTurn, Wiring,
      Activation, Withdrawal, Outside, Inside, Fresh, Again, UdpIdle, shared, tables,
      history
<1>8. CASE AddRoute
  BY <1>8, EdgeRoomAssumption, Zenon
  DEF AddRoute, Running, TypeOK, InTurn, Wiring, Activation, Withdrawal, Outside, Inside,
      Fresh, Again, shared, tables, history
<1>9. CASE AddRouteFails
  BY <1>9, EdgeRoomAssumption, Zenon
  DEF AddRouteFails, Running, ActivateFails, Replied, AskedBy, TypeOK, InTurn, Wiring,
      Activation, Withdrawal, Outside, Inside, Fresh, Again, UdpIdle, GrantInHand, shared,
      tables, history
<1>10. CASE SetRoom
  BY <1>10, EdgeRoomAssumption, Zenon
  DEF SetRoom, Running, TypeOK, InTurn, Wiring, Activation, Withdrawal, Outside, Inside,
      Fresh, Again, shared, tables, history
<1>11. CASE SetDataplaneRoom
  BY <1>11, EdgeRoomAssumption, Zenon
  DEF SetDataplaneRoom, Running, TypeOK, InTurn, Wiring, Activation, Withdrawal, Outside,
      Inside, Fresh, Again, shared, tables, history
<1>12. CASE SetRuntime
  BY <1>12, EdgeRoomAssumption, Zenon
  DEF SetRuntime, Running, TypeOK, InTurn, Wiring, Activation, Withdrawal, Outside, Inside,
      Fresh, Again, shared, tables, history
<1>13. CASE ReplyOk
  BY <1>13, EdgeRoomAssumption, Zenon
  DEF ReplyOk, Running, Replied, AskedBy, TypeOK, InTurn, Wiring, Activation, Withdrawal,
      Outside, Inside, Fresh, Again, UdpIdle, GrantInHand, shared, tables, history
<1>14. CASE UpdateDataplane
  BY <1>14, EdgeRoomAssumption, Zenon
  DEF UpdateDataplane, Running, TypeOK, InTurn, Wiring, Activation, Withdrawal, Outside,
      Inside, Fresh, Again, UdpIdle, shared, tables, history
<1>15. ASSUME NEW p \in Peers, InstallCipher(p) PROVE Wiring'
  BY <1>15, EdgeRoomAssumption, Zenon
  DEF InstallCipher, Running, TypeOK, InTurn, Wiring, Activation, Withdrawal, Outside,
      Inside, Fresh, Again, shared, tables, history
<1>16. CASE CreateRoom
  BY <1>16, EdgeRoomAssumption, SMTT(30)
  DEF CreateRoom, Accept, Command, TypeOK, InTurn, Wiring, Activation, Withdrawal, Outside,
      Inside, Fresh, Again, shared, tables, history
<1>17. CASE JoinRoomSendFails
  BY <1>17, EdgeRoomAssumption, SMTT(30)
  DEF JoinRoomSendFails, Command, TypeOK, InTurn, Wiring, Activation, Withdrawal, Outside,
      Inside, Fresh, Again, shared, tables, history
<1>18. ASSUME NEW r \in RoomSet, JoinRoom(r) PROVE Wiring'
  BY <1>18, EdgeRoomAssumption, ZenonT(30)
  DEF JoinRoom, Accept, Command, TypeOK, InTurn, Wiring, Activation, Withdrawal, Outside,
      Inside, Fresh, Again, shared, tables, history
<1>19. CASE LeaveRoom
  BY <1>19, EdgeRoomAssumption, ZenonT(30)
  DEF LeaveRoom, Leave, Command, TypeOK, InTurn, Wiring, Activation, Withdrawal, Outside,
      Inside, Fresh, Again, shared, tables, history
<1>20. CASE Stop
  BY <1>20, EdgeRoomAssumption, Zenon
  DEF Stop, Leave, Command, TypeOK, InTurn, Wiring, Activation, Withdrawal, Outside,
      Inside, Fresh, Again, shared, tables, history
<1>21. CASE ClearPeers
  BY <1>21, EdgeRoomAssumption, Zenon
  DEF ClearPeers, Leaving, TypeOK, InTurn, Wiring, Activation, Withdrawal, Outside, Inside,
      Fresh, Again, shared, tables, history
<1>22. CASE ReadRuntime
  BY <1>22, EdgeRoomAssumption, Zenon
  DEF ReadRuntime, TypeOK, InTurn, Wiring, Activation, Withdrawal, Outside, Inside, Fresh,
      Again, shared, tables, history
<1>23. CASE RemoveRoute
  BY <1>23, EdgeRoomAssumption, Zenon
  DEF RemoveRoute, Leaving, TypeOK, InTurn, Wiring, Activation, Withdrawal, Outside,
      Inside, Fresh, Again, shared, tables, history
<1>24. CASE ClearRoom
  BY <1>24, EdgeRoomAssumption, Zenon
  DEF ClearRoom, Leaving, TypeOK, InTurn, Wiring, Activation, Withdrawal, Outside, Inside,
      Fresh, Again, shared, tables, history
<1>25. CASE ClearTun
  BY <1>25, EdgeRoomAssumption, Zenon
  DEF ClearTun, Leaving, TypeOK, InTurn, Wiring, Activation, Withdrawal, Outside, Inside,
      Fresh, Again, shared, tables, history
<1>26. CASE ClearDataplanePeers
  BY <1>26, EdgeRoomAssumption, Zenon
  DEF ClearDataplanePeers, Leaving, TypeOK, InTurn, Wiring, Activation, Withdrawal,
      Outside, Inside, Fresh, Again, shared, tables, history
<1>27. CASE ClearDataplaneRoom
  BY <1>27, EdgeRoomAssumption, Zenon
  DEF ClearDataplaneRoom, Leaving, TypeOK, InTurn, Wiring, Activation, Withdrawal, Outside,
      Inside, Fresh, Again, shared, tables, history
<1>28. CASE ClearRuntime
  BY <1>28, EdgeRoomAssumption, Zenon
  DEF ClearRuntime, TypeOK, InTurn, Wiring, Activation, Withdrawal, Outside, Inside, Fresh,
      Again, CmdIdle, shared, tables, history
<1>29. CASE WatchdogJoin
  BY <1>29, EdgeRoomAssumption, SMTT(30)
  DEF WatchdogJoin, TypeOK, InTurn, Wiring, Activation, Withdrawal, Outside, Inside, Fresh,
      Again, shared, tables, history
<1>30. CASE UNCHANGED vars
  BY <1>30, EdgeRoomAssumption
  DEF vars, TypeOK, InTurn, Wiring, Activation, Withdrawal, Outside, Inside, Fresh, Again
<1> QED BY <1>1, <1>2, <1>3, <1>4, <1>5, <1>6, <1>7, <1>8, <1>9, <1>10, <1>11, <1>12,
           <1>13, <1>14, <1>15, <1>16, <1>17, <1>18, <1>19, <1>20, <1>21, <1>22, <1>23,
           <1>24, <1>25, <1>26, <1>27, <1>28, <1>29, <1>30, Zenon
       DEF Next, UdpStep, CmdStep

(* Also when the device is one of another grant, each stage of an activation or a leave does *)
(* its part.                                                                             *)
LEMMA ServingStep ==
  ASSUME TypeOK, GrantInHand, RoomHeld, InTurn, Serving, [Next]_vars
  PROVE  Serving'
<1>1. ASSUME NEW f \in inflight, ActivateBegin(f) PROVE Serving'
  BY <1>1, EdgeRoomAssumption, Zenon
  DEF ActivateBegin, Receive, Handle, TypeOK, InTurn, Serving, Entering, Exiting, Fresh, Joined, shared, tables, history
<1>2. ASSUME NEW f \in inflight, ActivateRefused(f) PROVE Serving'
  BY <1>2, EdgeRoomAssumption, Zenon
  DEF ActivateRefused, Receive, Handle, Replied, AskedBy, TypeOK, InTurn, Serving, Entering, Exiting, Fresh, Joined, shared, tables, history
<1>3. ASSUME NEW f \in inflight, Answered(f) PROVE Serving'
  BY <1>3, EdgeRoomAssumption, Zenon
  DEF Answered, Receive, Handle, Replied, TypeOK, InTurn, Serving, Entering, Exiting, Fresh, Joined, shared, tables, history
<1>4. ASSUME NEW f \in NewsFrames, UpdatePeers(f) PROVE Serving'
  BY <1>4, EdgeRoomAssumption, Zenon
  DEF UpdatePeers, Handle, TypeOK, InTurn, Serving, Entering, Exiting, Fresh, Joined, shared, tables, history
<1>5. CASE TunReady
  BY <1>5, EdgeRoomAssumption, ZenonT(40)
  DEF TunReady, Running, TypeOK, InTurn, Serving, Entering, Exiting, Fresh, Joined, GrantInHand, shared, tables, history
<1>6. CASE TunFails
  BY <1>6, EdgeRoomAssumption, Zenon
  DEF TunFails, Running, ActivateFails, Replied, AskedBy, TypeOK, InTurn, Serving, Entering, Exiting, Fresh, Joined, UdpIdle, shared, tables,
      history
<1>7. CASE NameFails
  BY <1>7, EdgeRoomAssumption, Zenon
  DEF NameFails, Running, ActivateFails, Replied, AskedBy, TypeOK, InTurn, Serving, Entering, Exiting, Fresh, Joined, UdpIdle, shared, tables,
      history
<1>8. CASE AddRoute
  BY <1>8, EdgeRoomAssumption, Zenon
  DEF AddRoute, Running, TypeOK, InTurn, Serving, Entering, Exiting, Fresh, Joined, shared, tables, history
<1>9. CASE AddRouteFails
  BY <1>9, EdgeRoomAssumption, Zenon
  DEF AddRouteFails, Running, ActivateFails, Replied, AskedBy, TypeOK, InTurn, Serving, Entering, Exiting, Fresh, Joined, UdpIdle, GrantInHand, shared,
      tables, history
<1>10. CASE SetRoom
  BY <1>10, EdgeRoomAssumption, Zenon
  DEF SetRoom, Running, TypeOK, InTurn, Serving, Entering, Exiting, Fresh, Joined, shared, tables, history
<1>11. CASE SetDataplaneRoom
  BY <1>11, EdgeRoomAssumption, Zenon
  DEF SetDataplaneRoom, Running, TypeOK, InTurn, Serving, Entering, Exiting, Fresh, Joined, shared, tables, history
<1>12. CASE SetRuntime
  BY <1>12, EdgeRoomAssumption, Zenon
  DEF SetRuntime, Running, TypeOK, InTurn, Serving, Entering, Exiting, Fresh, Joined, shared, tables, history
<1>13. CASE ReplyOk
  BY <1>13, EdgeRoomAssumption, Zenon
  DEF ReplyOk, Running, Replied, AskedBy, TypeOK, InTurn, Serving, Entering, Exiting, Fresh, Joined, UdpIdle, GrantInHand, shared, tables, history
<1>14. CASE UpdateDataplane
  BY <1>14, EdgeRoomAssumption, Zenon
  DEF UpdateDataplane, Running, TypeOK, InTurn, Serving, Entering, Exiting, Fresh, Joined, UdpIdle, shared, tables, history
<1>15. ASSUME NEW p \in Peers, InstallCipher(p) PROVE Serving'
  BY <1>15, EdgeRoomAssumption, Zenon
  DEF InstallCipher, Running, TypeOK, InTurn, Serving, Entering, Exiting, Fresh, Joined, shared, tables, history
<1>16. CASE CreateRoom
  BY <1>16, EdgeRoomAssumption, SMTT(30)
  DEF CreateRoom, Accept, Command, TypeOK, InTurn, Serving, Entering, Exiting, Fresh, Joined, shared, tables, history
<1>17. CASE JoinRoomSendFails
  BY <1>17, EdgeRoomAssumption, SMTT(30)
  DEF JoinRoomSendFails, Command, TypeOK, InTurn, Serving, Entering, Exiting, Fresh, Joined, shared, tables, history
<1>18. ASSUME NEW r \in RoomSet, JoinRoom(r) PROVE Serving'
  BY <1>18, EdgeRoomAssumption, ZenonT(30)
  DEF JoinRoom, Accept, Command, TypeOK, InTurn, Serving, Entering, Exiting, Fresh, Joined, shared, tables, history
<1>19. CASE LeaveRoom
  BY <1>19, EdgeRoomAssumption, ZenonT(30)
  DEF LeaveRoom, Leave, Command, TypeOK, InTurn, Serving, Entering, Exiting, Fresh, Joined, shared, tables, history
<1>20. CASE Stop
  BY <1>20, EdgeRoomAssumption, Zenon
  DEF Stop, Leave, Command, TypeOK, InTurn, Serving, Entering, Exiting, Fresh, Joined, shared, tables, history
<1>21. CASE ClearPeers
  BY <1>21, EdgeRoomAssumption, Zenon
  DEF ClearPeers, Leaving, TypeOK, InTurn, Serving, Entering, Exiting, Fresh, Joined, shared, tables, history
<1>22. CASE ReadRuntime
  BY <1>22, EdgeRoomAssumption, Zenon
  DEF ReadRuntime, TypeOK, InTurn, Serving, Entering, Exiting, Fresh, Joined, shared, tables, history
<1>23. CASE RemoveRoute
  BY <1>23, EdgeRoomAssumption, Zenon
  DEF RemoveRoute, Leaving, TypeOK, InTurn, Serving, Entering, Exiting, Fresh, Joined, shared, tables, history
<1>24. CASE ClearRoom
  BY <1>24, EdgeRoomAssumption, Zenon
  DEF ClearRoom, Leaving, TypeOK, InTurn, Serving, Entering, Exiting, Fresh, Joined, shared, tables, history
<1>25. CASE ClearTun
  BY <1>25, EdgeRoomAssumption, Zenon
  DEF ClearTun, Leaving, TypeOK, InTurn, Serving, Entering, Exiting, Fresh, Joined, shared, tables, history
<1>26. CASE ClearDataplanePeers
  BY <1>26, EdgeRoomAssumption, Zenon
  DEF ClearDataplanePeers, Leaving, TypeOK, InTurn, Serving, Entering, Exiting, Fresh, Joined, shared, tables, history
<1>27. CASE ClearDataplaneRoom
  BY <1>27, EdgeRoomAssumption, Zenon
  DEF ClearDataplaneRoom, Leaving, TypeOK, InTurn, Serving, Entering, Exiting, Fresh, Joined, shared, tables, history
<1>28. CASE ClearRuntime
  BY <1>28, EdgeRoomAssumption, Zenon
  DEF ClearRuntime, TypeOK, InTurn, Serving, Entering, Exiting, Fresh, Joined, CmdIdle, shared, tables, history
<1>29. CASE WatchdogJoin
  BY <1>29, EdgeRoomAssumption, SMTT(30)
  DEF WatchdogJoin, TypeOK, InTurn, Serving, Entering, Exiting, Fresh, Joined, shared, tables, history
<1>30. CASE UNCHANGED vars
  BY <1>30, EdgeRoomAssumption
  DEF vars, TypeOK, InTurn, Serving, Entering, Exiting, Fresh, Joined
<1> QED BY <1>1, <1>2, <1>3, <1>4, <1>5, <1>6, <1>7, <1>8, <1>9, <1>10, <1>11, <1>12,
           <1>13, <1>14, <1>15, <1>16, <1>17, <1>18, <1>19, <1>20, <1>21, <1>22, <1>23,
           <1>24, <1>25, <1>26, <1>27, <1>28, <1>29, <1>30, Zenon
       DEF Next, UdpStep, CmdStep

-----------------------------------------------------------------------------

IInv == TypeOK /\ GrantInHand /\ RoomHeld /\ Healing /\ InTurn

LEMMA Initially == Init => IInv /\ Wiring /\ Serving
<1> SUFFICES ASSUME Init PROVE IInv /\ Wiring /\ Serving
  BY Zenon
<1>1. TypeOK
  BY Zenon DEF Init, TypeOK, UdpIdle, CmdIdle, NoFrame, Notice, Frames, UdpStages, CmdStages, Entries,
         Requests
<1>2. GrantInHand /\ RoomHeld /\ Healing
  BY Zenon DEF Init, GrantInHand, RoomHeld, Activating, Healing, UdpIdle, CmdIdle
<1>3. InTurn /\ Wiring
  BY Zenon DEF Init, InTurn, Tables, Wiring, Activation, Outside, UdpIdle, CmdIdle
<1>4. Serving
  BY Zenon DEF Init, Serving, Entering, Fresh, UdpIdle, CmdIdle
<1> QED BY <1>1, <1>2, <1>3, <1>4, Zenon DEF IInv

(***************************************************************************)
(* Type correctness, the room an activation holds, what a leave has reset, *)
(* and the tables of frames and leaves that take turns, over all           *)
(* interleavings of frames, commands and the watchdog.                     *)
(***************************************************************************)
THEOREM Inductive == Spec => []IInv
<1>1. IInv /\ [Next]_vars => IInv'
  BY TypeStep, GrantInHandStep, RoomHeldStep, HealingStep, InTurnStep, Zenon DEF IInv
<1> QED BY Initially, <1>1, PTL DEF Spec

(***************************************************************************)
(* The edge never goes from one room to another without leaving the first, *)
(* although activate_room checks room_id several locks before it writes    *)
(* it: only one activation runs at a time, and a leave only clears.        *)
(***************************************************************************)
THEOREM RoomIsNeverReplaced == Spec => RoomNeverReplaced
<1>1. ASSUME IInv, [Next]_vars
      PROVE  room_id # NoRoom /\ room_id' # NoRoom => room_id' = room_id
  <2>1. CASE SetRoom
    BY <1>1, <2>1, Zenon DEF SetRoom, Running, IInv, RoomHeld, Activating
  <2>2. CASE ClearRoom
    BY <2>2, Zenon DEF ClearRoom
  <2>3. CASE ~SetRoom /\ ~ClearRoom
    BY <1>1, <2>3, Zenon
    DEF Next, UdpStep, CmdStep, ActivateBegin, ActivateRefused, Answered, UpdatePeers, Receive, Handle,
        TunReady, TunFails, NameFails, AddRoute, AddRouteFails, SetDataplaneRoom, SetRuntime,
        ReplyOk, UpdateDataplane, InstallCipher, CreateRoom, JoinRoomSendFails, JoinRoom, Accept,
        LeaveRoom, Stop, Leave, ClearPeers, ReadRuntime, RemoveRoute, ClearTun,
        ClearDataplanePeers, ClearDataplaneRoom, ClearRuntime, WatchdogJoin, shared, vars
  <2> QED BY <2>1, <2>2, <2>3, Zenon
<1> QED BY <1>1, Inductive, PTL DEF Spec, RoomNeverReplaced

(***************************************************************************)
(* A leave during which no frame is handled ends with room, device, both   *)
(* tables, runtime and dataplane reset, whatever they were before it:      *)
(* deactivate_room and the handler around it reset without looking.        *)
(***************************************************************************)
THEOREM LeavesHeal == Spec => LeaveHeals
<1>1. ASSUME IInv, [Next]_vars, cmd.pc = "runtime", cmd'.pc # "runtime", ~overlapped
      PROVE  /\ room_id' = NoRoom /\ dp_room' = NoRoom /\ tun' = NoNet /\ runtime' = NoNet
             /\ \A p \in Peers : peers'[p] = "absent" /\ dp_peers'[p] = "absent"
  <2>1. CASE ClearRuntime
    BY <1>1, <2>1, Zenon DEF ClearRuntime, IInv, Healing, AllAbsent, tables
  <2>2. CASE ~ClearRuntime
    BY <1>1, <2>2, Zenon
    DEF Next, UdpStep, CmdStep, ActivateBegin, ActivateRefused, Answered, UpdatePeers, Receive, Handle,
        TunReady, TunFails, NameFails, AddRoute, AddRouteFails, SetRoom, SetDataplaneRoom,
        SetRuntime, ReplyOk, UpdateDataplane, InstallCipher, Running, CreateRoom,
        JoinRoomSendFails, JoinRoom, Accept, Command, LeaveRoom, Stop, Leave, ClearPeers, Leaving,
        ReadRuntime, RemoveRoute, ClearRoom, ClearTun, ClearDataplanePeers, ClearDataplaneRoom,
        WatchdogJoin, vars
  <2> QED BY <2>1, <2>2, Zenon
<1> QED BY <1>1, Inductive, PTL DEF Spec, LeaveHeals

(***************************************************************************)
(* As long as frames and leaves take turns, the stage of the activation or *)
(* of the leave says what room, runtime, dataplane and the granted route   *)
(* are, and also what the device and the other routes are as long as       *)
(* nothing of another grant stayed in the operating system.                *)
(***************************************************************************)
THEOREM TakingTurns == Spec => [](Serving /\ Wiring)
<1>1. IInv /\ Serving /\ Wiring /\ [Next]_vars => Serving' /\ Wiring'
  BY ServingStep, WiringStep, Zenon DEF IInv
<1> QED BY Initially, <1>1, Inductive, PTL DEF Spec

(***************************************************************************)
(* Between frames and commands that were handled in turn the room, the     *)
(* dataplane's room, the runtime and its route agree, and there is a       *)
(* device, whatever activation failed, was refused, came late or was       *)
(* repeated by a supernode that grants another network.  The device and    *)
(* the routes are exactly those of the network shown unless activate_room  *)
(* kept a device of another grant or the operating system failed late.     *)
(***************************************************************************)
THEOREM StaysWired == Spec => []WiredInTurn
<1>1. Serving /\ Quiet /\ ~disturbed => Served
  <2> SUFFICES ASSUME Serving, Quiet, ~disturbed PROVE Served
    BY Zenon
  <2>1. CASE cmd.pc = "idle"
    <3>1. Fresh \/ Joined
      BY <2>1, Zenon DEF Serving, Entering, Quiet
    <3>2. Joined => room_id # NoRoom /\ runtime # NoNet
      BY EdgeRoomAssumption, Zenon DEF Joined, RoomSet, NetSet
    <3> QED BY <3>1, <3>2, Zenon DEF Fresh, Joined, Served
  <2>2. CASE cmd.pc = "exited"
    BY <2>2, Zenon DEF Serving, Exiting, Served
  <2> QED BY <2>1, <2>2, Zenon DEF Quiet
<1>2. Wiring /\ Quiet /\ ~disturbed /\ ~leftover => Exact
  <2> SUFFICES ASSUME Wiring, Quiet, ~disturbed, ~leftover PROVE Exact
    BY Zenon
  <2>1. CASE cmd.pc = "idle"
    <3>1. Outside \/ Inside
      BY <2>1, Zenon DEF Wiring, Activation, Quiet
    <3>2. Inside => runtime # NoNet
      BY EdgeRoomAssumption, Zenon DEF Inside, NetSet
    <3> QED BY <3>1, <3>2, Zenon DEF Outside, Inside, Exact
  <2>2. CASE cmd.pc = "exited"
    BY <2>2, Zenon DEF Wiring, Withdrawal, Exact
  <2> QED BY <2>1, <2>2, Zenon DEF Quiet
<1> QED BY <1>1, <1>2, TakingTurns, PTL DEF WiredInTurn

(***************************************************************************)
(* Between frames and commands that were handled in turn, Edge::peers and  *)
(* DataPlane::peers name the same peers with the same ciphers.             *)
(***************************************************************************)
THEOREM TablesStayEqual == Spec => []TablesAgree
<1>1. IInv => TablesAgree
  BY Zenon DEF IInv, InTurn, Tables, TablesAgree, Quiet
<1> QED BY <1>1, Inductive, PTL

-----------------------------------------------------------------------------
(***************************************************************************)
(* Daemon, for any number of daemons and clients.  Stages says what a      *)
(* program has at each step of its way; Guarded, that without a floating   *)
(* port one daemon at a time has its UDP socket, and no other comes as far *)
(* as to unlink; Config, that whoever holds something read from the file   *)
(* holds what was kept, as long as the file is used by one at a time.      *)
(***************************************************************************)

Saving == {"save", "truncate", "write"}

ProgRecords ==
    [pc: {"off", "load", "args", "bind", "unlink", "listen", "up", "switch", "dead"} \cup Saving,
     conf: Edges \cup {Missing}, shared: Edges \cup {"section", Missing},
     then: {"off", "args", "bind", "up", "switch"}, runs: Edges \cup {Missing}, due: Nat]

DaemonStage(r) ==
    /\ r.shared \in {"section", Missing}
    /\ r.pc \in {"off", "load"} => r.due = 0
    /\ r.pc \in {"off", "load", "args", "bind"} => r.runs = Missing
    /\ r.pc \in {"unlink", "listen", "up", "switch"} => r.runs # Missing
    /\ r.pc \in {"args", "bind", "switch"} \cup Saving => r.conf # Missing
    /\ r.pc \in {"off", "load", "args", "bind", "unlink", "listen"} => r.then \notin {"switch", "up"}
    /\ r.pc \in {"up", "switch"} => r.then \in {"switch", "up"}
    /\ r.pc \in Saving =>
        /\ r.then \in {"args", "bind", "switch", "up"}
        /\ r.runs # Missing <=> r.then \in {"switch", "up"}

SupernodeStage(r) ==
    /\ r.pc \in {"off", "load", "up", "dead"} \cup Saving
    /\ r.shared \in Edges \cup {Missing}
    /\ r.pc \in Saving => r.then = "up"

Staged(p, r) == r \in ProgRecords /\ IF p = Supernode THEN SupernodeStage(r) ELSE DaemonStage(r)

ClisType ==
    /\ cli \in [Clis -> [stage: {"idle", "boot", "sent", "done"}, daemon: Daemons \cup {Missing}]]
    /\ \A c \in Clis : cli[c].stage = "sent" => cli[c].daemon \in Daemons

Stages ==
    /\ prog \in [Programs -> ProgRecords]
    /\ \A p \in Programs : Staged(p, prog[p])
    /\ file \in Sections \cup {Missing}
    /\ kept \in Sections
    /\ ids \in Nat
    /\ socket \in Daemons \cup {Missing}
    /\ contended \in BOOLEAN
    /\ ClisType

Guarded ==
    (\A d \in Daemons : ~Floating(d)) =>
        /\ \A d, e \in Daemons : Bound(d) /\ Bound(e) => d = e
        /\ \A d \in Daemons : Up(d) => socket = d

(* What is to be written carries the sections that were kept. *)
FitsEdge(k, edge) ==
    k.edge # Missing =>
        edge # Missing /\ edge.port = k.edge.port /\ (k.edge.id # 0 => edge.id = k.edge.id)

FitsSupernode(k, section) == k.supernode # Missing => section = k.supernode

Fitting(p, r, k) ==
    IF p = Supernode THEN r.pc \in {"truncate", "write"} => FitsEdge(k, r.shared)
    ELSE /\ r.pc \in {"args", "switch"} \cup Saving => FitsEdge(k, r.conf)
         /\ r.pc \in {"truncate", "write"} => FitsSupernode(k, r.shared)

(* A daemon that was started when an identity was kept takes it on. *)
TakesOn(r) ==
    r.due # 0 =>
        /\ r.pc \notin {"off", "dead"} /\ r.runs # Missing => r.runs.id = r.due
        /\ r.pc \notin {"off", "dead"} /\ r.runs = Missing => r.conf # Missing /\ r.conf.id = r.due

FileKept ==
    (\A p \in Programs : prog[p].pc # "write") =>
        /\ kept.supernode # Missing => file # Missing /\ file.supernode = kept.supernode
        /\ EdgeSection(kept) => EdgeSection(file) /\ file.edge = kept.edge

Config ==
    ~contended =>
        /\ FileKept
        /\ \A p \in Programs : Fitting(p, prog[p], kept)
        /\ \A d \in Daemons : TakesOn(prog[d])

DaemonInv == Stages /\ Guarded /\ Config

-----------------------------------------------------------------------------

LEMMA DaemonInitially == DaemonInit => DaemonInv
  <1> SUFFICES ASSUME DaemonInit PROVE DaemonInv
    BY Zenon
  <1>1. Off \in ProgRecords /\ DaemonStage(Off) /\ SupernodeStage(Off) /\ Off.pc = "off"
    BY Zenon DEF Off, ProgRecords, DaemonStage, SupernodeStage, Saving
  <1>2. prog = [p \in Programs |-> Off] /\ \A p \in Programs : prog[p] = Off
    BY Zenon DEF DaemonInit
  <1>3. file \in Sections \cup {Missing} /\ kept \in Sections /\ (file # Missing => kept = file)
        /\ (file = Missing => kept = Empty)
    <2>1. Empty \in Sections
      BY Zenon DEF Empty, Sections
    <2>2. [Empty EXCEPT !.supernode = "section"] \in Sections
      BY Zenon DEF Empty, Sections
    <2>3. \A port \in {"any", "fixed"} : [Empty EXCEPT !.edge = Edge(0, port)] \in Sections
      BY Zenon DEF Empty, Sections, Edge, Edges
    <2> QED BY <2>1, <2>2, <2>3, Zenon DEF DaemonInit, ConfigFiles
  <1>4. ClisType
    BY Zenon DEF DaemonInit, ClisType
  <1>5. Stages
    BY <1>1, <1>2, <1>3, <1>4, Zenon DEF DaemonInit, Stages, Staged
  <1>6. Guarded
    <2>1. \A d \in Daemons : ~Alive(d)
      BY <1>1, <1>2, Zenon DEF Alive, Programs
    <2> QED BY <2>1, Zenon DEF Guarded, Bound, Up
  <1>7. Config
    <2>1. FileKept
      BY <1>3 DEF FileKept, EdgeSection, Empty
    <2>2. \A p \in Programs : Fitting(p, prog[p], kept)
      BY <1>1, <1>2, Zenon DEF Fitting, Saving
    <2>3. \A d \in Daemons : TakesOn(prog[d])
      BY <1>1, <1>2, Zenon DEF TakesOn, Programs
    <2> QED BY <2>1, <2>2, <2>3, Zenon DEF Config
  <1> QED BY <1>5, <1>6, <1>7, Zenon DEF DaemonInv

(* One program moves, the others stay where they are. *)
Moves(p) == prog' \in [Programs -> ProgRecords] /\ \A q \in Programs \ {p} : prog'[q] = prog[q]

LEMMA StagesKept ==
  ASSUME Stages, NEW p \in Programs, Moves(p), Staged(p, prog'[p]),
         file' \in Sections \cup {Missing}, kept' \in Sections, ids' \in Nat,
         socket' \in Daemons \cup {Missing}, contended' \in BOOLEAN, ClisType'
  PROVE  Stages'
  BY Zenon DEF Stages, Moves

(* A step after which a daemon is neither bound nor up, unless it was before *)
LEMMA GuardKept ==
  ASSUME Guarded, NEW p \in Programs, Moves(p), UNCHANGED socket,
         p \in Daemons /\ Floating(p) => Floating(p)',
         p \in Daemons /\ Bound(p)' => Bound(p),
         p \in Daemons /\ Up(p)' => Up(p)
  PROVE  Guarded'
  <1>1. ASSUME NEW d \in Daemons
        PROVE  (Floating(d) => Floating(d)') /\ (Bound(d)' => Bound(d)) /\ (Up(d)' => Up(d))
    <2>1. CASE d = p
      BY <2>1, Zenon
    <2>2. CASE d # p
      BY <2>2, Zenon DEF Moves, Floating, Bound, Up, Alive, Programs
    <2> QED BY <2>1, <2>2, Zenon
  <1> SUFFICES ASSUME \A d \in Daemons : ~Floating(d)'
               PROVE  /\ \A d, e \in Daemons : Bound(d)' /\ Bound(e)' => d = e
                      /\ \A d \in Daemons : Up(d)' => socket' = d
    BY Zenon DEF Guarded
  <1>2. \A d \in Daemons : ~Floating(d)
    BY <1>1, Zenon
  <1> QED BY <1>1, <1>2, Zenon DEF Guarded

(* A step that does not touch the file, of a program that is not about to fill it *)
LEMMA ConfigKept ==
  ASSUME Config, NEW p \in Programs, Moves(p), contended => contended',
         ~contended' => /\ UNCHANGED <<file, kept>>
                        /\ prog[p].pc # "write" /\ prog'[p].pc # "write"
                        /\ Fitting(p, prog'[p], kept)
                        /\ p \in Daemons => TakesOn(prog'[p])
  PROVE  Config'
  <1> SUFFICES ASSUME ~contended'
               PROVE  /\ FileKept'
                      /\ \A q \in Programs : Fitting(q, prog'[q], kept')
                      /\ \A d \in Daemons : TakesOn(prog'[d])
    BY Zenon DEF Config
  <1>1. /\ FileKept /\ \A q \in Programs : Fitting(q, prog[q], kept)
        /\ \A d \in Daemons : TakesOn(prog[d])
    BY Zenon DEF Config
  <1>2. (\A q \in Programs : prog'[q].pc # "write") => \A q \in Programs : prog[q].pc # "write"
    BY Zenon DEF Moves
  <1>3. FileKept'
    BY <1>1, <1>2, Zenon DEF FileKept, EdgeSection
  <1>4. \A q \in Programs : Fitting(q, prog'[q], kept')
    BY <1>1, Zenon DEF Moves
  <1>5. \A d \in Daemons : TakesOn(prog'[d])
    BY <1>1, Zenon DEF Moves, Programs
  <1> QED BY <1>3, <1>4, <1>5, Zenon

LEMMA KeepFacts ==
  ASSUME Stages, NEW sections \in Sections, NEW contending \in BOOLEAN, Keep(sections, contending)
  PROVE  /\ kept' \in Sections /\ contended' \in BOOLEAN
         /\ contended => contended'
         /\ contending => contended'
         /\ ~contended' => kept' = sections
  <1>1. Empty \in Sections
    BY Zenon DEF Empty, Sections
  <1> QED BY <1>1, Zenon DEF Keep, Stages

(* What is known of a program before it moves *)
LEMMA ProgFacts ==
  ASSUME Stages, NEW p \in Programs
  PROVE  /\ prog[p] \in ProgRecords
         /\ p \in Daemons => p # Supernode /\ DaemonStage(prog[p])
         /\ p \notin Daemons => p = Supernode /\ SupernodeStage(prog[p])
  BY DaemonAssumption, Zenon DEF Stages, Staged, Programs

LEMMA UpdateFacts ==
  ASSUME Stages, NEW p \in Programs, NEW s \in ProgRecords, prog' = [prog EXCEPT ![p] = s]
  PROVE  Moves(p) /\ prog'[p] = s
  BY Zenon DEF Stages, Moves

(* A program takes a step, keeping its socket and its rank; the file is not touched. *)
LEMMA WalkKeeps ==
  ASSUME DaemonInv, NEW p \in Programs, NEW s \in ProgRecords, prog' = [prog EXCEPT ![p] = s],
         Staged(p, s), UNCHANGED <<file, socket>>, ClisType', ids' \in Nat,
         kept' \in Sections, contended' \in BOOLEAN,
         contended => contended', ~contended' => kept' = kept,
         s.runs = prog[p].runs, prog[p].pc \notin {"write", "dead"}, s.pc # "write",
         p \in Daemons /\ (s.pc = "up" \/ s.then \in {"switch", "up"}) =>
            prog[p].pc = "up" \/ prog[p].then \in {"switch", "up"},
         ~contended' => Fitting(p, s, kept) /\ (p \in Daemons => TakesOn(s))
  PROVE  DaemonInv'
  <1>1. Stages /\ Guarded /\ Config
    BY Zenon DEF DaemonInv
  <1>2. Moves(p) /\ prog'[p] = s
    BY <1>1, UpdateFacts, Zenon
  <1>3. Stages'
    BY <1>1, <1>2, StagesKept, Zenon DEF Stages
  <1>4. Guarded'
    <2>0. p \in Daemons => DaemonStage(prog[p])
      BY <1>1, ProgFacts, Zenon
    <2>1. p \in Daemons /\ Floating(p) => Floating(p)'
      BY <1>2, Zenon DEF Floating
    <2>2. p \in Daemons /\ Bound(p)' => Bound(p)
      BY <1>2, <2>0, Zenon DEF Bound, Alive, DaemonStage
    <2>3. p \in Daemons /\ Up(p)' => Up(p)
      BY <1>2, <2>0, Zenon DEF Up, Alive, DaemonStage
    <2> QED BY <1>1, <1>2, <2>1, <2>2, <2>3, GuardKept, Zenon
  <1>5. Config'
    <2>1. ~contended' => /\ UNCHANGED <<file, kept>>
                         /\ prog[p].pc # "write" /\ prog'[p].pc # "write"
                         /\ Fitting(p, prog'[p], kept)
                         /\ p \in Daemons => TakesOn(prog'[p])
      BY <1>2, Zenon
    <2> QED BY <1>1, <1>2, <2>1, ConfigKept, Zenon
  <1> QED BY <1>3, <1>4, <1>5, Zenon DEF DaemonInv

(* A program ends; if it was writing, what was kept is forgotten. *)
LEMMA EndKeeps ==
  ASSUME DaemonInv, NEW p \in Programs, prog' = Dead(p),
         UNCHANGED <<file, socket, ids>>, ClisType',
         kept' \in Sections, contended' \in BOOLEAN,
         contended => contended', prog[p].pc = "write" => contended', ~contended' => kept' = kept
  PROVE  DaemonInv'
  <1> DEFINE s == [Off EXCEPT !.pc = "dead",
                              !.runs = IF Floating(p) THEN Edge(0, "any") ELSE Missing]
  <1>1. Stages /\ Guarded /\ Config
    BY Zenon DEF DaemonInv
  <1>2. /\ s \in ProgRecords /\ s.pc = "dead" /\ s.due = 0 /\ s.shared = Missing
        /\ Floating(p) => s.runs = Edge(0, "any")
    BY Zenon DEF Off, ProgRecords, Edge, Edges, Saving
  <1>3. prog' = [prog EXCEPT ![p] = s]
    BY Zenon DEF Dead
  <1> HIDE DEF s
  <1>4. Moves(p) /\ prog'[p] = s
    BY <1>1, <1>2, <1>3, UpdateFacts, Zenon
  <1>5. Staged(p, s)
    BY <1>2, Zenon DEF Staged, SupernodeStage, DaemonStage, Saving
  <1>6. Stages'
    BY <1>1, <1>4, <1>5, StagesKept, Zenon DEF Stages
  <1>7. Guarded'
    <2>1. p \in Daemons /\ Floating(p) => Floating(p)'
      <3>1. Edge(0, "any") # Missing /\ Edge(0, "any").port = "any"
        BY DaemonAssumption DEF Edge, Edges
      <3> QED BY <1>2, <1>4, <3>1, Zenon DEF Floating
    <2>2. p \in Daemons => ~Bound(p)' /\ ~Up(p)'
      BY <1>2, <1>4, Zenon DEF Bound, Up, Alive
    <2> QED BY <1>1, <1>4, <2>1, <2>2, GuardKept, Zenon
  <1>8. Config'
    <2>1. Fitting(p, s, kept) /\ TakesOn(s)
      BY <1>2, Zenon DEF Fitting, TakesOn, Saving
    <2>2. ~contended' => /\ UNCHANGED <<file, kept>>
                         /\ prog[p].pc # "write" /\ prog'[p].pc # "write"
                         /\ Fitting(p, prog'[p], kept)
                         /\ p \in Daemons => TakesOn(prog'[p])
      BY <1>2, <1>4, <2>1, Zenon
    <2> QED BY <1>1, <1>4, <2>2, ConfigKept, Zenon
  <1> QED BY <1>6, <1>7, <1>8, Zenon DEF DaemonInv

LEMMA StartKeeps ==
  ASSUME DaemonInv, NEW p \in Programs, prog[p].pc = "off", Go(p, "load"), ClisType',
         UNCHANGED <<file, socket, ids, kept, contended>>
  PROVE  DaemonInv'
  <1> DEFINE s == [prog[p] EXCEPT !.pc = "load"]
  <1>1. prog' = [prog EXCEPT ![p] = s]
    BY Zenon DEF Go
  <1>2. /\ prog[p] \in ProgRecords
        /\ p \in Daemons => p # Supernode /\ DaemonStage(prog[p])
        /\ p \notin Daemons => p = Supernode /\ SupernodeStage(prog[p])
    BY ProgFacts, Zenon DEF DaemonInv
  <1>3. /\ s \in ProgRecords /\ s.pc = "load" /\ s.runs = prog[p].runs /\ s.then = prog[p].then
        /\ s.due = prog[p].due /\ s.shared = prog[p].shared /\ s.conf = prog[p].conf
    BY <1>2, Zenon DEF ProgRecords
  <1> HIDE DEF s
  <1>4. Staged(p, s)
    BY <1>2, <1>3, Zenon DEF Staged, SupernodeStage, DaemonStage, Saving
  <1>5. Fitting(p, s, kept) /\ (p \in Daemons => TakesOn(s))
    BY <1>2, <1>3, Zenon DEF Fitting, TakesOn, DaemonStage, Saving
  <1> QED BY <1>1, <1>2, <1>3, <1>4, <1>5, WalkKeeps, Zenon DEF DaemonInv, Stages

(* What load returns carries the section that was kept, if the file does. *)
LEMMA LoadFacts ==
  ASSUME Stages
  PROVE  /\ load(file) \in Edges /\ load(file) # Missing
         /\ Drawn(file) \in Nat
         /\ EdgeSection(kept) /\ EdgeSection(file) /\ file.edge = kept.edge
              => FitsEdge(kept, load(file))
         /\ ~EdgeSection(kept) => FitsEdge(kept, load(file))
  <1>1. file \in Sections \cup {Missing} /\ ids \in Nat /\ kept \in Sections
    BY Zenon DEF Stages
  <1>2. EdgeSection(file) => file.edge \in Edges
    BY <1>1, Zenon DEF EdgeSection, Sections
  <1>3. load(file) \in Edges
    <2>1. \A port \in {"any", "fixed"} : Edge(ids + 1, port) \in Edges
      BY <1>1 DEF Edge, Edges
    <2>2. CASE EdgeSection(file)
      <3>1. file.edge \in Edges /\ file.edge.port \in {"any", "fixed"}
        BY <1>2, <2>2, Zenon DEF Edges
      <3> QED BY <2>1, <2>2, <3>1, Zenon DEF load, Parsed
    <2>3. CASE ~EdgeSection(file)
      BY <2>1, <2>3, Zenon DEF load
    <2> QED BY <2>2, <2>3, Zenon
  <1>4. Drawn(file) \in Nat
    BY <1>1 DEF Drawn
  <1>5. load(file) # Missing
    BY <1>3, DaemonAssumption, Zenon
  <1>6. ASSUME EdgeSection(kept), EdgeSection(file), file.edge = kept.edge
        PROVE  FitsEdge(kept, load(file))
    <2>1. load(file) = IF kept.edge.id = 0 THEN Edge(ids + 1, kept.edge.port) ELSE kept.edge
      BY <1>6, Zenon DEF load, Parsed
    <2> QED BY <1>5, <2>1 DEF FitsEdge, Edge
  <1>7. kept # Missing
    BY <1>1, DaemonAssumption, Zenon
  <1>8. ~EdgeSection(kept) => FitsEdge(kept, load(file))
    BY <1>7, Zenon DEF EdgeSection, FitsEdge
  <1> QED BY <1>3, <1>4, <1>5, <1>6, <1>8, Zenon

(* load_or_create, of a daemon that starts or of one that switches *)
LEMMA LoadKeeps ==
  ASSUME DaemonInv, NEW d \in Daemons, NEW then \in {"args", "switch"}, load_or_create(d, then),
         prog[d].pc = IF then = "args" THEN "load" ELSE "up"
  PROVE  DaemonInv'
  <1>1. Stages /\ Guarded /\ Config /\ d \in Programs
    BY Zenon DEF DaemonInv, Programs
  <1>2. prog[d] \in ProgRecords /\ d # Supernode /\ DaemonStage(prog[d])
    BY <1>1, ProgFacts, Zenon
  <1>3. /\ load(file) \in Edges /\ load(file) # Missing /\ Drawn(file) \in Nat
        /\ EdgeSection(kept) /\ EdgeSection(file) /\ file.edge = kept.edge
             => FitsEdge(kept, load(file))
        /\ ~EdgeSection(kept) => FitsEdge(kept, load(file))
    BY <1>1, LoadFacts, Zenon
  <1>4. kept \in Sections /\ kept # Missing
    BY <1>1, DaemonAssumption, Zenon DEF Stages
  <1> DEFINE due == IF ~Bound(d) /\ HasId(kept) THEN kept.edge.id ELSE prog[d].due
             pc == IF file = Missing THEN "save" ELSE then
             s == [prog[d] EXCEPT !.pc = pc, !.conf = load(file), !.then = then, !.due = due]
  <1>5. prog' = [prog EXCEPT ![d] = s]
    BY <1>1, Zenon DEF load_or_create, Stages
  <1>6. due \in Nat
    BY <1>2, <1>4, Zenon DEF HasId, EdgeSection, Sections, Edges, ProgRecords
  <1>7. pc \in {"save", then}
    BY Zenon
  <1> HIDE DEF due, pc
  <1>8. /\ s \in ProgRecords /\ s.pc = pc /\ s.runs = prog[d].runs /\ s.then = then
        /\ s.due = due /\ s.shared = prog[d].shared /\ s.conf = load(file)
    BY <1>2, <1>3, <1>6, <1>7, Zenon DEF ProgRecords, Saving
  <1> HIDE DEF s
  <1>9. Staged(d, s)
    BY <1>2, <1>3, <1>7, <1>8, Zenon DEF Staged, DaemonStage, Saving
  <1>10. /\ kept' \in Sections /\ contended' \in BOOLEAN /\ (contended => contended')
         /\ Truncated(d) => contended'
         /\ ~contended' => kept' = kept
    <2>1. Keep(kept, Truncated(d)) /\ Truncated(d) \in BOOLEAN
      BY Zenon DEF load_or_create, Truncated
    <2> QED BY <1>1, <1>4, <2>1, KeepFacts, Zenon
  <1>11. ASSUME ~contended' PROVE Fitting(d, s, kept) /\ TakesOn(s)
    <2>0. ~contended /\ ~Truncated(d)
      BY <1>10, <1>11, Zenon
    <2>1. FileKept /\ ~Truncated(d) /\ TakesOn(prog[d])
      BY <1>1, <2>0, Zenon DEF Config
    <2>2. \A p \in Programs : prog[p].pc # "write"
      BY <1>2, <2>1, Zenon DEF Truncated
    <2>3. EdgeSection(kept) => EdgeSection(file) /\ file.edge = kept.edge
      BY <2>1, <2>2, Zenon DEF FileKept
    <2>4. FitsEdge(kept, load(file))
      BY <1>3, <2>3, Zenon
    <2>5. Fitting(d, s, kept)
      BY <1>2, <1>7, <1>8, <2>4, Zenon DEF Fitting, Saving
    <2>6. TakesOn(s)
      <3>1. CASE then = "switch"
        <4>1. prog[d].pc = "up" /\ prog[d].runs # Missing
          BY <1>2, <3>1, Zenon DEF DaemonStage
        <4>2. due = prog[d].due
          BY <4>1, Zenon DEF due, Bound, Alive
        <4> QED BY <1>8, <2>1, <4>1, <4>2, Zenon DEF TakesOn
      <3>2. CASE then = "args"
        <4>1. prog[d].pc = "load" /\ prog[d].runs = Missing /\ prog[d].due = 0
          BY <1>2, <3>2, Zenon DEF DaemonStage
        <4>2. due # 0 => HasId(kept) /\ due = kept.edge.id
          BY <4>1, Zenon DEF due
        <4>3. due # 0 => load(file).id = due
          BY <1>4, <2>4, <4>2, Zenon DEF HasId, EdgeSection, FitsEdge
        <4> QED BY <1>3, <1>8, <4>1, <4>3, Zenon DEF TakesOn
      <3> QED BY <3>1, <3>2, Zenon
    <2> QED BY <2>5, <2>6, Zenon
  <1>12. /\ UNCHANGED <<file, socket>> /\ ids' \in Nat /\ ClisType'
    BY <1>1, <1>3, Zenon DEF load_or_create, Stages, ClisType
  <1>13. (s.pc = "up" \/ s.then \in {"switch", "up"}) =>
            prog[d].pc = "up" \/ prog[d].then \in {"switch", "up"}
    BY <1>7, <1>8, Zenon
  <1>14. prog[d].pc \notin {"write", "dead"} /\ s.pc # "write"
    BY <1>7, <1>8, Zenon
  <1>15. ~contended' => Fitting(d, s, kept) /\ (d \in Daemons => TakesOn(s))
    BY <1>11, Zenon
  <1> QED BY <1>1, <1>5, <1>8, <1>9, <1>10, <1>12, <1>13, <1>14, <1>15, WalkKeeps, Zenon

LEMMA LoadSupernodeKeeps ==
  ASSUME DaemonInv, LoadSupernode
  PROVE  DaemonInv'
  <1> DEFINE p == Supernode
             pc == IF file = Missing THEN "save" ELSE "up"
             s == [prog[Supernode] EXCEPT !.pc = pc, !.then = "up"]
  <1>1. Stages /\ p \in Programs /\ p \notin Daemons
    BY DaemonAssumption, Zenon DEF DaemonInv, Programs
  <1>2. prog[p] \in ProgRecords /\ SupernodeStage(prog[p]) /\ prog[p].pc = "load"
    BY <1>1, ProgFacts, Zenon DEF LoadSupernode
  <1>3. prog' = [prog EXCEPT ![p] = s]
    BY <1>1, Zenon DEF LoadSupernode, Stages
  <1>4. pc \in {"save", "up"}
    BY Zenon
  <1> HIDE DEF pc
  <1>5. /\ s \in ProgRecords /\ s.pc = pc /\ s.runs = prog[p].runs /\ s.then = "up"
        /\ s.shared = prog[p].shared
    BY <1>2, <1>4, Zenon DEF ProgRecords, Saving
  <1> HIDE DEF s
  <1>6. Staged(p, s)
    BY <1>2, <1>4, <1>5, Zenon DEF Staged, SupernodeStage, Saving
  <1>7. /\ kept' \in Sections /\ contended' \in BOOLEAN /\ (contended => contended')
        /\ ~contended' => kept' = kept
    <2>1. Keep(kept, Truncated(p)) /\ Truncated(p) \in BOOLEAN /\ kept \in Sections
      BY <1>1, Zenon DEF LoadSupernode, Truncated, Stages
    <2> QED BY <1>1, <2>1, KeepFacts, Zenon
  <1>8. Fitting(p, s, kept)
    BY <1>4, <1>5, Zenon DEF Fitting
  <1>9. UNCHANGED <<file, socket>> /\ ids' \in Nat /\ ClisType'
    BY <1>1, Zenon DEF LoadSupernode, Stages, ClisType
  <1>10. prog[p].pc \notin {"write", "dead"} /\ s.pc # "write"
    BY <1>2, <1>4, <1>5, Zenon
  <1> HIDE DEF p
  <1> QED BY <1>1, <1>3, <1>5, <1>6, <1>7, <1>8, <1>9, <1>10, WalkKeeps, Zenon

LEMMA SaveReadKeeps ==
  ASSUME DaemonInv, NEW p \in Programs, SaveRead(p)
  PROVE  DaemonInv'
  <1> DEFINE other == IF file = Missing THEN Missing
                       ELSE IF p # Supernode THEN file.supernode
                       ELSE IF EdgeSection(file) THEN load(file) ELSE Missing
             s == [prog[p] EXCEPT !.pc = "truncate", !.shared = other]
  <1>1. Stages /\ Guarded /\ Config /\ prog[p].pc = "save"
    BY Zenon DEF DaemonInv, SaveRead
  <1>2. /\ prog[p] \in ProgRecords
        /\ p \in Daemons => p # Supernode /\ DaemonStage(prog[p])
        /\ p \notin Daemons => p = Supernode /\ SupernodeStage(prog[p])
    BY <1>1, ProgFacts, Zenon
  <1>3. /\ load(file) \in Edges /\ Drawn(file) \in Nat
        /\ EdgeSection(kept) /\ EdgeSection(file) /\ file.edge = kept.edge
             => FitsEdge(kept, load(file))
    BY <1>1, LoadFacts, Zenon
  <1>4. prog' = [prog EXCEPT ![p] = s]
    BY <1>1, Zenon DEF SaveRead, Stages
  <1>5. /\ p \in Daemons => other \in {"section", Missing}
        /\ p \notin Daemons => other \in Edges \cup {Missing}
    BY <1>1, <1>2, <1>3, Zenon DEF Stages, Sections
  <1>6. kept \in Sections /\ kept # Missing /\ file \in Sections \cup {Missing}
    BY <1>1, DaemonAssumption, Zenon DEF Stages
  <1>7. /\ kept' \in Sections /\ contended' \in BOOLEAN /\ (contended => contended')
        /\ Truncated(p) => contended'
        /\ ~contended' => kept' = kept
    <2>1. Keep(kept, Truncated(p)) /\ Truncated(p) \in BOOLEAN
      BY Zenon DEF SaveRead, Truncated
    <2> QED BY <1>1, <1>6, <2>1, KeepFacts, Zenon
  <1>8. ASSUME ~contended'
        PROVE  /\ p \in Daemons => FitsSupernode(kept, other)
               /\ p \notin Daemons => FitsEdge(kept, other)
    <2>1. ~contended /\ ~Truncated(p)
      BY <1>7, <1>8, Zenon
    <2>2. FileKept
      BY <1>1, <2>1, Zenon DEF Config
    <2>3. \A q \in Programs : prog[q].pc # "write"
      BY <1>1, <2>1, Zenon DEF Truncated
    <2>4. /\ kept.supernode # Missing => file # Missing /\ file.supernode = kept.supernode
          /\ EdgeSection(kept) => EdgeSection(file) /\ file.edge = kept.edge
      BY <2>2, <2>3, Zenon DEF FileKept
    <2>5. p \in Daemons => FitsSupernode(kept, other)
      BY <1>2, <2>4, Zenon DEF FitsSupernode
    <2>6. ASSUME p \notin Daemons PROVE FitsEdge(kept, other)
      <3>1. CASE EdgeSection(kept)
        <4>1. other = load(file)
          BY <1>2, <2>4, <2>6, <3>1, Zenon DEF EdgeSection
        <4> QED BY <1>3, <2>4, <3>1, <4>1, Zenon
      <3>2. CASE ~EdgeSection(kept)
        BY <1>6, <3>2, Zenon DEF EdgeSection, FitsEdge
      <3> QED BY <3>1, <3>2, Zenon
    <2> QED BY <2>5, <2>6, Zenon
  <1> HIDE DEF other
  <1>9. /\ s \in ProgRecords /\ s.pc = "truncate" /\ s.runs = prog[p].runs
        /\ s.then = prog[p].then /\ s.due = prog[p].due /\ s.shared = other
        /\ s.conf = prog[p].conf
    BY <1>2, <1>5, Zenon DEF ProgRecords, Saving
  <1> HIDE DEF s
  <1>10. Staged(p, s)
    BY <1>1, <1>2, <1>5, <1>9, Zenon DEF Staged, SupernodeStage, DaemonStage, Saving
  <1>11. ~contended' => Fitting(p, s, kept) /\ (p \in Daemons => TakesOn(s))
    <2> SUFFICES ASSUME ~contended' PROVE Fitting(p, s, kept) /\ (p \in Daemons => TakesOn(s))
      BY Zenon
    <2>1. ~contended
      BY <1>7, Zenon
    <2>2. Fitting(p, prog[p], kept) /\ (p \in Daemons => TakesOn(prog[p]))
      BY <1>1, <2>1, Zenon DEF Config
    <2>3. Fitting(p, s, kept)
      BY <1>1, <1>2, <1>8, <1>9, <2>2, Zenon DEF Fitting, Saving
    <2>4. p \in Daemons => TakesOn(s)
      BY <1>1, <1>9, <2>2, Zenon DEF TakesOn
    <2> QED BY <2>3, <2>4, Zenon
  <1>12. UNCHANGED <<file, socket>> /\ ids' \in Nat /\ ClisType'
    BY <1>1, <1>3, Zenon DEF SaveRead, Stages, ClisType
  <1>13. prog[p].pc \notin {"write", "dead"} /\ s.pc # "write"
    BY <1>1, <1>9, Zenon
  <1>14. p \in Daemons /\ (s.pc = "up" \/ s.then \in {"switch", "up"}) =>
            prog[p].pc = "up" \/ prog[p].then \in {"switch", "up"}
    BY <1>9, Zenon
  <1> QED BY <1>4, <1>7, <1>9, <1>10, <1>11, <1>12, <1>13, <1>14, WalkKeeps, Zenon

(* From here on a writer is there, and the file need not hold what was kept. *)
LEMMA SaveTruncateKeeps ==
  ASSUME DaemonInv, NEW p \in Programs, SaveTruncate(p)
  PROVE  DaemonInv'
  <1> DEFINE s == [prog[p] EXCEPT !.pc = "write"]
  <1>1. Stages /\ Guarded /\ Config /\ prog[p].pc = "truncate"
    BY Zenon DEF DaemonInv, SaveTruncate
  <1>2. /\ prog[p] \in ProgRecords
        /\ p \in Daemons => p # Supernode /\ DaemonStage(prog[p])
        /\ p \notin Daemons => p = Supernode /\ SupernodeStage(prog[p])
    BY <1>1, ProgFacts, Zenon
  <1>3. /\ prog' = [prog EXCEPT ![p] = s] /\ file' = Empty
        /\ UNCHANGED <<socket, cli, ids, kept, contended>>
    BY Zenon DEF SaveTruncate, Go
  <1>4. /\ s \in ProgRecords /\ s.pc = "write" /\ s.runs = prog[p].runs
        /\ s.then = prog[p].then /\ s.due = prog[p].due /\ s.shared = prog[p].shared
        /\ s.conf = prog[p].conf
    BY <1>2, Zenon DEF ProgRecords, Saving
  <1> HIDE DEF s
  <1>5. Moves(p) /\ prog'[p] = s
    BY <1>1, <1>3, <1>4, UpdateFacts, Zenon
  <1>6. Staged(p, s)
    BY <1>1, <1>2, <1>4, Zenon DEF Staged, SupernodeStage, DaemonStage, Saving
  <1>7. Stages'
    <2>1. Empty \in Sections
      BY Zenon DEF Empty, Sections
    <2>2. ClisType'
      BY <1>1, <1>3, Zenon DEF Stages, ClisType
    <2> QED BY <1>1, <1>3, <1>5, <1>6, <2>1, <2>2, StagesKept, Zenon DEF Stages
  <1>8. Guarded'
    <2>1. p \in Daemons /\ Floating(p) => Floating(p)'
      BY <1>4, <1>5, Zenon DEF Floating
    <2>2. p \in Daemons /\ Bound(p)' => Bound(p)
      BY <1>1, <1>4, <1>5, Zenon DEF Bound, Alive
    <2>3. p \in Daemons /\ Up(p)' => Up(p)
      BY <1>1, <1>4, <1>5, Zenon DEF Up, Alive
    <2> QED BY <1>1, <1>3, <1>5, <2>1, <2>2, <2>3, GuardKept, Zenon
  <1>9. Config'
    <2> SUFFICES ASSUME ~contended
                 PROVE  /\ FileKept'
                        /\ \A q \in Programs : Fitting(q, prog'[q], kept)
                        /\ \A d \in Daemons : TakesOn(prog'[d])
      BY <1>3, Zenon DEF Config
    <2>1. FileKept'
      BY <1>4, <1>5, Zenon DEF FileKept
    <2>2. /\ \A q \in Programs : Fitting(q, prog[q], kept)
          /\ \A d \in Daemons : TakesOn(prog[d])
      BY <1>1, Zenon DEF Config
    <2>3. Fitting(p, s, kept)
      BY <1>1, <1>4, <2>2, Zenon DEF Fitting, Saving
    <2>4. p \in Daemons => TakesOn(s)
      BY <1>1, <1>4, <2>2, Zenon DEF TakesOn
    <2> QED BY <1>5, <2>1, <2>2, <2>3, <2>4, Zenon DEF Moves, Programs
  <1> QED BY <1>7, <1>8, <1>9, Zenon DEF DaemonInv

(* The file is filled: with what was kept, if nobody else was at it. *)
LEMMA SaveWriteKeeps ==
  ASSUME DaemonInv, NEW p \in Programs, SaveWrite(p)
  PROVE  DaemonInv'
  <1> DEFINE conf == IF prog[p].then = "up" THEN Missing ELSE prog[p].conf
             s == [prog[p] EXCEPT !.pc = prog[p].then, !.shared = Missing, !.conf = conf]
             m == Merged(p)
             k == Remembered(m)
             Others == \E q \in Programs \ {p} :
                          prog[q].pc \in {"args", "switch", "save", "truncate", "write"}
  <1>1. Stages /\ Guarded /\ Config /\ prog[p].pc = "write"
    BY Zenon DEF DaemonInv, SaveWrite
  <1>2. /\ prog[p] \in ProgRecords
        /\ p \in Daemons => p # Supernode /\ DaemonStage(prog[p])
        /\ p \notin Daemons => p = Supernode /\ SupernodeStage(prog[p])
    BY <1>1, ProgFacts, Zenon
  <1>3. kept \in Sections /\ kept # Missing
    BY <1>1, DaemonAssumption, Zenon DEF Stages
  <1>4. m \in Sections /\ m # Missing
    <2>1. CASE p \in Daemons
      <3>1. prog[p].conf \in Edges \cup {Missing} /\ prog[p].shared \in {"section", Missing}
        BY <1>2, <2>1, Zenon DEF ProgRecords, DaemonStage
      <3> QED BY <1>2, <2>1, <3>1, DaemonAssumption DEF Merged, Sections
    <2>2. CASE p \notin Daemons
      <3>1. prog[p].shared \in Edges \cup {Missing}
        BY <1>2, <2>2, Zenon DEF SupernodeStage
      <3> QED BY <1>2, <2>2, <3>1, DaemonAssumption DEF Merged, Sections
    <2> QED BY <2>1, <2>2, Zenon
  <1>5. prog' = [prog EXCEPT ![p] = s]
    BY <1>1, Zenon DEF SaveWrite, Stages
  <1>6. file' = m /\ Keep(k, Others) /\ UNCHANGED <<socket, cli, ids>>
    BY Zenon DEF SaveWrite
  <1>7. conf \in Edges \cup {Missing} /\ (prog[p].then # "up" => conf = prog[p].conf)
    BY <1>2, Zenon DEF ProgRecords
  <1> HIDE DEF conf
  <1>8. /\ s \in ProgRecords /\ s.pc = prog[p].then /\ s.runs = prog[p].runs
        /\ s.then = prog[p].then /\ s.due = prog[p].due /\ s.shared = Missing /\ s.conf = conf
    BY <1>2, <1>7, Zenon DEF ProgRecords, Saving
  <1> HIDE DEF s
  <1>9. Moves(p) /\ prog'[p] = s
    BY <1>1, <1>5, <1>8, UpdateFacts, Zenon
  <1>10. Staged(p, s)
    BY <1>1, <1>2, <1>7, <1>8, Zenon DEF Staged, SupernodeStage, DaemonStage, Saving
  <1>11. k \in Sections
    <2>1. kept.edge \in Edges \cup {Missing} /\ kept.supernode \in {"section", Missing}
      BY <1>3, Zenon DEF Sections
    <2>2. m.edge \in Edges \cup {Missing} /\ m.supernode \in {"section", Missing}
      BY <1>4, Zenon DEF Sections
    <2> HIDE DEF m
    <2>3. EdgeSection(kept) /\ EdgeSection(m) => [kept.edge EXCEPT !.id = m.edge.id] \in Edges
      BY <2>1, <2>2, Zenon DEF EdgeSection, Edges
    <2> DEFINE e == IF HasId(kept) THEN kept.edge
                    ELSE IF EdgeSection(kept) /\ EdgeSection(m)
                         THEN [kept.edge EXCEPT !.id = m.edge.id]
                    ELSE IF EdgeSection(kept) THEN kept.edge ELSE m.edge
               n == IF kept.supernode # Missing THEN kept.supernode ELSE m.supernode
    <2>4. e \in Edges \cup {Missing} /\ n \in {"section", Missing}
      BY <2>1, <2>2, <2>3, Zenon
    <2>5. k = [edge |-> e, supernode |-> n]
      BY Zenon DEF Remembered
    <2> HIDE DEF e, n
    <2> QED BY <2>4, <2>5 DEF Sections
  <1>12. /\ kept' \in Sections /\ contended' \in BOOLEAN /\ (contended => contended')
         /\ Others => contended'
         /\ ~contended' => kept' = k
    <2>1. Others \in BOOLEAN
      BY Zenon
    <2> HIDE DEF k, Others
    <2> QED BY <1>1, <1>6, <1>11, <2>1, KeepFacts, Zenon
  <1>13. Stages'
    <2>1. ClisType'
      BY <1>1, <1>6, Zenon DEF Stages, ClisType
    <2> HIDE DEF m, k, Others
    <2>2. file' \in Sections \cup {Missing} /\ ids' \in Nat /\ socket' \in Daemons \cup {Missing}
      BY <1>1, <1>4, <1>6, Zenon DEF Stages
    <2> QED BY <1>1, <1>9, <1>10, <1>12, <2>1, <2>2, StagesKept, Zenon
  <1>14. Guarded'
    <2>1. p \in Daemons /\ Floating(p) => Floating(p)'
      BY <1>8, <1>9, Zenon DEF Floating
    <2>2. p \in Daemons /\ Bound(p)' => Bound(p)
      BY <1>1, <1>8, <1>9, Zenon DEF Bound, Alive
    <2>3. p \in Daemons /\ Up(p)' => Up(p)
      BY <1>1, <1>2, <1>8, <1>9, Zenon DEF Up, Alive, DaemonStage, Saving
    <2> QED BY <1>1, <1>6, <1>9, <2>1, <2>2, <2>3, GuardKept, Zenon
  <1>15. Config'
    <2> SUFFICES ASSUME ~contended'
                 PROVE  /\ FileKept'
                        /\ \A q \in Programs : Fitting(q, prog'[q], kept')
                        /\ \A d \in Daemons : TakesOn(prog'[d])
      BY Zenon DEF Config
    <2>1. ~contended /\ ~Others /\ kept' = k
      BY <1>12, Zenon
    <2>2. /\ \A q \in Programs : Fitting(q, prog[q], kept)
          /\ \A d \in Daemons : TakesOn(prog[d])
      BY <1>1, <2>1, Zenon DEF Config
    <2>3. FitsEdge(kept, m.edge) /\ FitsSupernode(kept, m.supernode)
      <3>1. CASE p \in Daemons
        <4>1. m.edge = prog[p].conf /\ m.supernode = prog[p].shared
          BY <1>2, <3>1, Zenon DEF Merged
        <4> QED BY <1>1, <1>2, <2>2, <3>1, <4>1, Zenon DEF Fitting, Saving
      <3>2. CASE p \notin Daemons
        <4>1. m.edge = prog[p].shared /\ m.supernode = "section"
          BY <1>2, <3>2, Zenon DEF Merged
        <4>2. FitsSupernode(kept, "section")
          BY <1>3, Zenon DEF FitsSupernode, Sections
        <4> QED BY <1>1, <1>2, <2>2, <3>2, <4>1, <4>2, Zenon DEF Fitting, Saving
      <3> QED BY <3>1, <3>2, Zenon
    <2>4. k.edge = m.edge /\ k.supernode = m.supernode
      <3>1. m.edge \in Edges \cup {Missing} /\ kept.edge \in Edges \cup {Missing}
        BY <1>3, <1>4, Zenon DEF Sections
      <3> HIDE DEF m
      <3>2. k.supernode = m.supernode
        BY <2>3, Zenon DEF Remembered, FitsSupernode
      <3>3. CASE kept.edge = Missing
        BY <1>3, <3>2, <3>3, Zenon DEF Remembered, HasId, EdgeSection
      <3>4. CASE kept.edge # Missing
        <4>1. /\ m.edge \in Edges /\ kept.edge \in Edges /\ m.edge.port = kept.edge.port
              /\ kept.edge.id # 0 => m.edge.id = kept.edge.id
          BY <2>3, <3>1, <3>4, Zenon DEF FitsEdge
        <4>2. m.edge # Missing /\ EdgeSection(m) /\ EdgeSection(kept)
          BY <1>3, <1>4, <4>1, DaemonAssumption, Zenon DEF EdgeSection
        <4>3. CASE kept.edge.id # 0
          <5>1. m.edge = kept.edge
            BY <4>1, <4>3 DEF Edges
          <5> QED BY <3>2, <4>2, <4>3, <5>1, Zenon DEF Remembered, HasId
        <4>4. CASE kept.edge.id = 0
          <5>1. [kept.edge EXCEPT !.id = m.edge.id] = m.edge
            BY <4>1, Zenon DEF Edges
          <5> QED BY <3>2, <4>2, <4>4, <5>1, Zenon DEF Remembered, HasId
        <4> QED BY <4>3, <4>4, Zenon
      <3> QED BY <3>2, <3>3, <3>4, Zenon
    <2>5. FileKept'
      <3> HIDE DEF m, k
      <3>1. file' = m /\ kept' = k
        BY <1>6, <2>1, Zenon
      <3> QED BY <1>3, <1>4, <1>11, <2>4, <3>1, DaemonAssumption, Zenon DEF FileKept, EdgeSection
    <2>6. ASSUME NEW q \in Programs PROVE Fitting(q, prog'[q], kept')
      <3>1. CASE q # p
        <4>1. prog'[q] = prog[q] /\ prog[q].pc \notin {"args", "switch", "save", "truncate", "write"}
          BY <1>9, <2>1, <3>1, Zenon DEF Moves
        <4> QED BY <4>1, Zenon DEF Fitting, Saving
      <3>2. CASE q = p /\ p \notin Daemons
        BY <1>1, <1>2, <1>8, <1>9, <3>2, Zenon DEF Fitting, SupernodeStage, Saving
      <3>3. CASE q = p /\ p \in Daemons
        <4>1. s.pc \in {"args", "bind", "switch", "up"} /\ (s.pc # "up" => s.conf = prog[p].conf)
          BY <1>1, <1>2, <1>7, <1>8, <3>3, Zenon DEF DaemonStage, Saving
        <4>2. k.edge = prog[p].conf
          BY <1>2, <2>4, <3>3, Zenon DEF Merged
        <4> HIDE DEF k, m
        <4>3. FitsEdge(k, prog[p].conf)
          BY <4>2, Zenon DEF FitsEdge
        <4> QED BY <1>2, <1>9, <2>1, <3>3, <4>1, <4>3, Zenon DEF Fitting, Saving
      <3> QED BY <3>1, <3>2, <3>3, Zenon
    <2>7. ASSUME NEW d \in Daemons PROVE TakesOn(prog'[d])
      <3>1. CASE d # p
        BY <1>9, <2>2, <3>1, Zenon DEF Moves, Programs
      <3>2. CASE d = p
        BY <1>1, <1>2, <1>7, <1>8, <1>9, <2>2, <3>2, Zenon DEF TakesOn, DaemonStage, Saving
      <3> QED BY <3>1, <3>2, Zenon
    <2> QED BY <2>5, <2>6, <2>7, Zenon
  <1> QED BY <1>13, <1>14, <1>15, Zenon DEF DaemonInv

(* Args and SwitchSave: a daemon goes on, to a save or without one. *)
LEMMA OnwardKeeps ==
  ASSUME DaemonInv, NEW d \in Daemons, NEW s \in ProgRecords, prog' = [prog EXCEPT ![d] = s],
         s.runs = prog[d].runs, s.due = prog[d].due, s.shared = prog[d].shared,
         \/ /\ prog[d].pc = "args" /\ s.conf = prog[d].conf
            /\ s.pc \in {"save", "bind"} /\ s.then = "bind"
         \/ /\ prog[d].pc = "switch" /\ s.pc = "save" /\ s.then = "up" /\ s.conf = prog[d].conf
         \/ /\ prog[d].pc = "switch" /\ s.pc = "up" /\ s.then = "up" /\ s.conf = Missing,
         UNCHANGED <<file, socket, cli, ids, kept, contended>>
  PROVE  DaemonInv'
  <1>1. Stages /\ Config /\ d \in Programs
    BY Zenon DEF DaemonInv, Programs
  <1>2. d # Supernode /\ DaemonStage(prog[d])
    BY <1>1, ProgFacts, Zenon
  <1>3. Staged(d, s)
    BY <1>2, Zenon DEF Staged, DaemonStage, Saving
  <1>4. ~contended' => Fitting(d, s, kept) /\ (d \in Daemons => TakesOn(s))
    <2> SUFFICES ASSUME ~contended PROVE Fitting(d, s, kept) /\ TakesOn(s)
      BY Zenon
    <2>1. Fitting(d, prog[d], kept) /\ TakesOn(prog[d])
      BY <1>1, Zenon DEF Config
    <2>2. Fitting(d, s, kept)
      BY <1>2, <2>1, Zenon DEF Fitting, Saving
    <2>3. TakesOn(s)
      BY <1>2, <2>1, Zenon DEF TakesOn, DaemonStage
    <2> QED BY <2>2, <2>3, Zenon
  <1>5. /\ UNCHANGED <<file, socket>> /\ ids' \in Nat /\ ClisType'
        /\ kept' \in Sections /\ contended' \in BOOLEAN /\ (contended => contended')
        /\ (~contended' => kept' = kept)
    BY <1>1, Zenon DEF Stages, ClisType
  <1>6. /\ prog[d].pc \notin {"write", "dead"} /\ s.pc # "write"
        /\ d \in Daemons /\ (s.pc = "up" \/ s.then \in {"switch", "up"}) =>
             prog[d].pc = "up" \/ prog[d].then \in {"switch", "up"}
    BY <1>2, Zenon DEF DaemonStage
  <1> QED BY <1>1, <1>3, <1>4, <1>5, <1>6, WalkKeeps, Zenon

LEMMA ArgsKeeps ==
  ASSUME DaemonInv, NEW d \in Daemons, Args(d)
  PROVE  DaemonInv'
  <1>1. Stages /\ d \in Programs /\ prog[d] \in ProgRecords
    BY ProgFacts, Zenon DEF DaemonInv, Programs
  <1>2. PICK pc \in {"save", "bind"} : prog' = [prog EXCEPT ![d].pc = pc, ![d].then = "bind"]
    BY Zenon DEF Args
  <1> DEFINE s == [prog[d] EXCEPT !.pc = pc, !.then = "bind"]
  <1>3. prog' = [prog EXCEPT ![d] = s]
    BY <1>1, <1>2, Zenon DEF Stages
  <1>4. /\ s \in ProgRecords /\ s.pc = pc /\ s.then = "bind" /\ s.conf = prog[d].conf
        /\ s.runs = prog[d].runs /\ s.due = prog[d].due /\ s.shared = prog[d].shared
    BY <1>1, Zenon DEF ProgRecords, Saving
  <1>5. prog[d].pc = "args" /\ UNCHANGED <<file, socket, cli, ids, kept, contended>>
    BY Zenon DEF Args
  <1> HIDE DEF s
  <1> QED BY <1>3, <1>4, <1>5, OnwardKeeps, Zenon

LEMMA SwitchSaveKeeps ==
  ASSUME DaemonInv, NEW d \in Daemons, SwitchSave(d)
  PROVE  DaemonInv'
  <1>1. Stages /\ d \in Programs /\ prog[d] \in ProgRecords
    BY ProgFacts, Zenon DEF DaemonInv, Programs
  <1>2. prog[d].pc = "switch" /\ UNCHANGED <<file, socket, cli, ids, kept, contended>>
    BY Zenon DEF SwitchSave
  <1>3. CASE prog' = [prog EXCEPT ![d].pc = "save", ![d].then = "up"]
    <2> DEFINE s == [prog[d] EXCEPT !.pc = "save", !.then = "up"]
    <2>1. prog' = [prog EXCEPT ![d] = s]
      BY <1>1, <1>3, Zenon DEF Stages
    <2>2. /\ s \in ProgRecords /\ s.pc = "save" /\ s.then = "up" /\ s.conf = prog[d].conf
          /\ s.runs = prog[d].runs /\ s.due = prog[d].due /\ s.shared = prog[d].shared
      BY <1>1, Zenon DEF ProgRecords, Saving
    <2> HIDE DEF s
    <2> QED BY <1>2, <2>1, <2>2, OnwardKeeps, Zenon
  <1>4. CASE prog' = [prog EXCEPT ![d].pc = "up", ![d].then = "up", ![d].conf = Missing]
    <2> DEFINE s == [prog[d] EXCEPT !.pc = "up", !.then = "up", !.conf = Missing]
    <2>1. prog' = [prog EXCEPT ![d] = s]
      BY <1>1, <1>4, Zenon DEF Stages
    <2>2. /\ s \in ProgRecords /\ s.pc = "up" /\ s.then = "up" /\ s.conf = Missing
          /\ s.runs = prog[d].runs /\ s.due = prog[d].due /\ s.shared = prog[d].shared
      BY <1>1, Zenon DEF ProgRecords, Saving
    <2> HIDE DEF s
    <2> QED BY <1>2, <2>1, <2>2, OnwardKeeps, Zenon
  <1> QED BY <1>3, <1>4, Zenon DEF SwitchSave

(* A daemon of which the port is taken ends; otherwise nobody else has one, or some port floats. *)
LEMMA BindKeeps ==
  ASSUME DaemonInv, NEW d \in Daemons, bind(d)
  PROVE  DaemonInv'
  <1>1. Stages /\ Guarded /\ Config /\ d \in Programs /\ prog[d].pc = "bind"
    BY Zenon DEF DaemonInv, Programs, bind
  <1>2. prog[d] \in ProgRecords /\ d # Supernode /\ DaemonStage(prog[d])
    BY <1>1, ProgFacts, Zenon
  <1>3. /\ UNCHANGED <<file, socket, cli, ids, kept, contended>>
        /\ kept' \in Sections /\ contended' \in BOOLEAN /\ ClisType'
    BY <1>1, Zenon DEF bind, Stages, ClisType
  <1>4. CASE PortTaken(d)
    <2>1. prog' = Dead(d) /\ prog[d].pc # "write"
      BY <1>1, <1>4, Zenon DEF bind
    <2> QED BY <1>1, <1>3, <2>1, EndKeeps, Zenon
  <1>5. CASE ~PortTaken(d)
    <2> DEFINE s == [prog[d] EXCEPT !.pc = "unlink", !.runs = prog[d].conf, !.conf = Missing]
    <2>1. prog' = [prog EXCEPT ![d] = s]
      BY <1>1, <1>5, Zenon DEF bind, Stages
    <2>2. prog[d].conf \in Edges /\ prog[d].conf # Missing /\ prog[d].runs = Missing
          /\ prog[d].then \notin {"switch", "up"}
      BY <1>1, <1>2, Zenon DEF DaemonStage, ProgRecords
    <2>3. /\ s \in ProgRecords /\ s.pc = "unlink" /\ s.then = prog[d].then /\ s.conf = Missing
          /\ s.runs = prog[d].conf /\ s.due = prog[d].due /\ s.shared = prog[d].shared
      BY <1>2, <2>2, Zenon DEF ProgRecords, Saving
    <2> HIDE DEF s
    <2>4. Moves(d) /\ prog'[d] = s
      BY <1>1, <2>1, <2>3, UpdateFacts, Zenon
    <2>5. Staged(d, s)
      BY <1>1, <1>2, <2>2, <2>3, Zenon DEF Staged, DaemonStage, Saving
    <2>6. Stages'
      BY <1>1, <1>3, <2>4, <2>5, StagesKept, Zenon DEF Stages
    <2>7. Guarded'
      <3> SUFFICES ASSUME \A e \in Daemons : ~Floating(e)'
                   PROVE  /\ \A e, g \in Daemons : Bound(e)' /\ Bound(g)' => e = g
                          /\ \A e \in Daemons : Up(e)' => socket' = e
        BY Zenon DEF Guarded
      <3>1. prog[d].conf.port = "fixed"
        <4>1. prog[d].conf.port # "any"
          BY <2>2, <2>3, <2>4, Zenon DEF Floating
        <4> QED BY <2>2, <4>1, Zenon DEF Edges
      <3>2. ASSUME NEW e \in Daemons, e # d PROVE ~Bound(e)'
        <4>1. prog'[e] = prog[e] /\ e \in Programs
          BY <2>4, <3>2, Zenon DEF Moves, Programs
        <4>2. prog[e].runs \in Edges \cup {Missing}
          BY <1>1, <4>1, ProgFacts, Zenon DEF ProgRecords
        <4>3. ~(Bound(e) /\ prog[e].runs.port = "fixed")
          BY <1>5, <3>1, Zenon DEF PortTaken
        <4>4. prog[e].runs # Missing => prog[e].runs.port # "any"
          BY <4>1, Zenon DEF Floating
        <4>5. ~Bound(e)
          <5> SUFFICES ASSUME Bound(e) PROVE FALSE
            BY Zenon
          <5>1. prog[e].runs \in Edges /\ prog[e].runs.port # "any"
            BY <4>2, <4>4, Zenon DEF Bound
          <5>2. prog[e].runs.port = "fixed"
            BY <5>1, Zenon DEF Edges
          <5> QED BY <4>3, <5>2, Zenon
        <4> QED BY <4>1, <4>5, Zenon DEF Bound, Alive
      <3>3. ASSUME NEW e \in Daemons PROVE ~Up(e)'
        <4>1. CASE e = d
          BY <2>2, <2>3, <2>4, <4>1, Zenon DEF Up
        <4>2. CASE e # d
          <5>1. Staged(e, prog'[e]) /\ e # Supernode
            BY <2>6, DaemonAssumption, Zenon DEF Stages, Programs
          <5>2. DaemonStage(prog'[e]) /\ prog'[e] \in ProgRecords
            BY <5>1, Zenon DEF Staged
          <5>3. Up(e)' => Bound(e)'
            BY <5>2, Zenon DEF Up, Bound, Alive, DaemonStage, ProgRecords, Saving
          <5> QED BY <3>2, <4>2, <5>3, Zenon
        <4> QED BY <4>1, <4>2, Zenon
      <3> QED BY <3>2, <3>3, Zenon
    <2>8. Config'
      <3>1. ~contended' => /\ UNCHANGED <<file, kept>>
                           /\ prog[d].pc # "write" /\ prog'[d].pc # "write"
                           /\ Fitting(d, prog'[d], kept)
                           /\ d \in Daemons => TakesOn(prog'[d])
        <4> SUFFICES ASSUME ~contended PROVE Fitting(d, s, kept) /\ TakesOn(s)
          BY <1>1, <1>3, <2>3, <2>4, Zenon
        <4>1. TakesOn(prog[d])
          BY <1>1, Zenon DEF Config
        <4>2. TakesOn(s)
          BY <1>1, <2>2, <2>3, <4>1, Zenon DEF TakesOn
        <4> QED BY <1>2, <2>3, <4>2, Zenon DEF Fitting, Saving
      <3> QED BY <1>1, <1>3, <2>4, <3>1, ConfigKept, Zenon
    <2> QED BY <2>6, <2>7, <2>8, Zenon DEF DaemonInv
  <1> QED BY <1>4, <1>5, Zenon

(* Only a daemon that has its UDP socket touches the IPC socket. *)
LEMMA SocketKeeps ==
  ASSUME DaemonInv, NEW d \in Daemons, NEW s \in ProgRecords, prog' = [prog EXCEPT ![d] = s],
         prog[d].pc \in {"unlink", "listen"},
         \/ s.pc = "listen" /\ s.then = prog[d].then /\ socket' = Missing
         \/ s.pc = "up" /\ s.then = "up" /\ socket' = d,
         s.conf = prog[d].conf, s.runs = prog[d].runs, s.due = prog[d].due,
         s.shared = prog[d].shared, UNCHANGED <<file, cli, ids, kept, contended>>
  PROVE  DaemonInv'
  <1>1. Stages /\ Guarded /\ Config /\ d \in Programs
    BY Zenon DEF DaemonInv, Programs
  <1>2. prog[d] \in ProgRecords /\ d # Supernode /\ DaemonStage(prog[d])
    BY <1>1, ProgFacts, Zenon
  <1>3. Moves(d) /\ prog'[d] = s
    BY <1>1, UpdateFacts, Zenon
  <1>4. Staged(d, s)
    BY <1>2, Zenon DEF Staged, DaemonStage, Saving
  <1>5. Stages'
    <2>1. ClisType'
      BY <1>1, Zenon DEF Stages, ClisType
    <2> QED BY <1>1, <1>3, <1>4, <2>1, StagesKept, Zenon DEF Stages
  <1>6. Guarded'
    <2> SUFFICES ASSUME \A e \in Daemons : ~Floating(e)'
                 PROVE  /\ \A e, g \in Daemons : Bound(e)' /\ Bound(g)' => e = g
                        /\ \A e \in Daemons : Up(e)' => socket' = e
      BY Zenon DEF Guarded
    <2>1. \A e \in Daemons : prog'[e].runs = prog[e].runs /\ (Bound(e)' <=> Bound(e))
      BY <1>2, <1>3, Zenon DEF Moves, Bound, Alive, Programs
    <2>2. \A e \in Daemons : ~Floating(e)
      BY <2>1, Zenon DEF Floating
    <2>3. \A e, g \in Daemons : Bound(e) /\ Bound(g) => e = g
      BY <1>1, <2>2, Zenon DEF Guarded
    <2>4. Bound(d)
      BY <1>2, Zenon DEF Bound, Alive, DaemonStage
    <2>5. ASSUME NEW e \in Daemons, Up(e)' PROVE socket' = e
      <3>1. Staged(e, prog'[e]) /\ e # Supernode
        BY <1>5, DaemonAssumption, Zenon DEF Stages, Programs
      <3>2. DaemonStage(prog'[e]) /\ prog'[e] \in ProgRecords
        BY <3>1, Zenon DEF Staged
      <3>3. Bound(e)'
        BY <2>5, <3>2, Zenon DEF Up, Bound, Alive, DaemonStage, ProgRecords, Saving
      <3>4. e = d
        BY <2>1, <2>3, <2>4, <3>3, Zenon
      <3> QED BY <1>2, <1>3, <2>5, <3>4, Zenon DEF Up, DaemonStage
    <2> QED BY <2>1, <2>3, <2>5, Zenon
  <1>7. Config'
    <2>1. ~contended' => /\ UNCHANGED <<file, kept>>
                         /\ prog[d].pc # "write" /\ prog'[d].pc # "write"
                         /\ Fitting(d, prog'[d], kept)
                         /\ d \in Daemons => TakesOn(prog'[d])
      <3> SUFFICES ASSUME ~contended PROVE Fitting(d, s, kept) /\ TakesOn(s)
        BY <1>3, Zenon
      <3>1. TakesOn(prog[d])
        BY <1>1, Zenon DEF Config
      <3>2. TakesOn(s)
        BY <1>2, <3>1, Zenon DEF TakesOn, DaemonStage
      <3> QED BY <1>2, <3>2, Zenon DEF Fitting, Saving
    <2> QED BY <1>1, <1>3, <2>1, ConfigKept, Zenon
  <1> QED BY <1>5, <1>6, <1>7, Zenon DEF DaemonInv

LEMMA UnlinkKeeps ==
  ASSUME DaemonInv, NEW d \in Daemons, Unlink(d)
  PROVE  DaemonInv'
  <1> DEFINE s == [prog[d] EXCEPT !.pc = "listen"]
  <1>1. Stages /\ d \in Programs /\ prog[d] \in ProgRecords
    BY ProgFacts, Zenon DEF DaemonInv, Programs
  <1>2. /\ prog' = [prog EXCEPT ![d] = s] /\ socket' = Missing /\ prog[d].pc = "unlink"
        /\ UNCHANGED <<file, cli, ids, kept, contended>>
    BY Zenon DEF Unlink, Go
  <1>3. /\ s \in ProgRecords /\ s.pc = "listen" /\ s.then = prog[d].then /\ s.conf = prog[d].conf
        /\ s.runs = prog[d].runs /\ s.due = prog[d].due /\ s.shared = prog[d].shared
    BY <1>1, Zenon DEF ProgRecords, Saving
  <1> HIDE DEF s
  <1> QED BY <1>2, <1>3, SocketKeeps, Zenon

LEMMA ListenKeeps ==
  ASSUME DaemonInv, NEW d \in Daemons, Listen(d)
  PROVE  DaemonInv'
  <1>1. Stages /\ d \in Programs /\ prog[d] \in ProgRecords /\ prog[d].pc = "listen"
    BY ProgFacts, Zenon DEF DaemonInv, Programs, Listen
  <1>2. UNCHANGED <<file, cli, ids, kept, contended>>
    BY Zenon DEF Listen
  <1>3. CASE socket = Missing
    <2> DEFINE s == [prog[d] EXCEPT !.pc = "up", !.then = "up"]
    <2>1. prog' = [prog EXCEPT ![d] = s] /\ socket' = d
      BY <1>1, <1>3, Zenon DEF Listen, Stages
    <2>2. /\ s \in ProgRecords /\ s.pc = "up" /\ s.then = "up" /\ s.conf = prog[d].conf
          /\ s.runs = prog[d].runs /\ s.due = prog[d].due /\ s.shared = prog[d].shared
      BY <1>1, Zenon DEF ProgRecords, Saving
    <2> HIDE DEF s
    <2> QED BY <1>1, <1>2, <2>1, <2>2, SocketKeeps, Zenon
  <1>4. CASE socket # Missing
    <2>1. prog' = Dead(d) /\ UNCHANGED <<file, socket, ids>> /\ prog[d].pc # "write"
      BY <1>1, <1>4, Zenon DEF Listen
    <2>2. kept' \in Sections /\ contended' \in BOOLEAN /\ ClisType'
      BY <1>1, <1>2, Zenon DEF Stages, ClisType
    <2> QED BY <1>1, <1>2, <2>1, <2>2, EndKeeps, Zenon
  <1> QED BY <1>3, <1>4, Zenon

LEMMA EndedKeeps ==
  ASSUME DaemonInv, NEW p \in Programs, Ended(p), UNCHANGED <<file, socket, ids>>, ClisType'
  PROVE  DaemonInv'
  <1>1. Stages /\ kept \in Sections
    BY Zenon DEF DaemonInv, Stages
  <1>2. /\ kept' \in Sections /\ contended' \in BOOLEAN /\ (contended => contended')
        /\ (prog[p].pc = "write" => contended')
        /\ (~contended' => kept' = kept)
    <2>1. Keep(kept, prog[p].pc = "write") /\ (prog[p].pc = "write") \in BOOLEAN
      BY Zenon DEF Ended
    <2> QED BY <1>1, <2>1, KeepFacts, Zenon
  <1>3. prog' = Dead(p)
    BY Zenon DEF Ended
  <1> QED BY <1>2, <1>3, EndKeeps, Zenon

(* A command line client does nothing but to spawn a daemon, or to end one. *)
LEMMA ClientKeeps ==
  ASSUME DaemonInv, NEW c \in Clis, Connect(c) \/ Poll(c) \/ AnswerCli(c)
  PROVE  DaemonInv'
  <1>1. Stages /\ ClisType
    BY Zenon DEF DaemonInv, Stages
  <1>2. ASSUME NEW stage \in {"idle", "boot", "sent", "done"}, NEW d \in Daemons \cup {Missing},
               stage = "sent" => d \in Daemons, Stage(c, stage, d)
        PROVE  ClisType'
    BY <1>1, <1>2, Zenon DEF Stage, ClisType
  <1>3. Listening => socket \in Daemons
    BY <1>1, Zenon DEF Listening, Stages
  <1>4. ClisType'
    <2>1. CASE Connect(c)
      BY <1>2, <1>3, <2>1, Zenon DEF Connect
    <2>2. CASE Poll(c)
      BY <1>2, <1>3, <2>2, Zenon DEF Poll
    <2>3. CASE AnswerCli(c)
      BY <1>2, <2>3, Zenon DEF AnswerCli
    <2> QED BY <2>1, <2>2, <2>3, Zenon
  <1>5. ASSUME UNCHANGED <<file, prog, socket, ids, kept, contended>> PROVE DaemonInv'
    <2>1. Stages'
      BY <1>1, <1>4, <1>5, Zenon DEF Stages
    <2>2. Guarded'
      BY <1>5, Zenon DEF DaemonInv, Guarded, Floating, Bound, Up, Alive
    <2>3. Config'
      BY <1>5, Zenon DEF DaemonInv, Config, FileKept, EdgeSection
    <2> QED BY <2>1, <2>2, <2>3, Zenon DEF DaemonInv
  <1>6. CASE Connect(c)
    <2>1. UNCHANGED <<file, socket, ids, kept, contended>>
      BY <1>6, Zenon DEF Connect
    <2>2. CASE UNCHANGED prog
      BY <1>5, <2>1, <2>2, Zenon
    <2>3. ASSUME NEW d \in Daemons, prog[d].pc = "off", Go(d, "load") PROVE DaemonInv'
      BY <1>4, <2>1, <2>3, StartKeeps, Zenon DEF Programs
    <2> QED BY <1>6, <2>2, <2>3, Zenon DEF Connect
  <1>7. CASE Poll(c)
    BY <1>5, <1>7, Zenon DEF Poll
  <1>8. CASE AnswerCli(c)
    <2>1. UNCHANGED <<file, socket, ids>> /\ cli[c].daemon \in Programs
      BY <1>1, <1>8, Zenon DEF AnswerCli, ClisType, Programs
    <2>2. CASE UNCHANGED <<prog, kept, contended>>
      BY <1>5, <2>1, <2>2, Zenon
    <2>3. CASE Ended(cli[c].daemon)
      BY <1>4, <2>1, <2>3, EndedKeeps, Zenon
    <2> QED BY <1>8, <2>2, <2>3, Zenon DEF AnswerCli
  <1> QED BY <1>6, <1>7, <1>8, Zenon

(* Every step of every program and client keeps the invariant. *)
LEMMA DaemonInductive == DaemonInv /\ [DaemonNext]_daemon_vars => DaemonInv'
  <1> SUFFICES ASSUME DaemonInv, [DaemonNext]_daemon_vars PROVE DaemonInv'
    BY Zenon
  <1>1. ClisType
    BY Zenon DEF DaemonInv, Stages
  <1>2. ASSUME NEW p \in Programs, Start(p) PROVE DaemonInv'
    BY <1>1, <1>2, StartKeeps, Zenon DEF Start, ClisType
  <1>3. ASSUME NEW p \in Programs, SaveRead(p) PROVE DaemonInv'
    BY <1>3, SaveReadKeeps, Zenon
  <1>4. ASSUME NEW p \in Programs, SaveTruncate(p) PROVE DaemonInv'
    BY <1>4, SaveTruncateKeeps, Zenon
  <1>5. ASSUME NEW p \in Programs, SaveWrite(p) PROVE DaemonInv'
    BY <1>5, SaveWriteKeeps, Zenon
  <1>6. ASSUME NEW p \in Programs, Exit(p) PROVE DaemonInv'
    <2>1. ClisType' /\ Ended(p) /\ UNCHANGED <<file, socket, ids>>
      BY <1>1, <1>6, Zenon DEF Exit, ClisType
    <2> QED BY <2>1, EndedKeeps, Zenon
  <1>7. CASE LoadSupernode
    BY <1>7, LoadSupernodeKeeps, Zenon
  <1>8. ASSUME NEW d \in Daemons, Load(d) PROVE DaemonInv'
    BY <1>8, LoadKeeps, Zenon DEF Load
  <1>9. ASSUME NEW d \in Daemons, Args(d) PROVE DaemonInv'
    BY <1>9, ArgsKeeps, Zenon
  <1>10. ASSUME NEW d \in Daemons, bind(d) PROVE DaemonInv'
    BY <1>10, BindKeeps, Zenon
  <1>11. ASSUME NEW d \in Daemons, Unlink(d) PROVE DaemonInv'
    BY <1>11, UnlinkKeeps, Zenon
  <1>12. ASSUME NEW d \in Daemons, Listen(d) PROVE DaemonInv'
    BY <1>12, ListenKeeps, Zenon
  <1>13. ASSUME NEW d \in Daemons, Switch(d) PROVE DaemonInv'
    BY <1>13, LoadKeeps, Zenon DEF Switch
  <1>14. ASSUME NEW d \in Daemons, SwitchSave(d) PROVE DaemonInv'
    BY <1>14, SwitchSaveKeeps, Zenon
  <1>15. ASSUME NEW c \in Clis, Connect(c) \/ Poll(c) \/ AnswerCli(c) PROVE DaemonInv'
    BY <1>15, ClientKeeps, Zenon
  <1>16. CASE UNCHANGED daemon_vars
    <2>1. ClisType'
      BY <1>1, <1>16, Zenon DEF daemon_vars, ClisType
    <2>2. Stages'
      BY <1>16, <2>1, Zenon DEF daemon_vars, DaemonInv, Stages
    <2>3. Guarded'
      BY <1>16, Zenon DEF daemon_vars, DaemonInv, Guarded, Floating, Bound, Up, Alive
    <2>4. Config'
      BY <1>16, Zenon DEF daemon_vars, DaemonInv, Config, FileKept, EdgeSection
    <2> QED BY <2>2, <2>3, <2>4, Zenon DEF DaemonInv
  <1> QED
    BY <1>2, <1>3, <1>4, <1>5, <1>6, <1>7, <1>8, <1>9, <1>10, <1>11, <1>12, <1>13, <1>14,
       <1>15, <1>16, Zenon
    DEF DaemonNext

LEMMA DaemonInvariant == DaemonSpec => []DaemonInv
  BY DaemonInitially, DaemonInductive, PTL DEF DaemonSpec

(***************************************************************************)
(* With a fixed UDP port, UdpTransport::bind keeps a second daemon, and a  *)
(* third, from spawn_ipc_server: the one that is up has the IPC socket,    *)
(* however many are started, spawned, killed or stopped meanwhile.         *)
(***************************************************************************)
THEOREM SocketIsGuarded == DaemonSpec => []PortGuardsSocket
  <1>1. DaemonInv => PortGuardsSocket
    BY Zenon DEF DaemonInv, Guarded, PortGuardsSocket
  <1> QED
    BY <1>1, DaemonInvariant, PTL

(***************************************************************************)
(* Without two programs at config.toml at once, or one that dies between   *)
(* truncating and filling it, load_or_create and save lose no section, no  *)
(* identity and no port, and each later daemon runs under the identity.    *)
(***************************************************************************)
THEOREM ConfigIsKept == DaemonSpec => []ConfigSurvives
  <1>1. DaemonInv => ConfigSurvives
    <2> SUFFICES ASSUME DaemonInv, ~contended
                 PROVE  /\ (\A p \in Programs : prog[p].pc # "write") =>
                             /\ kept.supernode # Missing => file.supernode = kept.supernode
                             /\ EdgeSection(kept) => EdgeSection(file) /\ file.edge = kept.edge
                        /\ \A d \in Daemons :
                             Bound(d) /\ prog[d].due # 0 => prog[d].runs.id = prog[d].due
      BY Zenon DEF ConfigSurvives
    <2>1. FileKept /\ \A d \in Daemons : TakesOn(prog[d])
      BY Zenon DEF DaemonInv, Config
    <2>2. \A d \in Daemons : Bound(d) /\ prog[d].due # 0 => prog[d].runs.id = prog[d].due
      BY <2>1, Zenon DEF TakesOn, Bound, Alive
    <2> QED BY <2>1, <2>2, Zenon DEF FileKept
  <1> QED
    BY <1>1, DaemonInvariant, PTL
==============================================================================
