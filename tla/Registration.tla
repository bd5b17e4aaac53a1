---------------------------- MODULE Registration ----------------------------
(***************************************************************************)
(* With which supernode an edge (crates/r2n-edge-lib) is registered, and   *)
(* with which candidates.  Four tasks have a hand in it, each in steps     *)
(* between its locks and awaits: the port mapping manager (crates/r2n-nat) *)
(* renews the mapping; the mapping task advertises it and registers anew;  *)
(* the command task switches supernodes; the watchdog rotates through the  *)
(* configured ones while the current one is silent.                        *)
(*                                                                         *)
(* Candidates are the mapping among them, the others being fixed when the  *)
(* edge starts.  The model starts with the first registration sent.  The   *)
(* room is whether there is one: EdgeRoom has its life.                    *)
(***************************************************************************)
EXTENDS Integers, Sequences

CONSTANTS
    Supernodes,    \* Edge::supernodes, a sequence without repetitions
    Targets,       \* addresses a user may switch to, in Supernodes or not
    Live,          \* the supernodes that keep answering
    Mappings,      \* external addresses the router may grant
    None

ASSUME RegistrationAssumption ==
    /\ Supernodes \in Seq({Supernodes[i] : i \in DOMAIN Supernodes})
    /\ Supernodes # <<>>
    /\ \A i, j \in DOMAIN Supernodes : Supernodes[i] = Supernodes[j] => i = j
    /\ None \notin Mappings
    /\ Live # {} /\ \A a \in Live : \E i \in DOMAIN Supernodes : Supernodes[i] = a

VARIABLES
    supernode_addr,   \* supernode_addr_shared
    runtime_addr,     \* RuntimeState::supernode_addr, which status shows
    room_active,
    silent,           \* last_supernode_activity is more than 25 s ago
    mapping,          \* PortMappingState::active, and the snapshot in the watch channel
    changed,          \* the watch channel has news for the mapping task
    advertised,       \* advertised_candidates
    told,             \* the candidates of the last RegisterNode sent to an address
    mapper,           \* the mapping task after a change: [at, addr, candidates]
    cmd,              \* the command task in SwitchSupernode: [at, addr, candidates]
    wd,               \* the watchdog in a round: [at, addr, candidates]
    missed,           \* history: a RegisterNode failed, or was overtaken by new candidates
    contended         \* history: a switch and a rotation wrote between each other's writes

mapping_vars == <<mapping, changed, advertised, mapper>>
vars == <<supernode_addr, runtime_addr, room_active, silent, mapping, changed, advertised,
          told, mapper, cmd, wd, missed, contended>>

Addrs == {Supernodes[i] : i \in DOMAIN Supernodes} \cup Targets
Candidates == Mappings \cup {None}
Idle == [at |-> "idle", addr |-> None, candidates |-> None]
Task == [at : {"idle", "advertise", "look", "addr", "runtime", "read", "send"},
         addr : Addrs \cup {None}, candidates : Candidates]

TypeOK ==
    /\ {supernode_addr, runtime_addr} \subseteq Addrs
    /\ room_active \in BOOLEAN /\ silent \in BOOLEAN /\ changed \in BOOLEAN
    /\ {mapping, advertised} \subseteq Candidates
    /\ told \in [Addrs -> Candidates]
    /\ {mapper, cmd, wd} \subseteq Task
    /\ missed \in BOOLEAN /\ contended \in BOOLEAN

(* Edge::run up to its tasks: the primary supernode, the first refresh, RegisterNode *)
Init ==
    /\ supernode_addr = Supernodes[1] /\ runtime_addr = Supernodes[1]
    /\ room_active = FALSE /\ silent = FALSE
    /\ mapping \in Candidates /\ changed = FALSE
    /\ advertised = mapping
    /\ told = [a \in Addrs |-> IF a = Supernodes[1] THEN mapping ELSE None]
    /\ mapper = Idle /\ cmd = Idle /\ wd = Idle
    /\ missed = FALSE /\ contended = FALSE

(* send_control of a RegisterNode, which may fail *)
Register(a, c) ==
    \/ told' = [told EXCEPT ![a] = c] /\ missed' = missed
    \/ told' = told /\ missed' = TRUE

-----------------------------------------------------------------------------
(* PortMappingManager::refresh and publish_snapshot: granted by one of the three          *)
(* protocols, or else the mapping stays until its lease has run out                       *)
Refresh(m) ==
    /\ mapping' = m
    /\ changed' = TRUE
    /\ UNCHANGED <<supernode_addr, runtime_addr, room_active, silent, advertised, told,
                   mapper, cmd, wd, missed, contended>>

-----------------------------------------------------------------------------
(* The mapping task *)

MapTake ==
    /\ mapper.at = "idle"
    /\ changed
    /\ changed' = FALSE
    /\ mapper' = [at |-> "advertise", addr |-> None, candidates |-> mapping]
    /\ UNCHANGED <<supernode_addr, runtime_addr, room_active, silent, mapping, advertised,
                   told, cmd, wd, missed, contended>>

(* another task has read the candidates and not yet sent them *)
Sending == "send" \in {cmd.at, wd.at}

(* Mutants of MapAdvertise: the change is marked as seen only now; no new registration *)
MapAdvertise_seen ==
    /\ mapper.at = "advertise"
    /\ advertised' = mapper.candidates
    /\ mapper' = [mapper EXCEPT !.at = "addr"]
    /\ changed' = FALSE
    /\ UNCHANGED <<supernode_addr, runtime_addr, room_active, silent, mapping, told,
                   cmd, wd, missed, contended>>

MapAdvertise_quiet ==
    /\ mapper.at = "advertise"
    /\ advertised' = mapper.candidates
    /\ mapper' = Idle
    /\ UNCHANGED <<supernode_addr, runtime_addr, room_active, silent, mapping, changed,
                   told,
                   cmd, wd, missed, contended>>

MapAdvertise ==
    /\ mapper.at = "advertise"
    /\ \/ /\ advertised = mapper.candidates
          /\ mapper' = Idle
          /\ UNCHANGED <<advertised, missed>>
       \/ /\ advertised # mapper.candidates
          /\ mapper' = [mapper EXCEPT !.at = "addr"]
          /\ advertised' = mapper.candidates
          /\ missed' = (missed \/ Sending)
    /\ UNCHANGED <<supernode_addr, runtime_addr, room_active, silent, mapping, changed,
                   told,
                   cmd, wd, contended>>

MapAddr ==
    /\ mapper.at = "addr"
    /\ mapper' = [mapper EXCEPT !.at = "send", !.addr = supernode_addr]
    /\ UNCHANGED <<supernode_addr, runtime_addr, room_active, silent, mapping, changed,
                   advertised, told, cmd, wd, missed, contended>>

MapSend ==
    /\ mapper.at = "send"
    /\ Register(mapper.addr, mapper.candidates)
    /\ mapper' = Idle
    /\ UNCHANGED <<supernode_addr, runtime_addr, room_active, silent, mapping, changed,
                   advertised, cmd, wd, contended>>
-----------------------------------------------------------------------------
(* The command task: SwitchSupernode *)

(* The room is left first, deactivate_room. *)
Switch(a) ==
    /\ cmd.at = "idle"
    /\ room_active' = FALSE
    /\ cmd' = [at |-> "addr", addr |-> a, candidates |-> None]
    /\ UNCHANGED <<mapping_vars, supernode_addr, runtime_addr, silent, told, wd, missed,
                   contended>>

SwitchAddr ==
    /\ cmd.at = "addr"
    /\ supernode_addr' = cmd.addr
    /\ cmd' = [cmd EXCEPT !.at = "runtime"]
    /\ contended' = (contended \/ wd.at = "runtime")
    /\ UNCHANGED <<mapping_vars, runtime_addr, room_active, silent, told, wd, missed>>

SwitchRuntime ==
    /\ cmd.at = "runtime"
    /\ runtime_addr' = cmd.addr
    /\ cmd' = [cmd EXCEPT !.at = "read"]
    /\ UNCHANGED <<mapping_vars, supernode_addr, room_active, silent, told, wd, missed,
                   contended>>

SwitchRead ==
    /\ cmd.at = "read"
    /\ cmd' = [cmd EXCEPT !.at = "send", !.candidates = advertised]
    /\ UNCHANGED <<mapping_vars, supernode_addr, runtime_addr, room_active, silent, told,
                   wd, missed, contended>>

SwitchSend ==
    /\ cmd.at = "send"
    /\ Register(cmd.addr, cmd.candidates)
    /\ cmd' = Idle
    /\ UNCHANGED <<mapping_vars, supernode_addr, runtime_addr, room_active, silent, wd,
                   contended>>

-----------------------------------------------------------------------------
(* The watchdog, a round every 5 s *)

(* Mutant of next_supernode_after: no first address for one that is not in the list. *)
next_supernode_after_known(a) ==
    IF \E i \in DOMAIN Supernodes : Supernodes[i] = a
    THEN LET i == CHOOSE j \in DOMAIN Supernodes : Supernodes[j] = a
         IN  Supernodes[(i % Len(Supernodes)) + 1]
    ELSE a

(* The next in the list, around its end; the first if the address is not in it *)
next_supernode_after(a) ==
    IF Len(Supernodes) <= 1 THEN a
    ELSE IF \E i \in DOMAIN Supernodes : Supernodes[i] = a
    THEN LET i == CHOOSE j \in DOMAIN Supernodes : Supernodes[j] = a
         IN  Supernodes[(i % Len(Supernodes)) + 1]
    ELSE Supernodes[1]

(* Nothing to do unless there is a room and no sign of the supernode. *)
WdRound ==
    /\ wd.at = "idle"
    /\ room_active /\ silent
    /\ wd' = [Idle EXCEPT !.at = "look"]
    /\ UNCHANGED <<mapping_vars, supernode_addr, runtime_addr, room_active, silent, told, cmd,
                   missed, contended>>

WdLook ==
    /\ wd.at = "look"
    /\ wd' = [wd EXCEPT !.at = "addr", !.addr = supernode_addr]
    /\ UNCHANGED <<mapping_vars, supernode_addr, runtime_addr, room_active, silent, told, cmd,
                   missed, contended>>

(* Mutant of WdRotate: status is not told. *)
WdRotate_unshown ==
    /\ wd.at = "addr"
    /\ supernode_addr' = next_supernode_after(wd.addr)
    /\ wd' = [wd EXCEPT !.at = "read", !.addr = next_supernode_after(wd.addr)]
    /\ UNCHANGED <<mapping_vars, runtime_addr, room_active, silent, told, cmd, missed,
                   contended>>

(* The address written is the one after the address read before the await. *)
WdRotate ==
    LET target == next_supernode_after(wd.addr)
    IN  /\ wd.at = "addr"
        /\ \/ /\ target # wd.addr
              /\ supernode_addr' = target
              /\ wd' = [wd EXCEPT !.at = "runtime", !.addr = target]
              /\ contended' = (contended \/ cmd.at = "runtime")
           \/ /\ target = wd.addr
              /\ wd' = [wd EXCEPT !.at = "read"]
              /\ UNCHANGED <<supernode_addr, contended>>
        /\ UNCHANGED <<mapping_vars, runtime_addr, room_active, silent, told, cmd, missed>>

WdRuntime ==
    /\ wd.at = "runtime"
    /\ runtime_addr' = wd.addr
    /\ wd' = [wd EXCEPT !.at = "read"]
    /\ UNCHANGED <<mapping_vars, supernode_addr, room_active, silent, told, cmd, missed,
                   contended>>

WdRead ==
    /\ wd.at = "read"
    /\ wd' = [wd EXCEPT !.at = "send", !.candidates = advertised]
    /\ UNCHANGED <<mapping_vars, supernode_addr, runtime_addr, room_active, silent, told,
                   cmd, missed, contended>>

(* The repeated JoinRoom that follows is in EdgeRoom. *)
WdSend ==
    /\ wd.at = "send"
    /\ Register(wd.addr, wd.candidates)
    /\ wd' = Idle
    /\ UNCHANGED <<mapping_vars, supernode_addr, runtime_addr, room_active, silent, cmd,
                   contended>>

-----------------------------------------------------------------------------
(* The UDP task and the network *)

(* A room is activated, or left by a command *)
RoomChanges ==
    /\ cmd.at = "idle"
    /\ room_active' = ~room_active
    /\ UNCHANGED <<mapping_vars, supernode_addr, runtime_addr, silent, told, cmd, wd,
                   missed, contended>>

(* A packet from the current supernode: an answer to RegisterNode or to a heartbeat *)
Activity ==
    /\ silent
    /\ silent' = FALSE
    /\ UNCHANGED <<mapping_vars, supernode_addr, runtime_addr, room_active, told, cmd,
                   wd, missed, contended>>

(* None for 25 s *)
Silence ==
    /\ ~silent
    /\ silent' = TRUE
    /\ UNCHANGED <<mapping_vars, supernode_addr, runtime_addr, room_active, told, cmd,
                   wd, missed, contended>>

MappingTask == MapTake \/ MapAdvertise \/ MapAddr \/ MapSend
CommandTask == SwitchAddr \/ SwitchRuntime \/ SwitchRead \/ SwitchSend
Watchdog == WdRound \/ WdLook \/ WdRotate \/ WdRuntime \/ WdRead \/ WdSend

Next ==
    \/ \E m \in Mappings \cup {mapping, None} : Refresh(m)
    \/ MappingTask \/ CommandTask \/ Watchdog
    \/ \E a \in Targets : Switch(a)
    \/ RoomChanges \/ Activity \/ Silence

Spec == Init /\ [][Next]_vars

(* The tasks run, and a live supernode that is registered with time and again answers     *)
(* before the next round some time.                                                       *)
FairSpec ==
    /\ Spec
    /\ WF_vars(Watchdog) /\ WF_vars(CommandTask) /\ WF_vars(MappingTask)
    /\ SF_vars(supernode_addr \in Live /\ Activity)

-----------------------------------------------------------------------------

(***************************************************************************)
(* When the mapping task has caught up, the candidates it advertises are   *)
(* those of the mapping the manager holds: no renewal or loss of the       *)
(* mapping is passed over, although the channel keeps only the last one.   *)
(***************************************************************************)
MappingAdvertised ==
    mapper.at = "idle" /\ ~changed => advertised = mapping

(***************************************************************************)
(* When no task is in the middle of it, the supernode in use was last told *)
(* the candidates now advertised, whether it came into use by a switch or  *)
(* a rotation and whenever the mapping changed.  Only a failed send, or a  *)
(* change between another task's reading and sending the candidates,       *)
(* breaks this.                                                            *)
(***************************************************************************)
LatestRegistered ==
    /\ ~missed
    /\ mapper.at \in {"idle", "advertise"}
    /\ {cmd.at, wd.at} \subseteq {"idle", "look", "addr"}
    => told[supernode_addr] = advertised

(***************************************************************************)
(* The supernode status shows is the one in use, except while one of the   *)
(* tasks has written only the first, and unless a switch and a rotation    *)
(* ever wrote between each other's two writes.                             *)
(***************************************************************************)
AddressShown ==
    ~contended /\ "runtime" \notin {cmd.at, wd.at} => runtime_addr = supernode_addr

(***************************************************************************)
(* While the edge stays in a room and the user does not switch, it hears   *)
(* from a supernode again and again if only one of the configured ones is  *)
(* live: the watchdog's rotation reaches that one from whatever address    *)
(* the edge was using, also one that is not configured.                    *)
(***************************************************************************)
RotationFindsLive ==
    <>[](room_active /\ cmd.at = "idle") => []<>~silent
============================================================================
