------------------------------ MODULE Traffic -------------------------------
(***************************************************************************)
(* The traffic policy in use: IPC connections edit it (crates/r2n-edge-lib *)
(* ipc.rs: rules_add, rules_remove, rules_enable) while the TUN loop       *)
(* (DataPlane::run_tun_loop) and the UDP task (handle_incoming_frame) ask  *)
(* it about packets.                                                       *)
(*                                                                         *)
(* Every connection is a task of its own.  An edit copies the policy under *)
(* the read lock, changes the copy and stores it under the write lock, so  *)
(* it is two steps; an edit that is refused (the id is taken, no such      *)
(* rule) changes nothing.  A packet is judged under the read lock and sent *)
(* some awaits later.  The TUN loop handles one packet at a time, and so   *)
(* does the UDP task.                                                      *)
(***************************************************************************)
EXTENDS Policy, Discovery

CONSTANTS
    Clients,          \* IPC connections
    NewRules,         \* the rules clients may add
    Networks,         \* the device's mode, the discovery switches, the room's network, the
                      \* peers' addresses, the policy of the configuration, packets from
                      \* the device and from peers
    RateLimit         \* rate_limit_pps.max(1)

VARIABLES
    traffic_policy,
    network,
    editor,           \* the edit of each client, and the copy it is about to store
    tun_packet,       \* the packet in the TUN loop, how far it is, and its targets
    udp_packet,       \* the packet the UDP task is about to write to the device
    tokens,           \* of the broadcast limiter
    asked,            \* history: what the acknowledged edits amount to, from the last
                      \* time on that an out-of-date copy was stored
    stale,            \* history: the edits under way whose copy is out of date
    late              \* history: packets passed since the last store that it forbids

RulesOf(policy) == {policy.rules[i] : i \in DOMAIN policy.rules}

(* A policy that has no rule twice; an edge's configuration is not looked through for it. *)
IdsOnce(policy) ==
    \A i, j \in DOMAIN policy.rules : policy.rules[i].id = policy.rules[j].id => i = j

ASSUME TrafficAssumption ==
    \A n \in Networks :
        /\ n.policy \in [enabled: BOOLEAN, default_action: TrafficActions,
                        rules: Seq(RulesOf(n.policy))]
        /\ n.room \in Seq(0 .. 255) /\ Len(n.room) \in 1 .. 3

packets == <<network, tun_packet, udp_packet, tokens>>
policies == <<traffic_policy, editor, asked, stale>>
traffic_vars == <<packets, policies, late>>

NoPacket == [stage |-> "idle"]
NoEdit == [op |-> "none"]
Content(policy) == [rules |-> RulesOf(policy), enabled |-> policy.enabled]
IdsOf(policy) == {r.id : r \in RulesOf(policy)}

TrafficInit ==
    /\ network \in Networks
    /\ traffic_policy = network.policy
    /\ editor = [c \in Clients |-> NoEdit]
    /\ tun_packet = NoPacket
    /\ udp_packet = NoPacket
    /\ tokens = RateLimit
    /\ asked = Content(traffic_policy)
    /\ stale = {}
    /\ late = [d \in TrafficDirections |-> 0]

-----------------------------------------------------------------------------
(* The rule commands *)

(* The client's copy of the policy, as the command changes it *)
Edit(c, op, arg, copy) ==
    /\ editor[c] = NoEdit
    /\ editor' = [editor EXCEPT ![c] = [op |-> op, arg |-> arg, copy |-> copy]]
    /\ UNCHANGED <<packets, traffic_policy, asked, stale, late>>

(* Mutant of rules_add: the newest rule comes first. *)
rules_add_first(c, rule) ==
    /\ rule.id \notin IdsOf(traffic_policy)
    /\ Edit(c, "add", rule, [traffic_policy EXCEPT !.rules = <<rule>> \o @])

rules_add(c, rule) ==
    /\ rule.id \notin IdsOf(traffic_policy)
    /\ Edit(c, "add", rule, [traffic_policy EXCEPT !.rules = Append(@, rule)])

(* Mutant of rules_remove: retain keeps the rules up to the one named. *)
rules_remove_rest(c, id) ==
    /\ id \in IdsOf(traffic_policy)
    /\ Edit(c, "remove", id,
            [traffic_policy EXCEPT !.rules =
                SubSeq(@, 1, (CHOOSE i \in DOMAIN @ : @[i].id = id) - 1)])

(* Vec::retain: the rules that do not have the id, in their order *)
retain(rules, id) ==
    LET kept_of[n \in Nat] ==
            IF n = 0 THEN <<>>
            ELSE IF rules[n].id # id THEN Append(kept_of[n - 1], rules[n])
            ELSE kept_of[n - 1]
    IN  kept_of[Len(rules)]

rules_remove(c, id) ==
    /\ id \in IdsOf(traffic_policy)
    /\ Edit(c, "remove", id, [traffic_policy EXCEPT !.rules = retain(@, id)])

rules_enable(c, on) == Edit(c, "enable", on, [traffic_policy EXCEPT !.enabled = on])

(* What the user may expect a policy to be once the command is acknowledged *)
Expected(content, edit) ==
    CASE edit.op = "add" -> [content EXCEPT !.rules = @ \cup {edit.arg}]
      [] edit.op = "remove" -> [content EXCEPT !.rules = {r \in @ : r.id # edit.arg}]
      [] edit.op = "enable" -> [content EXCEPT !.enabled = edit.arg]

(* The copy is stored and the command answered; copies others hold are now out of date. *)
set_traffic_policy(c) ==
    /\ editor[c] # NoEdit
    /\ traffic_policy' = editor[c].copy
    /\ editor' = [editor EXCEPT ![c] = NoEdit]
    /\ asked' = IF c \in stale THEN Content(editor[c].copy) ELSE Expected(asked, editor[c])
    /\ stale' = {d \in Clients \ {c} : editor[d] # NoEdit}
    /\ late' = [d \in TrafficDirections |-> 0]
    /\ UNCHANGED packets

-----------------------------------------------------------------------------
(* The TUN loop *)

Flooded(type) == type \in {"Broadcast", "Multicast"}

(* A packet that is not flooded goes to the peer that has its IPv4 destination, if any. *)
select_l3_targets(type, packet) ==
    IF Flooded(type) THEN DOMAIN network.peers
    ELSE {p \in DOMAIN network.peers : packet.version = "v4" /\ network.peers[p] = packet.dst}

(***************************************************************************)
(* A packet from the device, up to the choice of its targets.  Too large   *)
(* for the tunnel and not to be fragmented, it is answered with an ICMP    *)
(* message instead; forbidden, or without a target, it is dropped: the     *)
(* loop is then where it was.  On a TAP device the MAC decides (module     *)
(* Incoming), here any way.                                                *)
(***************************************************************************)
Taken(packet, targets, flood) ==
    /\ tun_packet = NoPacket
    /\ policy_allows(traffic_policy, network.mode, "Outbound", packet)
    /\ targets # {}
    /\ tun_packet' = [stage |-> IF flood THEN "limit" ELSE "send", packet |-> packet]
    /\ UNCHANGED <<network, udp_packet, tokens, policies, late>>

TunReadL3(packet) ==
    LET class == classify_packet_with_config(packet, network.on)
        type == IF class = "None" THEN "IPv4" ELSE class
    IN  /\ network.mode = "L3"
        /\ ~(packet.oversize /\ packet.version = "v4" /\ packet.df)
        /\ Taken(packet, select_l3_targets(type, packet), Flooded(type))

TunReadL2(packet) ==
    /\ network.mode = "L2"
    /\ \E flood \in BOOLEAN : Taken(packet, DOMAIN network.peers, flood)

(* The limiter's lock is awaited; without a token the flood is dropped. *)
allow_broadcast ==
    /\ tun_packet.stage = "limit"
    /\ tun_packet' = IF tokens > 0 THEN [tun_packet EXCEPT !.stage = "send"] ELSE NoPacket
    /\ tokens' = IF tokens > 0 THEN tokens - 1 ELSE 0
    /\ UNCHANGED <<network, udp_packet, policies, late>>

(* Ratelimiter adds its amount once a second, up to max_tokens, which is the same. *)
Refill ==
    /\ tokens < RateLimit
    /\ tokens' = RateLimit
    /\ UNCHANGED <<network, tun_packet, udp_packet, policies, late>>

(* Counts a packet that passes although the policy of this moment forbids it *)
Passed(direction, forbidden) ==
    late' = [late EXCEPT ![direction] = IF forbidden THEN @ + 1 ELSE @]

(* send_to_peer for every target; the awaits in it are the subject of SendPath. *)
TunSend ==
    /\ tun_packet.stage = "send"
    /\ tun_packet' = NoPacket
    /\ Passed("Outbound",
              ~policy_allows(traffic_policy, network.mode, "Outbound", tun_packet.packet))
    /\ UNCHANGED <<network, udp_packet, tokens, policies>>

-----------------------------------------------------------------------------
(* The UDP task, from the question on; what comes before is in Incoming. *)

(* Mutant of UdpJudge: the question is asked for the wrong direction. *)
UdpJudgeOutbound(packet, type) ==
    /\ udp_packet = NoPacket
    /\ policy_allows_packet_type(traffic_policy, type, "Outbound", packet)
    /\ udp_packet' = [stage |-> "write", packet |-> packet, type |-> type]
    /\ UNCHANGED <<network, tun_packet, tokens, policies, late>>

UdpJudge(packet, type) ==
    /\ udp_packet = NoPacket
    /\ policy_allows_packet_type(traffic_policy, type, "Inbound", packet)
    /\ udp_packet' = [stage |-> "write", packet |-> packet, type |-> type]
    /\ UNCHANGED <<network, tun_packet, tokens, policies, late>>

UdpWrite ==
    /\ udp_packet # NoPacket
    /\ udp_packet' = NoPacket
    /\ Passed("Inbound", ~policy_allows_packet_type(traffic_policy, udp_packet.type, "Inbound",
                                                    udp_packet.packet))
    /\ UNCHANGED <<network, tun_packet, tokens, policies>>

TrafficNext ==
    \/ \E c \in Clients :
          \/ \E rule \in NewRules : rules_add(c, rule)
          \/ \E id \in {r.id : r \in NewRules} : rules_remove(c, id)
          \/ \E on \in BOOLEAN : rules_enable(c, on)
          \/ set_traffic_policy(c)
    \/ \E packet \in network.outbound : TunReadL3(packet) \/ TunReadL2(packet)
    \/ allow_broadcast
    \/ Refill
    \/ TunSend
    \/ \E packet \in network.inbound, type \in {"IPv4", "Broadcast", "Ethernet"} : UdpJudge(packet, type)
    \/ UdpWrite

TrafficSpec == TrafficInit /\ [][TrafficNext]_traffic_vars

-----------------------------------------------------------------------------
(***************************************************************************)
(* The rules in force are what the acknowledged commands of all clients    *)
(* amount to, each id once.  The only commands that are lost are those     *)
(* stored between the read and the store of another one (rules_add and its *)
(* kin read and write under separate locks).                               *)
(***************************************************************************)
EditsKept ==
    /\ Content(traffic_policy) = asked
    /\ IdsOnce(traffic_policy)

(***************************************************************************)
(* A forbidding rule holds from the moment its command is acknowledged,    *)
(* but for one packet in each direction: the one that was judged before    *)
(* and is sent, or written to the device, after.                           *)
(***************************************************************************)
LateAtMostOne == \A d \in TrafficDirections : late[d] <= 1

(***************************************************************************)
(* Whatever switches are on, what an edge in a room would flood from its   *)
(* address there is what the operating system hands to the device:         *)
(* multicast and limited broadcast by the discovery routes, the broadcast  *)
(* of the room by the room's own route.  One class of packets is flooded   *)
(* and has no route: those to the broadcast address of the /16 around a    *)
(* smaller room, which classify_packet_with_config takes for a subnet      *)
(* broadcast.                                                              *)
(***************************************************************************)
FloodsRouted ==
    \A packet \in network.outbound :
        /\ Flooded(classify_packet_with_config(packet, network.on))
        /\ InNetwork(network.room, packet.src)
        => \/ Routed(network.room, route_cidrs(network.on), packet.dst)
           \/ Len(network.room) > 2 /\ packet.dst[3] = 255 /\ packet.dst[4] = 255
=============================================================================
