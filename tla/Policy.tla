------------------------------- MODULE Policy -------------------------------
(***************************************************************************)
(* The traffic policy (crates/r2n-policy) and how the dataplane asks it    *)
(* (DataPlane::policy_allows, policy_allows_packet_type).                  *)
(*                                                                         *)
(* An address block is the set of its addresses, Anywhere for a rule that  *)
(* names none; a list of port ranges is the set of them.  A packet is what *)
(* etherparse finds in it: "v4" or "v6" for the IP version, "none" or      *)
(* "arp" for bytes that are no IP packet, and ports that count only under  *)
(* TCP and UDP.                                                            *)
(***************************************************************************)
EXTENDS Naturals, Sequences

CONSTANTS
    NoPort,       \* None of src_port and dst_port
    Anywhere      \* None of src_cidr and dst_cidr

TrafficActions == {"Allow", "Deny"}
TrafficDirections == {"Inbound", "Outbound"}

DirectionMatches(direction, actual) == direction \in {"Both", actual}

contains(range, port) == range.start <= port /\ port <= range.end

(* No ranges ask for nothing; otherwise a packet without a port is outside. *)
PortMatches(ranges, port) ==
    ranges # {} => port # NoPort /\ \E range \in ranges : contains(range, port)

CidrMatches(cidr, addr) == cidr # Anywhere => addr \in cidr

matches(rule, direction, meta) ==
    /\ rule.enabled
    /\ DirectionMatches(rule.direction, direction)
    /\ rule.protocol \in {"Any", meta.protocol}
    /\ CidrMatches(rule.src_cidr, meta.src)
    /\ CidrMatches(rule.dst_cidr, meta.dst)
    /\ PortMatches(rule.src_ports, meta.src_port)
    /\ PortMatches(rule.dst_ports, meta.dst_port)

(* What the rules see of a transport header; GRE and the like are "Any" without ports. *)
transport_meta(packet) ==
    IF packet.transport \in {"Tcp", "Udp"}
    THEN [protocol |-> packet.transport, src_port |-> packet.src_port, dst_port |-> packet.dst_port]
    ELSE [protocol |-> IF packet.transport = "Icmp" THEN "Icmp" ELSE "Any",
          src_port |-> NoPort, dst_port |-> NoPort]

(* The set holding the result, empty for UnsupportedPacket *)
packet_meta(packet) ==
    {[src |-> packet.src, dst |-> packet.dst, protocol |-> t.protocol,
      src_port |-> t.src_port, dst_port |-> t.dst_port] :
        t \in {u \in {transport_meta(packet)} : packet.version \in {"v4", "v6"}}}

Matching(policy, direction, meta) ==
    {i \in DOMAIN policy.rules : matches(policy.rules[i], direction, meta)}

decision_for_meta(policy, direction, meta) ==
    LET hits == Matching(policy, direction, meta)
    IN  IF ~policy.enabled THEN "Allow"
        ELSE IF hits = {} THEN policy.default_action
        ELSE LET first == CHOOSE i \in hits : \A j \in hits : i <= j
             IN  policy.rules[first].action

decision(policy, direction, packet) ==
    IF ~policy.enabled THEN "Allow"
    ELSE IF packet_meta(packet) = {} THEN policy.default_action
    ELSE decision_for_meta(policy, direction, CHOOSE meta \in packet_meta(packet) : TRUE)

allows(policy, direction, packet) == decision(policy, direction, packet) = "Allow"

(***************************************************************************)
(* A frame of a TAP device carries an IP packet or something else ("arp"); *)
(* the latter is nothing the policy speaks of.                             *)
(***************************************************************************)
policy_allows(policy, mode, direction, packet) ==
    (mode = "L2" /\ packet.version = "arp") \/ allows(policy, direction, packet)

PolicyTypes == {"IPv4", "IPv6", "Broadcast", "Multicast", "Discovery"}

policy_allows_packet_type(policy, type, direction, packet) ==
    CASE type \in PolicyTypes -> allows(policy, direction, packet)
      [] type = "Ethernet" -> policy_allows(policy, "L2", direction, packet)
      [] OTHER -> TRUE
=============================================================================
