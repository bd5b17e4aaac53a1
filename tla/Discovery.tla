----------------------------- MODULE Discovery ------------------------------
(***************************************************************************)
(* LAN discovery (crates/r2n-discovery): which IPv4 packets the edge       *)
(* floods to every peer, and the routes that bring such packets to the     *)
(* virtual device.  Addresses are four octets.                             *)
(***************************************************************************)
EXTENDS Naturals, Sequences

(* DiscoveryConfig's switches; rate_limit_pps is a constant of the limiter's user. *)
Switches == {"broadcast", "subnet_broadcast", "multicast", "mdns", "ssdp", "netbios"}

LimitedBroadcast == <<255, 255, 255, 255>>

(* The broadcast address of the sender's /24, or of its /16 *)
IsSubnetBroadcast(src, dest) ==
    \/ dest[4] = 255 /\ \A i \in 1 .. 3 : dest[i] = src[i]
    \/ dest[3] = 255 /\ dest[4] = 255 /\ \A i \in 1 .. 2 : dest[i] = src[i]

IsMulticast(dest) == 224 <= dest[1] /\ dest[1] <= 239

(* The set holding the port, empty for packets that are not UDP *)
udp_destination_port(packet) == IF packet.transport = "Udp" THEN {packet.dst_port} ELSE {}

(***************************************************************************)
(* The packet type for the switches that are on, "None" for a packet that  *)
(* is not to be flooded.                                                   *)
(***************************************************************************)
classify_packet_with_config(packet, on) ==
    LET dest == packet.dst
        port == udp_destination_port(packet)
        subnet == IsSubnetBroadcast(packet.src, dest)
    IN  CASE packet.version # "v4" -> "None"
          [] "mdns" \in on /\ dest = <<224, 0, 0, 251>> /\ port = {5353} -> "Multicast"
          [] "ssdp" \in on /\ dest = <<239, 255, 255, 250>> /\ port = {1900} -> "Multicast"
          [] /\ "netbios" \in on
             /\ dest = LimitedBroadcast \/ subnet
             /\ port \in {{137}, {138}} -> "Broadcast"
          [] "broadcast" \in on /\ dest = LimitedBroadcast -> "Broadcast"
          [] "subnet_broadcast" \in on /\ subnet -> "Broadcast"
          [] "multicast" \in on /\ IsMulticast(dest) -> "Multicast"
          [] OTHER -> "None"

(* Mutant of route_cidrs: the multicast route depends on the generic switch alone. *)
route_cidrs_generic(on) ==
    {r \in {"224.0.0.0/4"} : "multicast" \in on}
        \cup {r \in {"255.255.255.255/32"} : on \cap {"broadcast", "netbios"} # {}}

route_cidrs(on) ==
    {r \in {"224.0.0.0/4"} : on \cap {"multicast", "mdns", "ssdp"} # {}}
        \cup {r \in {"255.255.255.255/32"} : on \cap {"broadcast", "netbios"} # {}}

(* A room's network: its leading octets, so /8, /16 or (the default) /24 *)
InNetwork(room, addr) == \A i \in 1 .. Len(room) : addr[i] = room[i]

(* What the operating system sends to the device: activate_room adds the room's route and *)
(* the discovery routes.                                                                  *)
Routed(room, cidrs, dest) ==
    \/ InNetwork(room, dest)
    \/ "224.0.0.0/4" \in cidrs /\ IsMulticast(dest)
    \/ "255.255.255.255/32" \in cidrs /\ dest = LimitedBroadcast
=============================================================================
