----------------------------- MODULE MCEdgeParts -----------------------------
(***************************************************************************)
(* Small instances, for TLC, of parts of the edge that share no variable:  *)
(* the first state picks the part that moves, and the others stay in one   *)
(* of their initial states.  Only a handshake can always go on; the other  *)
(* parts may come to an end.                                               *)
(***************************************************************************)
EXTENDS ReplayWindow, Traffic, Handshake, Commands, SupernodeList, History,
        Candidates, PortMapping, Defense, Daemon, TLC

CONSTANTS n1

VARIABLE part

(* Addresses, rules and packets for Traffic *)

Near == <<10, 77, 0, 5>>
Peer == <<10, 77, 0, 6>>
Host(packet, transport, port) ==
    [version |-> "v4", src |-> Near, dst |-> packet, transport |-> transport,
     src_port |-> 4000, dst_port |-> port, oversize |-> FALSE, df |-> FALSE]

Rule(id, action, direction, protocol, dst, ports) ==
    [id |-> id, enabled |-> TRUE, action |-> action, direction |-> direction, protocol |-> protocol,
     src_cidr |-> Anywhere, dst_cidr |-> dst, src_ports |-> {}, dst_ports |-> ports]

MCNewRules ==
    {Rule("a", "Deny", "Both", "Udp", Anywhere, {[start |-> 50, end |-> 60]}),
     Rule("b", "Allow", "Outbound", "Any", {Near, Peer}, {})}
Open == [enabled |-> TRUE, default_action |-> "Allow", rules |-> <<>>]
Closed == [Open EXCEPT !.default_action = "Deny"]
Network(mode, on, room, policy, outbound, inbound) ==
    [mode |-> mode, on |-> on, room |-> room, peers |-> n1 :> Peer, policy |-> policy,
     outbound |-> outbound, inbound |-> inbound]
MCNetworks ==
    {Network("L3", Switches, <<10, 77, 0>>, Open,
             {Host(Peer, "Udp", 53), Host(<<239, 1, 2, 3>>, "Udp", 1),
              [Host(Peer, "Tcp", 53) EXCEPT !.oversize = TRUE, !.df = TRUE]}, {}),
     Network("L3", {"subnet_broadcast"}, <<10, 77, 0>>, Closed,
             {Host(<<10, 77, 0, 255>>, "Udp", 55), Host(<<10, 77, 255, 255>>, "Udp", 1)}, {}),
     Network("L3", {"mdns", "netbios"}, <<10, 77>>, Closed,
             {Host(Peer, "Icmp", NoPort), Host(<<224, 0, 0, 251>>, "Udp", 5353),
              Host(<<255, 255, 255, 255>>, "Udp", 137), Host(<<10, 77, 255, 255>>, "Udp", 138),
              Host(<<239, 1, 2, 3>>, "Udp", 1)}, {}),
     Network("L2", {}, <<10, 77, 0>>, Closed, {Host(Peer, "Udp", 53)}, {}),
     Network("L3", {}, <<10, 77, 0>>, Open, {}, {[Host(Near, "Udp", 53) EXCEPT !.src = Peer],
                                              [Host(Near, "Udp", 53) EXCEPT !.version = "arp"]})}

(* Names, addresses and files for SupernodeList *)

MCResolve == "x" :> "A" @@ "y" :> "B" @@ "z" :> "C" @@ "y2" :> "B"
MCListFiles ==
    [default_supernode: {Blank, "x"},
     supernodes: UNION {[1 .. n -> {Blank} \cup DOMAIN MCResolve] : n \in 0 .. 3}]

(* Interfaces, and what a peer may have registered, for Candidates *)

MCInterfaces ==
    {<<[kind |-> "HostLan", addr |-> <<"lan", 1>>], [kind |-> "HostIpv6", addr |-> <<"v6", 1>>]>>}
Registered(kind, priority, addr) == Candidate(kind, "StunPrimary", priority, <<addr, 1>>)
MCRemoteCandidates ==
    {<<>>,
     <<Registered("ServerReflexive", 90, "r1"), Registered("ServerReflexive", 80, "r2")>>,
     <<Registered("HostLan", 100, "l1"), Registered("HostLan", 100, "l2"),
       Registered("ServerReflexive", 80, "r2"), Registered("PortPredicted", 50, "r3")>>}

MCPatience == [UpnpIgd |-> 1, NatPmp |-> 1, Pcp |-> 1]

(* TCP options for Defense, in lists of a length that is a multiple of 4 *)

MCOptions ==
    {[kind |-> "nop"]} \cup [kind: {"mss"}, mss: {5, 60}]
        \cup [kind: {"other"}, data: {<<>>, <<2>>, <<2, 4, 7, 7>>}]
MCOptionLists ==
    LET lists == UNION {[1 .. n -> MCOptions] : n \in 0 .. 3}
        ended == {Append(l, [kind |-> "end", data |-> <<2, 4, 7, 7>>]) : l \in lists}
    IN  {l \in lists \cup ended : Len(EncodedList(l)) % 4 = 0}
MCPayloads == {<<>>, <<2>>, <<2, 4, 7>>}

(* Daemons are model values, and nothing chooses among them. *)
MCSymmetry == Permutations(Daemons)

-----------------------------------------------------------------------------

all_vars ==
    <<part, vars, traffic_vars, handshake_vars, command_vars, list_vars, history_vars,
      candidate_vars, manager_vars, defense_vars, daemon_vars>>

MCInit ==
    /\ part \in {"window", "traffic", "handshake", "commands", "list", "history",
                 "candidates", "mapping", "defense", "daemon"}
    /\ Init
    /\ TrafficInit /\ (part = "traffic" \/ network.mode = "L2")
    /\ HandshakeInit
    /\ CommandsInit
    /\ ListInit /\ (part = "list" \/ (configured = {} /\ list_conf.supernodes = <<>>))
    /\ HistoryInit
    /\ CandidatesInit
    /\ MappingInit
    /\ DefenseInit
    /\ DaemonInit /\ (part = "daemon" \/ file = Missing)

MCNext ==
    \/ /\ part = "window" /\ Next
       /\ UNCHANGED <<part, traffic_vars, handshake_vars, command_vars, list_vars,
                      history_vars, candidate_vars, manager_vars, defense_vars, daemon_vars>>
    \/ /\ part = "traffic" /\ TrafficNext
       /\ UNCHANGED <<part, vars, handshake_vars, command_vars, list_vars, history_vars,
                      candidate_vars, manager_vars, defense_vars, daemon_vars>>
    \/ /\ part = "handshake" /\ HandshakeNext
       /\ UNCHANGED <<part, vars, traffic_vars, command_vars, list_vars, history_vars,
                      candidate_vars, manager_vars, defense_vars, daemon_vars>>
    \/ /\ part = "commands" /\ CommandsNext
       /\ UNCHANGED <<part, vars, traffic_vars, handshake_vars, list_vars, history_vars,
                      candidate_vars, manager_vars, defense_vars, daemon_vars>>
    \/ /\ part = "list" /\ ListNext
       /\ UNCHANGED <<part, vars, traffic_vars, handshake_vars, command_vars, history_vars,
                      candidate_vars, manager_vars, defense_vars, daemon_vars>>
    \/ /\ part = "history" /\ HistoryNext
       /\ UNCHANGED <<part, vars, traffic_vars, handshake_vars, command_vars, list_vars,
                      candidate_vars, manager_vars, defense_vars, daemon_vars>>
    \/ /\ part = "candidates" /\ CandidatesNext
       /\ UNCHANGED <<part, vars, traffic_vars, handshake_vars, command_vars, list_vars,
                      history_vars, manager_vars, defense_vars, daemon_vars>>
    \/ /\ part = "mapping" /\ MappingNext
       /\ UNCHANGED <<part, vars, traffic_vars, handshake_vars, command_vars, list_vars,
                      history_vars, candidate_vars, defense_vars, daemon_vars>>
    \/ /\ part = "defense" /\ DefenseNext
       /\ UNCHANGED <<part, vars, traffic_vars, handshake_vars, command_vars, list_vars,
                      history_vars, candidate_vars, manager_vars, daemon_vars>>
    \/ /\ part = "daemon" /\ DaemonNext
       /\ UNCHANGED <<part, vars, traffic_vars, handshake_vars, command_vars, list_vars,
                      history_vars, candidate_vars, manager_vars, defense_vars>>
    \/ /\ part # "handshake"
       /\ UNCHANGED all_vars

MCSpec == MCInit /\ [][MCNext]_all_vars
=============================================================================
