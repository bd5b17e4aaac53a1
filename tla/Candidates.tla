----------------------------- MODULE Candidates -----------------------------
(***************************************************************************)
(* The addresses at which an edge may be reached: probed by STUN and       *)
(* predicted (crates/r2n-nat, NatProbe), merged with the port mapping, and *)
(* paired with those of a peer when the supernode asks both to punch       *)
(* (crates/r2n-rendezvous, and PunchRequest in crates/r2n-edge-lib).       *)
(*                                                                         *)
(* Every probe has a socket of its own, so that a NAT will mostly give     *)
(* each another port; the answers come in any order, some never.  All      *)
(* public addresses have the NAT's IP address and are told apart by their  *)
(* ports.                                                                  *)
(***************************************************************************)
EXTENDS Lists

CONSTANTS
    MaxPort,          \* 65535
    Forward,          \* 8 ports are predicted by the pattern,
    Window,           \* and 8 on each side of the last one
    MaxDelta,         \* 16
    TopServers,       \* 5
    MaxPairs,         \* 16
    Interfaces,       \* lists of the own host candidates [kind, addr]
    Mappings,         \* external ports a mapping may have
    RemoteCandidates, \* the lists a peer may have registered
    NoAddr

CandidateKind == {"HostLan", "HostIpv6", "ServerReflexive", "PortPredicted", "Relay"}
CandidateSource ==
    {"LocalInterface", "StunPrimary", "StunSecondary", "PortMapping", "PeerReflexive",
     "PortPrediction", "RelayFallback"}

AddrsOf(candidates) == {candidates[i].addr : i \in DOMAIN candidates}
SocketAddrs == ({"nat"} \X Int) \cup UNION {AddrsOf(list) : list \in Interfaces \cup RemoteCandidates}
CandidateRecords ==
    [kind: CandidateKind, source: CandidateSource, priority: Int, addr: SocketAddrs]

ASSUME CandidatesAssumption ==
    /\ {MaxPort, Forward, Window, MaxDelta, TopServers, MaxPairs} \subseteq Nat
    /\ Interfaces \subseteq Seq([kind: CandidateKind, addr: SocketAddrs])
    /\ Mappings \subseteq Int
    /\ RemoteCandidates \subseteq Seq(CandidateRecords)

VARIABLES
    public_addrs,     \* NatFingerprint::public_addrs
    base_candidates,
    mapping,          \* PortMappingSnapshot::external_addr
    advertised,       \* advertised_candidates
    chosen            \* pairs that the own and the other edge chose last

candidate_vars == <<public_addrs, base_candidates, mapping, advertised, chosen>>

Ports == 1 .. MaxPort
Candidate(kind, source, priority, addr) ==
    [kind |-> kind, source |-> source, priority |-> priority, addr |-> addr]

Public(port) == <<"nat", port>>
NoneChosen == [own |-> <<>>, other |-> <<>>]

-----------------------------------------------------------------------------

infer_nat_type(ports) ==
    IF Len(ports) < 2 THEN "Unknown"
    ELSE IF \A i \in 1 .. Len(ports) - 1 : ports[i] = ports[i + 1] THEN "Cone"
    ELSE "Symmetric"

Deltas(ports) == [i \in 1 .. Len(ports) - 1 |-> ports[i + 1] - ports[i]]

(* Mutant of infer_port_delta_pattern: the ports in the order of the answers *)
infer_port_delta_pattern_unsorted(ports) ==
    LET deltas == Deltas(ports)
    IN  IF Len(ports) >= 2 /\ Range(deltas) = {deltas[1]} /\ deltas[1] \in 1 .. MaxDelta
        THEN deltas[1] ELSE 1

(* The common distance of the ports; without one, predictions go by 1 (unwrap_or). *)
infer_port_delta_pattern(ports) ==
    LET deltas == Deltas(SortedDown(ports, [i \in DOMAIN ports |-> -ports[i]]))
    IN  IF Len(ports) >= 2 /\ Range(deltas) = {deltas[1]} /\ deltas[1] \in 1 .. MaxDelta
        THEN deltas[1] ELSE 1

predict_from_fingerprint(ports) ==
    LET max == CHOOSE p \in Range(ports) : \A q \in Range(ports) : q <= p
        ahead == [i \in 1 .. Forward |-> max + infer_port_delta_pattern(ports) * i]
        forward == Picked(ahead, {i \in 1 .. Forward : ahead[i] \in Ports})
        near == [i \in 1 .. 2 * Window + 1 |-> max - Window - 1 + i]
        around == Picked(near, {i \in DOMAIN near : near[i] \in Ports \ ({max} \cup Range(forward))})
    IN  IF infer_nat_type(ports) = "Symmetric" THEN forward \o around ELSE <<>>

ByPriority(candidates) == SortedDown(candidates, [i \in DOMAIN candidates |-> candidates[i].priority])

SameCandidate(left, right) == left.addr = right.addr /\ left.kind = right.kind

(* dedup_by: each is compared with the last one that stayed. *)
dedup_by(candidates) ==
    LET kept[n \in Nat] ==
            IF n = 0 THEN <<>>
            ELSE LET before == kept[n - 1]
                 IN  IF before # <<>> /\ SameCandidate(before[Len(before)], candidates[n])
                     THEN before ELSE Append(before, candidates[n])
    IN  kept[Len(candidates)]

collect_candidates(hosts, ports) ==
    LET predicted == predict_from_fingerprint(ports)
        local == [i \in DOMAIN hosts |->
                    Candidate(hosts[i].kind, "LocalInterface", 100, hosts[i].addr)]
        probed == [i \in DOMAIN ports |->
                    Candidate("ServerReflexive", "StunPrimary", 80, Public(ports[i]))]
        guessed == [i \in DOMAIN predicted |->
                    Candidate("PortPredicted", "PortPrediction", 50, Public(predicted[i]))]
    IN  dedup_by(ByPriority(local \o probed \o guessed))

as_candidate(snapshot) ==
    IF snapshot = NoAddr THEN <<>>
    ELSE <<Candidate("ServerReflexive", "PortMapping", 90, Public(snapshot))>>

merge_mapped_candidate(base, snapshot) ==
    LET others == Picked(base, {i \in DOMAIN base : base[i].source # "PortMapping"})
    IN  dedup_by(ByPriority(others \o as_candidate(snapshot)))

-----------------------------------------------------------------------------

(* Mutant of locality_bonus: a host address is preferred on the own side only. *)
locality_bonus_own(left, right) ==
    CASE left = "HostLan" -> 40
      [] left = "HostIpv6" /\ right = "HostIpv6" -> 30
      [] left = "ServerReflexive" /\ right = "ServerReflexive" -> 20
      [] left = "Relay" /\ right = "Relay" -> 0
      [] OTHER -> 10

locality_bonus(left, right) ==
    CASE left = "HostLan" /\ right = "HostLan" -> 40
      [] left = "HostIpv6" /\ right = "HostIpv6" -> 30
      [] left = "ServerReflexive" /\ right = "ServerReflexive" -> 20
      [] left = "Relay" /\ right = "Relay" -> 0
      [] OTHER -> 10

Score(pair) ==
    pair[1].priority + pair[2].priority + locality_bonus(pair[1].kind, pair[2].kind)

AllPairs(local, remote) ==
    LET n == Len(remote)
    IN  [k \in 1 .. Len(local) * n |-> <<local[((k - 1) \div n) + 1], remote[((k - 1) % n) + 1]>>]

build_candidate_pairs(local, remote) ==
    LET pairs == AllPairs(local, remote)
    IN  SortedDown(pairs, [k \in DOMAIN pairs |-> Score(pairs[k])])

(* PunchRequest: each score is positive, and the first MaxPairs pairs are used. *)
selected_pairs(local, remote) ==
    FirstOf(build_candidate_pairs(local, remote), MaxPairs)

-----------------------------------------------------------------------------

(* Before the probe *)
CandidatesInit ==
    /\ public_addrs = <<>>
    /\ base_candidates = <<>>
    /\ mapping = NoAddr
    /\ advertised = NoAddr
    /\ chosen = NoneChosen

(* The mapping comes first, then the probe; of its answers the fastest count. *)
Probe(hosts, ports, mapped) ==
    /\ public_addrs' = FirstOf(ports, TopServers)
    /\ base_candidates' = collect_candidates(hosts, public_addrs')
    /\ mapping' = mapped
    /\ advertised' = merge_mapped_candidate(base_candidates', mapped)
    /\ UNCHANGED chosen

(* An error or 5 seconds without an end: the edge registers with the mapping alone. *)
ProbeFails(mapped) ==
    /\ advertised = NoAddr
    /\ mapping' = mapped
    /\ advertised' = merge_mapped_candidate(base_candidates, mapped)
    /\ UNCHANGED <<public_addrs, base_candidates, chosen>>

MappingChanges(mapped) ==
    /\ advertised # NoAddr
    /\ mapping' = mapped
    /\ advertised' = merge_mapped_candidate(base_candidates, mapped)
    /\ UNCHANGED <<public_addrs, base_candidates, chosen>>

(* Both edges get a PunchRequest with what the other one has registered, and neither list *)
(* changes between the two.                                                               *)
Punch(remote) ==
    /\ advertised # NoAddr
    /\ chosen' = [own |-> selected_pairs(advertised, remote),
                   other |-> selected_pairs(remote, advertised)]
    /\ UNCHANGED <<public_addrs, base_candidates, mapping, advertised>>

(* The ports of the probes that were answered, in the order of the answers *)
Answers == UNION {[1 .. n -> Ports] : n \in 0 .. TopServers + 1}

CandidatesNext ==
    \/ /\ advertised = NoAddr
       /\ \E hosts \in Interfaces, ports \in Answers, mapped \in Mappings \cup {NoAddr} :
            Probe(hosts, ports, mapped)
    \/ \E mapped \in Mappings \cup {NoAddr} : ProbeFails(mapped) \/ MappingChanges(mapped)
    \/ \E remote \in RemoteCandidates : Punch(remote)

CandidatesSpec == CandidatesInit /\ [][CandidatesNext]_candidate_vars

-----------------------------------------------------------------------------

(***************************************************************************)
(* If the NAT gave the probes ports at a fixed distance, up to MaxDelta,   *)
(* the ports it gives next are among the candidates, in whatever order the *)
(* answers came, as far as there are such ports.                           *)
(***************************************************************************)
NextPortsPredicted ==
    \A d \in 1 .. MaxDelta, low \in Ports :
        LET n == Len(public_addrs)
        IN  n >= 2 /\ Range(public_addrs) = {low + d * i : i \in 0 .. n - 1} =>
                \A port \in {low + d * i : i \in n .. n + Forward - 1} \cap Ports :
                    Public(port) \in AddrsOf(advertised)

(***************************************************************************)
(* Two edges that punch towards each other choose the same pairs, but for  *)
(* those that score no more than the last one chosen: only MaxPairs are    *)
(* punched, and a hole needs both sides.                                   *)
(***************************************************************************)
PunchesMeet ==
    \A i \in DOMAIN chosen.own :
        Score(chosen.own[i]) > Score(chosen.own[Len(chosen.own)])
            => \E j \in DOMAIN chosen.other : chosen.other[j] = <<chosen.own[i][2], chosen.own[i][1]>>
=============================================================================
