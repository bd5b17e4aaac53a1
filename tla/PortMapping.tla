---------------------------- MODULE PortMapping -----------------------------
(***************************************************************************)
(* The port mapping of an edge (crates/r2n-nat, PortMappingManager): asked *)
(* of the gateway by UPnP, else by NAT-PMP, else by PCP, published, and    *)
(* renewed by a task that sleeps in between.  Time is counted by the lease *)
(* that is left and by the timer of the sleep or attempt under way; the    *)
(* gateway answers within the attempt's timeout, refuses or is silent.     *)
(***************************************************************************)
EXTENDS Integers

CONSTANTS
    RequestedLease,   \* REQUESTED_LEASE_SECS, 3600
    MinRenew,         \* MIN_RENEW_INTERVAL, 30
    Retry,            \* RETRY_INTERVAL, 60
    Lifetimes,        \* what NAT-PMP and PCP gateways may grant instead
    Patience,         \* the timeouts: 3 for UPnP, 2 for NAT-PMP, 2 for PCP
    LocalPort,
    OtherPort,        \* an external port the gateway may choose
    NoMapping

Protocols == {"UpnpIgd", "NatPmp", "Pcp"}
RefreshTime == Patience["UpnpIgd"] + Patience["NatPmp"] + Patience["Pcp"]
ActiveMappings == [protocol: Protocols, port: {LocalPort, OtherPort}, left: Int]

ASSUME MappingAssumption ==
    /\ RequestedLease \in Nat /\ MinRenew \in Nat /\ Retry \in Nat
    /\ Lifetimes \subseteq Nat
    /\ Patience \in [Protocols -> Nat]
    /\ NoMapping \notin ActiveMappings

(* A refresh takes less than the shortest sleep, and the lease asked for outlasts both. *)
ASSUME RefreshIsShort ==
    /\ RefreshTime < MinRenew
    /\ RequestedLease > MinRenew + RefreshTime

VARIABLES
    mapping_stage,    \* "new", "off", "sleep", or the protocol being tried
    timer,            \* seconds until the sleep or the attempt is over
    active,           \* PortMappingState::active, with the seconds left of its lease
    published,        \* the external port last sent to updates_tx
    kept_up           \* history: no refresh failed, and no lease was too short to renew

manager_vars == <<mapping_stage, timer, active, published, kept_up>>

Next3(protocol) == CASE protocol = "UpnpIgd" -> "NatPmp" [] protocol = "NatPmp" -> "Pcp"

MappingInit ==
    /\ mapping_stage = "new"
    /\ timer = 0
    /\ active = NoMapping
    /\ published = NoMapping
    /\ kept_up = TRUE

(* discover: without an IPv4 address or gateway there is no manager. *)
discover ==
    /\ mapping_stage = "new"
    /\ \/ mapping_stage' = "off" /\ timer' = 0
       \/ mapping_stage' = "UpnpIgd" /\ timer' = Patience["UpnpIgd"]
    /\ UNCHANGED <<active, published, kept_up>>

AtLeast(a, b) == IF a > b THEN a ELSE b
AtMost(a, b) == IF a < b THEN a ELSE b

(* Mutant of renewal_delay: the whole of the lease is slept through. *)
renewal_delay_late(remaining) == AtLeast(remaining, 1)

(* saturating_duration_since makes a lease that is over one of 0 seconds. *)
renewal_delay(remaining) ==
    IF remaining \div 2 < MinRenew THEN AtMost(MinRenew, AtLeast(remaining, 1))
    ELSE remaining \div 2

(* The end of refresh: the mapping is stored and published, and the task goes to sleep. *)
Finished(stored) ==
    /\ active' = stored
    /\ published' = IF stored = NoMapping THEN NoMapping ELSE stored.port
    /\ mapping_stage' = "sleep"
    /\ timer' = IF stored = NoMapping THEN Retry ELSE renewal_delay(stored.left)

(* The port asked for: the one held under the same protocol, or the local one *)
Preferred(protocol) ==
    IF active # NoMapping /\ active.protocol = protocol THEN active.port ELSE LocalPort

(* UPnP gives the preferred port or any other, and the lease that was asked for. *)
try_upnp_igd ==
    /\ mapping_stage = "UpnpIgd" /\ timer > 0
    /\ \E port \in {Preferred("UpnpIgd"), OtherPort} :
        Finished([protocol |-> "UpnpIgd", port |-> port, left |-> RequestedLease])
    /\ UNCHANGED kept_up

(* try_nat_pmp and try_pcp: port and lifetime are the gateway's choice. *)
try_lifetime(protocol) ==
    /\ mapping_stage = protocol /\ timer > 0
    /\ \E port \in {Preferred(protocol), OtherPort}, lifetime \in Lifetimes :
        /\ Finished([protocol |-> protocol, port |-> port, left |-> lifetime])
        /\ kept_up' = (kept_up /\ lifetime > MinRenew + RefreshTime)

(* An error, or the timeout: the next protocol is tried. *)
TryNext(protocol) ==
    /\ mapping_stage = protocol /\ protocol # "Pcp"
    /\ mapping_stage' = Next3(protocol)
    /\ timer' = Patience[Next3(protocol)]
    /\ UNCHANGED <<active, published, kept_up>>

(* Mutant of AllFail: what was there before stays. *)
AllFailKeeping ==
    /\ mapping_stage = "Pcp"
    /\ Finished(active)
    /\ kept_up' = FALSE

(* All three failed: the mapping stays until its lease is over. *)
AllFail ==
    /\ mapping_stage = "Pcp"
    /\ Finished(IF active # NoMapping /\ active.left > 0 THEN active ELSE NoMapping)
    /\ kept_up' = FALSE

(* The loop of start: time for a refresh *)
Wake ==
    /\ mapping_stage = "sleep" /\ timer = 0
    /\ mapping_stage' = "UpnpIgd"
    /\ timer' = Patience["UpnpIgd"]
    /\ UNCHANGED <<active, published, kept_up>>

(* A second goes by; the step that is due at 0 does not wait. *)
Tick ==
    /\ timer > 0
    /\ timer' = timer - 1
    /\ active' = IF active = NoMapping THEN NoMapping ELSE [active EXCEPT !.left = @ - 1]
    /\ UNCHANGED <<mapping_stage, published, kept_up>>

MappingNext ==
    \/ discover \/ Wake \/ Tick \/ AllFail
    \/ try_upnp_igd
    \/ \E protocol \in {"NatPmp", "Pcp"} : try_lifetime(protocol)
    \/ \E protocol \in Protocols : TryNext(protocol)

MappingSpec == MappingInit /\ [][MappingNext]_manager_vars

-----------------------------------------------------------------------------

(***************************************************************************)
(* As long as the gateway grants every renewal, by whatever protocol and   *)
(* after whatever failed attempts, the published mapping does not lapse:   *)
(* the task wakes early enough.  Leases no longer than MinRenew and the    *)
(* time of a refresh are the exception.                                    *)
(***************************************************************************)
RenewedInTime == published # NoMapping /\ kept_up => active.left > 0

(***************************************************************************)
(* When the gateway grants nothing any more, the mapping is withdrawn no   *)
(* later than one second and one refresh after its lease is over.          *)
(***************************************************************************)
LapsedWithdrawn == published # NoMapping => active.left >= - (1 + RefreshTime)
=============================================================================
