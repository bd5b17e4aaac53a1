------------------------------- MODULE Paths -------------------------------
(***************************************************************************)
(* How an edge chooses the path to a peer: PathManager (crates/            *)
(* r2n-dataplane, path.rs), the ping loop of the DataPlane and the ping    *)
(* bookkeeping of MetricsRegistry (crates/r2n-observability).              *)
(*                                                                         *)
(* The ping loop and the UDP task share the path manager and the pending   *)
(* pings; a step is one call under a lock.  The score of a path is kept as *)
(* its rank: a success may move it anywhere (round trip time and jitter    *)
(* are the network's), a failure only upwards.  Time enters as `fresh'     *)
(* (last_success is less than 5 s ago) and "overdue" (sent more than 2 s   *)
(* ago).                                                                   *)
(***************************************************************************)
EXTENDS Integers, Sequences

CONSTANTS
    Relay,       \* the supernode's address, the first path
    Addrs,       \* addresses the peer may be reached at or seen from
    MaxScore,    \* bound: ranks of scores
    MaxPending   \* bound: pings of one path under way

ASSUME PathsAssumption ==
    /\ Relay \notin Addrs
    /\ MaxScore \in Nat /\ MaxScore >= 2
    /\ MaxPending \in Nat \ {0}

VARIABLES
    paths,       \* PathManager::paths
    active,      \* PathManager::active_index, from 1
    pending,     \* pending_pings: <<address, number>> to "none", "sent", "overdue"
    timed_out,   \* what check_ping_timeouts returned and is still to be recorded
    round,       \* "idle" or "timeouts"
    alive        \* the addresses over which frames come through, now

paths_vars == <<paths, active, pending, timed_out, round, alive>>

AllAddrs == Addrs \cup {Relay}
Scores == 1 .. MaxScore
Pings == AllAddrs \X (1 .. MaxPending)
PathInfo == [addr : AllAddrs, is_relay : BOOLEAN, score : Scores, fresh : BOOLEAN]
Known == {paths[i].addr : i \in DOMAIN paths}
active_addr == paths[active].addr

(***************************************************************************)
(* A path has one entry, whatever was added, replaced or learned, and the  *)
(* one to fall back to is the relay (add_or_update_path looks before it    *)
(* pushes, and nothing is removed): the active index stays a path's.       *)
(***************************************************************************)
PathsType ==
    /\ paths \in Seq(PathInfo)
    /\ \A i, j \in DOMAIN paths : paths[i].addr = paths[j].addr => i = j
    /\ paths[1].addr = Relay
    /\ active \in DOMAIN paths
    /\ pending \in [Pings -> {"none", "sent", "overdue"}]
    /\ timed_out \subseteq Pings
    /\ round \in {"idle", "timeouts"}
    /\ alive \subseteq AllAddrs

(* PathInfo::new: 100 ms and 80 of penalty for a relay, 200 ms for others; fresh at birth *)
NewPath(a) == [addr |-> a, is_relay |-> a = Relay,
               score |-> IF a = Relay THEN 1 ELSE 2, fresh |-> TRUE]
NewManager == <<NewPath(Relay)>>

PathsInit ==
    /\ paths = NewManager
    /\ active = 1
    /\ pending = [p \in Pings |-> "none"]
    /\ timed_out = {}
    /\ round = "idle"
    /\ alive \in SUBSET AllAddrs

-----------------------------------------------------------------------------
(* PathManager *)

(* Mutant of Eligible: every path takes part. *)
EligibleAll(ps) == DOMAIN ps

Eligible(ps) == {i \in DOMAIN ps : ps[i].fresh}

(* The first of the best among the paths that are fresh, else the first of all *)
reevaluate(ps) ==
    IF Eligible(ps) = {} THEN 1
    ELSE CHOOSE i \in Eligible(ps) : \A j \in Eligible(ps) :
            ps[i].score < ps[j].score \/ (ps[i].score = ps[j].score /\ i <= j)

add_or_update_path(ps, a) ==
    IF \E i \in DOMAIN ps : ps[i].addr = a THEN ps ELSE Append(ps, NewPath(a))

(* The paths record_success may leave, the score being the network's *)
Succeeded(ps, a) ==
    {[i \in DOMAIN ps |-> IF ps[i].addr = a THEN [ps[i] EXCEPT !.score = s, !.fresh = TRUE]
                          ELSE ps[i]] : s \in Scores}

(* ... and record_failure: the loss rate rises until it is 1 *)
Failed(ps, a) ==
    {[i \in DOMAIN ps |-> IF ps[i].addr = a /\ s > ps[i].score THEN [ps[i] EXCEPT !.score = s]
                          ELSE ps[i]] : s \in Scores}

record_success(ps, a) ==
    /\ paths' \in Succeeded(ps, a)
    /\ active' = reevaluate(paths')

(* Mutant of record_failure: the choice is left to the next success. *)
record_failure_only(ps, a) ==
    /\ paths' \in Failed(ps, a)
    /\ UNCHANGED active

record_failure(ps, a) ==
    /\ paths' \in Failed(ps, a)
    /\ active' = reevaluate(paths')
-----------------------------------------------------------------------------
(* The ping loop, one round every 2 s *)

check_ping_timeouts ==
    /\ round = "idle"
    /\ timed_out' = {p \in Pings : pending[p] = "overdue"}
    /\ pending' = [p \in Pings |-> IF p \in timed_out' THEN "none" ELSE pending[p]]
    /\ round' = "timeouts"
    /\ UNCHANGED <<paths, active, alive>>

RecordTimeout(p) ==
    /\ round = "timeouts"
    /\ p \in timed_out
    /\ record_failure(paths, p[1])
    /\ timed_out' = timed_out \ {p}
    /\ UNCHANGED <<pending, round, alive>>

Numbers(a) == {k \in 1 .. MaxPending : pending[<<a, k>>] = "none"}

(* record_ping_sent for every path, each with a number that is not under way; a failed   *)
(* send makes no difference.  The awaits between the sends do not matter: each ping is   *)
(* booked under its own number, and a path learned meanwhile waits for the next round.   *)
SendPings ==
    /\ round = "timeouts"
    /\ timed_out = {}
    /\ pending' = [p \in Pings |->
          IF p[1] \in Known /\ p[2] \in Numbers(p[1]) /\ \A k \in Numbers(p[1]) : p[2] <= k
          THEN "sent" ELSE pending[p]]
    /\ round' = "idle"
    /\ UNCHANGED <<paths, active, timed_out, alive>>

-----------------------------------------------------------------------------
(* The UDP task *)

(* A pong to ping p comes in from address a.  The path that was pinged is credited, *)
(* late or not, as long as the ping is on the books.                               *)
Pong(p, a) ==
    /\ {p[1], a} \subseteq alive
    /\ pending[p] # "none"
    /\ pending' = [pending EXCEPT ![p] = "none"]
    /\ record_success(add_or_update_path(paths, a), p[1])
    /\ UNCHANGED <<timed_out, round, alive>>

(* A ping, a pong to no pending ping, or a candidate of a PunchRequest, which need not work *)
add_peer_candidate(a) ==
    /\ paths' = add_or_update_path(paths, a)
    /\ UNCHANGED <<active, pending, timed_out, round, alive>>

(* A data frame, or the end of a handshake, from an address not known as the relay's *)
set_direct_path(a) ==
    /\ a \in alive
    /\ record_success(add_or_update_path(paths, a), a)
    /\ UNCHANGED <<pending, timed_out, round, alive>>

(* The peer is removed and added again: a new manager, but the pings stay on the books. *)
ReplacePeer ==
    /\ paths' = NewManager
    /\ active' = 1
    /\ UNCHANGED <<pending, timed_out, round, alive>>

-----------------------------------------------------------------------------
(* Time and the network *)

Expire(a) ==
    /\ \E i \in DOMAIN paths :
          /\ paths[i].addr = a
          /\ paths[i].fresh
          /\ paths' = [paths EXCEPT ![i].fresh = FALSE]
    /\ UNCHANGED <<active, pending, timed_out, round, alive>>

Overdue(p) ==
    /\ pending[p] = "sent"
    /\ pending' = [pending EXCEPT ![p] = "overdue"]
    /\ UNCHANGED <<paths, active, timed_out, round, alive>>

Reachability(a) ==
    /\ alive' = IF a \in alive THEN alive \ {a} ELSE alive \cup {a}
    /\ UNCHANGED <<paths, active, pending, timed_out, round>>

PingLoop ==
    \/ check_ping_timeouts
    \/ \E p \in Pings : RecordTimeout(p)
    \/ SendPings

PathsNext ==
    \/ PingLoop
    \/ \E p \in Pings, a \in AllAddrs : Pong(p, a)
    \/ \E a \in Addrs : add_peer_candidate(a) \/ set_direct_path(a)
    \/ ReplacePeer
    \/ \E a \in AllAddrs : Expire(a) \/ Reachability(a)
    \/ \E p \in Pings : Overdue(p)

PathsSpec == PathsInit /\ [][PathsNext]_paths_vars

(* The timer keeps the ping loop going, and time passes. *)
FairSpec ==
    /\ PathsSpec
    /\ WF_paths_vars(PingLoop)
    /\ \A a \in AllAddrs : WF_paths_vars(Expire(a))
    /\ \A p \in Pings : WF_paths_vars(Overdue(p))

-----------------------------------------------------------------------------

(***************************************************************************)
(* When the active path changes, the new one had a sign of life within 5 s *)
(* (or is new), or it is the relay: reevaluate never moves to a path known *)
(* to be silent.                                                           *)
(***************************************************************************)
MovesToFresh ==
    [][active_addr' # active_addr => paths'[active'].fresh \/ active_addr' = Relay]_paths_vars

(***************************************************************************)
(* Traffic does not stay on a direct path that no longer works: the pings  *)
(* time out, the timeouts are recorded as failures, and the path is left,  *)
(* for the relay if need be (run_ping_loop, record_failure).               *)
(***************************************************************************)
DeadPathIsLeft ==
    \A a \in Addrs : ~<>[](a \notin alive /\ active_addr = a)
============================================================================
