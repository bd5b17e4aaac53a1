------------------------------- MODULE Relay --------------------------------
(***************************************************************************)
(* The supernode's data relay (Supernode::run, crates/r2n-supernode-lib).  *)
(* The receive loop copies a data frame for a known node into a slot of    *)
(* the packet slab (crates/r2n-slab) and leaves it to a task of its own,   *)
(* which reads the slot, sends, and gives the slot back; the tasks run in  *)
(* any order, while the loop goes on and nodes register anew.  A frame is  *)
(* named by its bytes, so each is received once.                           *)
(***************************************************************************)
EXTENDS Integers, Sequences

CONSTANTS
    RelayFrames,
    RelaySlots,
    RelayNodes,
    RelayAddrs,
    Nothing          \* no slot, no frame, no address

ASSUME RelayAssumption ==
    Nothing \notin RelayFrames \cup RelaySlots \cup RelayAddrs

VARIABLES
    relay_free,      \* PacketSlab::free, how often each slot is in it
    relay_buf,       \* the frame whose bytes are in a slot
    relay_task,      \* what became of each frame
    node_addr,       \* NodeInfo::addr of the nodes registered
    relayed          \* history: what each frame's task has sent and where, in order

relay_vars == <<relay_free, relay_buf, relay_task, node_addr, relayed>>

RelayStages == {"new", "spawned", "sent", "done"}
NoTask == [stage |-> "new", slot |-> Nothing, addr |-> Nothing]
RelayTasks == [stage: RelayStages, slot: RelaySlots \cup {Nothing},
               addr: RelayAddrs \cup {Nothing}]

RelayInit ==
    /\ relay_free = [s \in RelaySlots |-> 1]
    /\ relay_buf = [s \in RelaySlots |-> Nothing]
    /\ relay_task = [f \in RelayFrames |-> NoTask]
    /\ node_addr = [n \in RelayNodes |-> Nothing]
    /\ relayed = [f \in RelayFrames |-> <<>>]

(* A node registers, perhaps from another address than before. *)
RelayRegister(n, a) ==
    /\ node_addr' = [node_addr EXCEPT ![n] = a]
    /\ UNCHANGED <<relay_free, relay_buf, relay_task, relayed>>

(* The target is known, a slot is free and the frame fits: it is copied, the task spawned. *)
RelayReceive(f, n, s) ==
    /\ relay_task[f].stage = "new"
    /\ node_addr[n] # Nothing
    /\ relay_free[s] > 0
    /\ relay_free' = [relay_free EXCEPT ![s] = @ - 1]
    /\ relay_buf' = [relay_buf EXCEPT ![s] = f]
    /\ relay_task' = [relay_task EXCEPT ![f] = [stage |-> "spawned", slot |-> s,
                                                addr |-> node_addr[n]]]
    /\ UNCHANGED <<node_addr, relayed>>

(* No slot, no such node, or too long: then the slot goes back to the freelist at once. *)
RelayDrop(f) ==
    /\ relay_task[f].stage = "new"
    /\ relay_task' = [relay_task EXCEPT ![f].stage = "done"]
    /\ UNCHANGED <<relay_free, relay_buf, node_addr, relayed>>

(* The task reads its slot; send_raw may fail, which is only logged. *)
RelaySend(f) ==
    LET task == relay_task[f] IN
    /\ task.stage = "spawned"
    /\ \/ relayed' = [relayed EXCEPT ![f] = Append(@, <<relay_buf[task.slot], task.addr>>)]
       \/ relayed' = relayed
    /\ relay_task' = [relay_task EXCEPT ![f].stage = "sent"]
    /\ UNCHANGED <<relay_free, relay_buf, node_addr>>

(* Mutant of RelayRelease: the slot is given back when the task is spawned. *)
RelayReleaseEarly(f) ==
    /\ relay_task[f].stage = "spawned"
    /\ relay_free' = [relay_free EXCEPT ![relay_task[f].slot] = 1]
    /\ UNCHANGED <<relay_buf, relay_task, node_addr, relayed>>

RelayRelease(f) ==
    /\ relay_task[f].stage = "sent"
    /\ relay_free' = [relay_free EXCEPT ![relay_task[f].slot] = @ + 1]
    /\ relay_task' = [relay_task EXCEPT ![f] = [stage |-> "done", slot |-> Nothing, addr |-> @.addr]]
    /\ UNCHANGED <<relay_buf, node_addr, relayed>>

RelayNext ==
    \/ \E n \in RelayNodes, a \in RelayAddrs : RelayRegister(n, a)
    \/ \E f \in RelayFrames, n \in RelayNodes, s \in RelaySlots : RelayReceive(f, n, s)
    \/ \E f \in RelayFrames : RelayDrop(f) \/ RelaySend(f) \/ RelayRelease(f)

RelaySpec == RelayInit /\ [][RelayNext]_relay_vars

-----------------------------------------------------------------------------

Relaying(f) == relay_task[f].stage \in {"spawned", "sent"}
RelayHolders(s) == {f \in RelayFrames : Relaying(f) /\ relay_task[f].slot = s}

(***************************************************************************)
(* Relaying loses no slot: each is in the freelist once and nobody's, or   *)
(* is one task's, also when sends fail, so the slab is exhausted only      *)
(* while as many frames are under way as it has slots.                     *)
(***************************************************************************)
RelaySlotsConserved ==
    \A s \in RelaySlots :
        \/ relay_free[s] = 1 /\ RelayHolders(s) = {}
        \/ relay_free[s] = 0 /\ \E f \in RelayFrames : RelayHolders(s) = {f}

(***************************************************************************)
(* What a task sends are the bytes of the frame it was spawned for, to the *)
(* address its target had on reception, and at most once, although slots   *)
(* are reused and the target may register from elsewhere meanwhile.        *)
(***************************************************************************)
RelaysIntact ==
    \A f \in RelayFrames : relayed[f] \in {<<>>, << <<f, relay_task[f].addr>> >>}
=============================================================================
