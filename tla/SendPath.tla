------------------------------ MODULE SendPath ------------------------------
(***************************************************************************)
(* DataPlane::send_to_peer (crates/r2n-dataplane) with the packet slab     *)
(* (crates/r2n-slab) and the QoS scheduler (crates/r2n-qos) it goes        *)
(* through.  Three tasks call it: the TUN loop, the ping loop and the UDP  *)
(* loop (pongs).  The awaits of the function are the scheduler's lock,     *)
(* send_raw, and the lock again; what lies between two of them is one      *)
(* step.  A call that fails before it has a slot (no room, payload too     *)
(* long, slab exhausted) changes nothing here.                             *)
(*                                                                         *)
(* The freelist is a bag of slots: a slot released twice is in it twice.   *)
(***************************************************************************)
EXTENDS Integers, Sequences, FiniteSets

CONSTANTS
    Tasks,
    Slots,
    BulkCapacity,    \* QosScheduler::new(2048)
    NoSlot

ASSUME SendPathAssumption ==
    /\ IsFiniteSet(Tasks) /\ IsFiniteSet(Slots)
    /\ NoSlot \notin Slots
    /\ BulkCapacity \in Nat \ {0}

VARIABLES
    free,        \* PacketSlab::free, how often each slot is in it
    buf,         \* whose frame the bytes of a slot are
    queues,      \* the scheduler's four queues
    pc,          \* how far a task's call is
    desc,        \* the descriptor the call owns
    class,       \* its traffic class
    lost         \* history: the slots of calls whose send_raw failed

send_vars == <<free, buf, queues, pc, desc, class, lost>>

Classes == {"Control", "Realtime", "Interactive", "Bulk"}
Stages == {"idle", "filled", "queued", "sent"}

SendType ==
    /\ free \in [Slots -> Nat]
    /\ buf \in [Slots -> Tasks \cup {NoSlot}]
    /\ queues \in [Classes -> Seq(Slots)]
    /\ pc \in [Tasks -> Stages]
    /\ desc \in [Tasks -> Slots \cup {NoSlot}]
    /\ class \in [Tasks -> Classes]
    /\ lost \subseteq Slots

SendInit ==
    /\ free = [s \in Slots |-> 1]
    /\ buf = [s \in Slots |-> NoSlot]
    /\ queues = [c \in Classes |-> <<>>]
    /\ pc = [t \in Tasks |-> "idle"]
    /\ desc = [t \in Tasks |-> NoSlot]
    /\ class = [t \in Tasks |-> "Bulk"]
    /\ lost = {}

-----------------------------------------------------------------------------
(* QosScheduler *)

push(q, c, s) ==
    IF c = "Bulk" /\ Len(q[c]) >= BulkCapacity
    THEN [q EXCEPT ![c] = Append(Tail(@), s)]
    ELSE [q EXCEPT ![c] = Append(@, s)]

(* Mutant of pop: the scheduler only looks, and keeps the item. *)
pop_peek(q) == q

(* The first class, in priority order, that has an item loses its oldest one. *)
pop(q) ==
    IF q["Control"] # <<>> THEN [q EXCEPT !["Control"] = Tail(@)]
    ELSE IF q["Realtime"] # <<>> THEN [q EXCEPT !["Realtime"] = Tail(@)]
    ELSE IF q["Interactive"] # <<>> THEN [q EXCEPT !["Interactive"] = Tail(@)]
    ELSE IF q["Bulk"] # <<>> THEN [q EXCEPT !["Bulk"] = Tail(@)]
    ELSE q

-----------------------------------------------------------------------------
(* send_to_peer *)

(* slab.acquire, the nonce, header and payload written to the slot, encrypted in place *)
FillSlot(t, c) ==
    /\ pc[t] = "idle"
    /\ \E s \in Slots :
          /\ free[s] > 0
          /\ free' = [free EXCEPT ![s] = @ - 1]
          /\ desc' = [desc EXCEPT ![t] = s]
          /\ buf' = [buf EXCEPT ![s] = t]
    /\ class' = [class EXCEPT ![t] = c]
    /\ pc' = [pc EXCEPT ![t] = "filled"]
    /\ UNCHANGED <<queues, lost>>

Push(t) ==
    /\ pc[t] = "filled"
    /\ queues' = push(queues, class[t], desc[t])
    /\ pc' = [pc EXCEPT ![t] = "queued"]
    /\ UNCHANGED <<free, buf, desc, class, lost>>

SendRaw(t) ==
    /\ pc[t] = "queued"
    /\ pc' = [pc EXCEPT ![t] = "sent"]
    /\ UNCHANGED <<free, buf, queues, desc, class, lost>>

(* Mutant of SendRawFails: the error path releases the slot, and so does the caller. *)
SendRawFailsTwice(t) ==
    /\ pc[t] = "queued"
    /\ free' = [free EXCEPT ![desc[t]] = @ + 2]
    /\ pc' = [pc EXCEPT ![t] = "idle"]
    /\ desc' = [desc EXCEPT ![t] = NoSlot]
    /\ UNCHANGED <<buf, queues, class, lost>>

(* send_raw fails: the `?' returns at once, past both the pop and the release. *)
SendRawFails(t) ==
    /\ pc[t] = "queued"
    /\ lost' = lost \cup {desc[t]}
    /\ pc' = [pc EXCEPT ![t] = "idle"]
    /\ desc' = [desc EXCEPT ![t] = NoSlot]
    /\ UNCHANGED <<free, buf, queues, class>>

(* Mutant of FinishSend: what is released is the descriptor the scheduler returned. *)
FinishReleasingPopped(t) ==
    /\ pc[t] = "sent"
    /\ \E c \in Classes :
          /\ queues[c] # <<>>
          /\ pop(queues)[c] # queues[c]
          /\ free' = [free EXCEPT ![Head(queues[c])] = @ + 1]
    /\ queues' = pop(queues)
    /\ desc' = [desc EXCEPT ![t] = NoSlot]
    /\ pc' = [pc EXCEPT ![t] = "idle"]
    /\ UNCHANGED <<buf, class, lost>>

(* The pop's result, possibly another call's descriptor, is dropped; the own slot is released. *)
FinishSend(t) ==
    /\ pc[t] = "sent"
    /\ queues' = pop(queues)
    /\ free' = [free EXCEPT ![desc[t]] = @ + 1]
    /\ desc' = [desc EXCEPT ![t] = NoSlot]
    /\ pc' = [pc EXCEPT ![t] = "idle"]
    /\ UNCHANGED <<buf, class, lost>>

SendNext ==
    \E t \in Tasks :
        \/ \E c \in Classes : FillSlot(t, c)
        \/ Push(t)
        \/ SendRaw(t)
        \/ SendRawFails(t)
        \/ FinishSend(t)

SendSpec == SendInit /\ [][SendNext]_send_vars

-----------------------------------------------------------------------------

Holders(s) == {t \in Tasks : desc[t] = s}

(***************************************************************************)
(* "Packet slots are only mutated via descriptor ownership from the        *)
(* freelist" (crates/r2n-slab): every slot is in the freelist once, or     *)
(* owned by exactly one call, or was lost to a failed send_raw, and never  *)
(* two of these, although the scheduler hands each call another call's     *)
(* descriptor.                                                             *)
(***************************************************************************)
SlotHasOneOwner ==
    \A s \in Slots :
        \/ free[s] = 1 /\ Holders(s) = {} /\ s \notin lost
        \/ free[s] = 0 /\ s \notin lost /\ \E t \in Tasks : Holders(s) = {t}
        \/ free[s] = 0 /\ Holders(s) = {} /\ s \in lost

(***************************************************************************)
(* The bytes send_raw reads are the ones the same call wrote: nobody       *)
(* writes to a slot between with_slot_mut and the end of the send.         *)
(***************************************************************************)
FramesIntact ==
    \A t \in Tasks : pc[t] # "idle" => buf[desc[t]] = t

(* Items in the scheduler *)
Queued == Len(queues["Control"]) + Len(queues["Realtime"])
          + Len(queues["Interactive"]) + Len(queues["Bulk"])

(***************************************************************************)
(* The control, realtime and interactive queues of QosScheduler have no    *)
(* bound of their own.  Still none grows without one: every push is paired *)
(* with a pop or with a slot lost to a failed send, so the scheduler never *)
(* holds more than one item per slot, and the bulk queue keeps to its      *)
(* capacity.                                                               *)
(***************************************************************************)
QueuesBounded ==
    /\ Queued <= Cardinality(lost) + Cardinality({t \in Tasks : pc[t] \in {"queued", "sent"}})
    /\ Len(queues["Bulk"]) <= BulkCapacity
============================================================================
