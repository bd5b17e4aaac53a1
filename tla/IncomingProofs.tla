--------------------------- MODULE IncomingProofs ----------------------------
(***************************************************************************)
(* Proofs about the packets that pass through an edge: what the data plane *)
(* does with a frame (Incoming), and what the traffic policy and the       *)
(* discovery proxies let through (Traffic).                                *)
(***************************************************************************)
EXTENDS Incoming, Traffic, NaturalsInduction, TLAPS

-----------------------------------------------------------------------------
(***************************************************************************)
(* Proofs about Incoming, for any nodes, rooms, MACs and limits: where a   *)
(* frame is written, where a frame of the TAP device is sent, and how      *)
(* often a flood is let through.                                           *)
(***************************************************************************)

(***************************************************************************)
(* As long as no leave has overlapped an activation, device and dataplane  *)
(* are of one room, the device goes first, and the frame in hand is of the *)
(* room whose device is open.  ActivateRoom keeps this because the task    *)
(* that activates is the one that holds the frame.                         *)
(***************************************************************************)
InTurn ==
    /\ leave \in {"idle", "tun", "clear", "dataplane"}
    /\ leave = "idle" => tun = room_id /\ dp_room = room_id
    /\ leave # "idle" => room_id = None
    /\ leave = "tun" => dp_room = tun
    /\ leave \in {"clear", "dataplane"} => tun = None
    /\ stage # "idle" => tun \in {frame.room, None}

RoomInv ==
    /\ overlapped \in BOOLEAN
    /\ ~overlapped => InTurn
    /\ WrittenToOwnRoom

(* Steps that leave rooms and the frame alone and write nothing keep RoomInv. *)
LEMMA QuietStep ==
    ASSUME RoomInv, UNCHANGED <<rooms, frame, stage>>, out'.kind # "write"
    PROVE  RoomInv'
  BY Zenon DEF RoomInv, InTurn, WrittenToOwnRoom, rooms

(* Discarding the frame in hand keeps RoomInv. *)
LEMMA DiscardStep ==
    ASSUME RoomInv, UNCHANGED rooms, Discard, out'.kind # "write"
    PROVE  RoomInv'
  BY Zenon DEF RoomInv, InTurn, WrittenToOwnRoom, rooms, Discard

LEMMA RoomInvStep == RoomInv /\ [Next]_vars => RoomInv'
<1> SUFFICES ASSUME RoomInv, [Next]_vars PROVE RoomInv'
  BY Zenon
<1> USE DEF Nothing
<1>1. ASSUME NEW f \in Frames, Receive(f) PROVE RoomInv'
  BY <1>1, Zenon DEF Receive, ValidHeader, RoomInv, InTurn, WrittenToOwnRoom, rooms
<1>2. ASSUME NEW f \in Frames, ReceiveRefused(f) PROVE RoomInv'
  BY <1>2, QuietStep, Zenon DEF ReceiveRefused
<1>3. CASE Lookup
  <2>1. CASE Discard
    BY <1>3, <2>1, DiscardStep, Zenon DEF Lookup
  <2>2. CASE stage' = "found" /\ UNCHANGED frame
    BY <1>3, <2>2, Zenon DEF Lookup, RoomInv, InTurn, WrittenToOwnRoom, rooms
  <2>3. QED
    BY <1>3, <2>1, <2>2, Zenon DEF Lookup
<1>4. CASE Deliver
  <2>1. CASE out' = Nothing
    BY <1>4, <2>1, DiscardStep, Zenon DEF Deliver
  <2>2. CASE tun # None /\ out' = [kind |-> "write", room |-> frame.room, device |-> tun]
    <3>1. ~overlapped => frame.room = tun
      BY <1>4, <2>2, Zenon DEF Deliver, RoomInv, InTurn
    <3>2. QED
      BY <1>4, <2>2, <3>1, Zenon DEF Deliver, Discard, RoomInv, InTurn, WrittenToOwnRoom, rooms
  <2>3. QED
    BY <1>4, <2>1, <2>2, Zenon DEF Deliver
<1>5. ASSUME NEW n \in Nodes, upsert_peer(n) PROVE RoomInv'
  BY <1>5, QuietStep, Zenon DEF upsert_peer
<1>6. ASSUME NEW n \in Nodes, remove_peer(n) PROVE RoomInv'
  BY <1>6, QuietStep, Zenon DEF remove_peer
<1>7. ASSUME NEW r \in Rooms, ActivateRoom(r) PROVE RoomInv'
  <2>1. out'.kind # "write" /\ stage' = "idle" /\ leave' = leave
    BY <1>7, Zenon DEF ActivateRoom
  <2>2. overlapped' \in BOOLEAN
    BY <1>7, Zenon DEF ActivateRoom, RoomInv
  <2>3. ASSUME ~overlapped' PROVE InTurn'
    <3>1. ~overlapped /\ leave = "idle" /\ InTurn
      BY <1>7, <2>3, Zenon DEF ActivateRoom, RoomInv
    <3>2. QED
      BY <1>7, <2>1, <3>1, Zenon DEF ActivateRoom, InTurn
  <2>4. QED
    BY <2>1, <2>2, <2>3, Zenon DEF RoomInv, WrittenToOwnRoom
<1>8. CASE LeaveBegin
  BY <1>8, Zenon DEF LeaveBegin, RoomInv, InTurn, WrittenToOwnRoom
<1>9. CASE LeaveTun
  BY <1>9, Zenon DEF LeaveTun, RoomInv, InTurn, WrittenToOwnRoom
<1>10. CASE clear_peers
  BY <1>10, Zenon DEF clear_peers, RoomInv, InTurn, WrittenToOwnRoom
<1>11. CASE LeaveDataplane
  BY <1>11, Zenon DEF LeaveDataplane, RoomInv, InTurn, WrittenToOwnRoom
<1>12. ASSUME NEW m \in Macs, Forward(m) PROVE RoomInv'
  BY <1>12, QuietStep DEF Forward
<1>13. ASSUME NEW m \in Macs, AgeMac(m) PROVE RoomInv'
  BY <1>13, QuietStep, Zenon DEF AgeMac
<1>14. CASE AgeFlood
  BY <1>14, QuietStep, Zenon DEF AgeFlood
<1>15. CASE UNCHANGED vars
  BY <1>15, Zenon DEF vars, RoomInv, InTurn, WrittenToOwnRoom
<1>16. QED
  BY <1>1, <1>2, <1>3, <1>4, <1>5, <1>6, <1>7, <1>8, <1>9, <1>10, <1>11, <1>12, <1>13,
     <1>14, <1>15, Zenon DEF Next

(***************************************************************************)
(* handle_incoming_frame writes a frame to the device of the room its      *)
(* header was validated for, in every interleaving with deactivate_room in *)
(* which no leave has overlapped an activation.                            *)
(***************************************************************************)
THEOREM WritesToOwnRoom == Spec => []WrittenToOwnRoom
<1>1. ASSUME Init PROVE RoomInv
  <2>1. out.kind # "write"
    BY <1>1, Zenon DEF Init, Nothing
  <2>2. overlapped = FALSE /\ InTurn
    BY <1>1, Zenon DEF Init, InTurn
  <2>3. QED
    BY <2>1, <2>2, Zenon DEF RoomInv, WrittenToOwnRoom
<1>2. RoomInv => WrittenToOwnRoom
  BY Zenon DEF RoomInv
<1>3. QED
  BY <1>1, <1>2, RoomInvStep, PTL DEF Spec

-----------------------------------------------------------------------------

(***************************************************************************)
(* Every entry names the node its MAC was heard from last, and unless a    *)
(* leave raced with a frame, that node is a peer.  The second needs that   *)
(* the peer looked up for the frame in hand is still there.                *)
(***************************************************************************)
MacInv ==
    /\ mac_table \in [Macs -> Nodes \cup {None}]
    /\ heard \in [Macs -> Nodes \cup {None}]
    /\ \A m \in Macs : mac_table[m] # None => heard[m] = mac_table[m]
    /\ None \notin peers
    /\ raced \in BOOLEAN
    /\ stage # "idle" => frame.mac \in Macs /\ frame.src \in Nodes
    /\ ~raced /\ stage = "found" => frame.src \in peers
    /\ EntriesHavePeers
    /\ ForwardsToLastHeard
macs == <<mac_table, heard, peers, raced>>

(* Steps that leave the table, the peers and the frame alone and forward nothing *)
LEMMA QuietMacStep ==
    ASSUME MacInv, UNCHANGED macs, UNCHANGED <<frame, stage>> \/ Discard,
           out'.kind # "forward"
    PROVE  MacInv'
  BY Zenon DEF MacInv, macs, Discard, EntriesHavePeers, ForwardsToLastHeard, Learned

LEMMA MacInvStep == MacInv /\ [Next]_vars => MacInv'
<1> SUFFICES ASSUME MacInv, [Next]_vars PROVE MacInv'
  BY Zenon
<1> USE DEF Nothing, macs, tables
<1>1. ASSUME NEW f \in Frames, Receive(f) PROVE MacInv'
  <2>1. f.mac \in Macs /\ f.src \in Nodes
    BY <1>1, Zenon DEF Receive, ValidHeader, Frames
  <2>2. frame' = f /\ stage' = "validated" /\ UNCHANGED macs /\ out'.kind # "forward"
    BY <1>1, Zenon DEF Receive
  <2>3. QED
    BY <2>1, <2>2, Zenon DEF MacInv, EntriesHavePeers, ForwardsToLastHeard, Learned
<1>2. ASSUME NEW f \in Frames, ReceiveRefused(f) PROVE MacInv'
  BY <1>2, QuietMacStep, Zenon DEF ReceiveRefused
<1>3. CASE Lookup
  <2>1. UNCHANGED macs /\ out'.kind # "forward"
    BY <1>3, Zenon DEF Lookup
  <2>2. CASE Discard
    BY <2>1, <2>2, QuietMacStep, Zenon
  <2>3. CASE frame.src \in peers /\ stage' = "found" /\ UNCHANGED frame
    BY <1>3, <2>1, <2>3 DEF Lookup, MacInv, EntriesHavePeers, ForwardsToLastHeard, Learned
  <2>4. QED
    BY <1>3, <2>2, <2>3, Zenon DEF Lookup
<1>4. CASE Deliver
  <2> DEFINE t == Entered(frame.mac, frame.src)
  <2>1. /\ frame.mac \in Macs /\ frame.src \in Nodes /\ stage' = "idle"
        /\ UNCHANGED <<peers, raced>> /\ out'.kind # "forward"
        /\ heard' = [heard EXCEPT ![frame.mac] = frame.src]
    BY <1>4 DEF Deliver, Discard, MacInv
  <2>2. /\ mac_table' \in [Macs -> Nodes \cup {None}]
        /\ \A m \in Macs : mac_table'[m] \in {None, t[m]}
    <3>1. t \in [Macs -> Nodes \cup {None}]
      BY <2>1, Zenon DEF Entered, prune_mac_table, Without, MacInv
    <3>2. mac_table' = t \/ \E old \in Macs : mac_table' = Without(t, {old})
      BY <1>4, Zenon DEF Deliver, learn_mac, Learned
    <3>3. QED
      BY <3>1, <3>2, Zenon DEF Without
  <2>3. \A m \in Macs : t[m] = IF m = frame.mac THEN frame.src
                               ELSE IF m \in idle THEN None ELSE mac_table[m]
    BY <2>1, Zenon DEF Entered, prune_mac_table, Without
  <2>4. heard' \in [Macs -> Nodes \cup {None}]
    BY <2>1, Zenon DEF MacInv
  <2>5. \A m \in Macs : mac_table'[m] # None => heard'[m] = mac_table'[m]
    BY <2>1, <2>2, <2>3, Zenon DEF MacInv
  <2>6. EntriesHavePeers'
    <3> SUFFICES ASSUME ~raced, NEW m \in Macs, mac_table'[m] # None
                 PROVE  mac_table'[m] \in peers
      BY <2>1, Zenon DEF EntriesHavePeers, Learned
    <3>1. frame.src \in peers
      BY <1>4, Zenon DEF Deliver, MacInv
    <3>2. QED
      BY <2>2, <2>3, <3>1, Zenon DEF MacInv, EntriesHavePeers, Learned
  <2>7. QED
    BY <2>1, <2>2, <2>4, <2>5, <2>6, Zenon DEF MacInv, ForwardsToLastHeard
<1>5. ASSUME NEW n \in Nodes, upsert_peer(n) PROVE MacInv'
  BY <1>5, IncomingAssumption, Zenon
     DEF upsert_peer, MacInv, EntriesHavePeers, ForwardsToLastHeard, Learned
<1>6. ASSUME NEW n \in Nodes, remove_peer(n) PROVE MacInv'
  BY <1>6, Zenon DEF remove_peer, EntriesOf, Without, MacInv, EntriesHavePeers,
              ForwardsToLastHeard, Learned
<1>7. ASSUME NEW r \in Rooms, ActivateRoom(r) PROVE MacInv'
  BY <1>7, QuietMacStep, Zenon DEF ActivateRoom
<1>8. CASE LeaveBegin
  BY <1>8, QuietMacStep, Zenon DEF LeaveBegin
<1>9. CASE LeaveTun
  BY <1>9, QuietMacStep, Zenon DEF LeaveTun
<1>10. CASE clear_peers
  BY <1>10, Zenon DEF clear_peers, MacInv, EntriesHavePeers, ForwardsToLastHeard, Learned
<1>11. CASE LeaveDataplane
  BY <1>11, QuietMacStep, Zenon DEF LeaveDataplane
<1>12. ASSUME NEW mac \in Macs, Forward(mac) PROVE MacInv'
  <2>1. /\ mac_table' = Without(mac_table, idle)
        /\ UNCHANGED <<peers, heard, raced, frame, stage>>
    BY <1>12, Zenon DEF Forward, prune_mac_table
  <2>2. /\ mac_table' \in [Macs -> Nodes \cup {None}]
        /\ \A m \in Macs : mac_table'[m] \in {None, mac_table[m]}
    BY <2>1, Zenon DEF Without, MacInv
  <2>3. EntriesHavePeers'
    BY <2>1, <2>2, Zenon DEF MacInv, EntriesHavePeers, Learned
  <2>4. ForwardsToLastHeard'
    <3>1. CASE out'.kind # "forward"
      BY <3>1, Zenon DEF ForwardsToLastHeard
    <3>2. CASE out' = [kind |-> "forward", mac |-> mac, nodes |-> select_l2_targets(mac)]
      <4>1. out'.mac = mac /\ out'.nodes = select_l2_targets(mac)
        BY <3>2, Zenon
      <4>2. UnicastTarget(mac) = {mac_table'[mac]} \cap peers
        BY <2>1, Zenon DEF UnicastTarget, prune_mac_table
      <4>3. CASE UnicastTarget(mac) = {}
        BY <2>1, <4>1, <4>3, Zenon DEF select_l2_targets, ForwardsToLastHeard
      <4>4. CASE UnicastTarget(mac) # {}
        <5>1. mac_table'[mac] \in peers /\ UnicastTarget(mac) = {mac_table'[mac]}
          BY <4>2, <4>4, Zenon
        <5>2. heard[mac] = mac_table'[mac]
          BY <2>2, <5>1, Zenon DEF MacInv
        <5>3. QED
          BY <2>1, <4>1, <4>4, <5>1, <5>2, Zenon DEF select_l2_targets, ForwardsToLastHeard
      <4>5. QED
        BY <4>3, <4>4, Zenon
    <3>3. QED
      BY <1>12, <3>1, <3>2 DEF Forward
  <2>5. QED
    BY <2>1, <2>2, <2>3, <2>4, Zenon DEF MacInv
<1>13. ASSUME NEW m \in Macs, AgeMac(m) PROVE MacInv'
  BY <1>13, QuietMacStep, Zenon DEF AgeMac
<1>14. CASE AgeFlood
  BY <1>14, QuietMacStep, Zenon DEF AgeFlood
<1>15. CASE UNCHANGED vars
  BY <1>15, Zenon DEF vars, MacInv, EntriesHavePeers, ForwardsToLastHeard, Learned
<1>16. QED
  BY <1>1, <1>2, <1>3, <1>4, <1>5, <1>6, <1>7, <1>8, <1>9, <1>10, <1>11, <1>12, <1>13,
     <1>14, <1>15, Zenon DEF Next

LEMMA MacInvInit == Init => MacInv
<1> SUFFICES ASSUME Init PROVE MacInv
  BY Zenon
<1>1. out.kind # "forward"
  BY Zenon DEF Init, Nothing
<1>2. QED
  BY <1>1, Zenon DEF Init, MacInv, EntriesHavePeers, ForwardsToLastHeard, Learned

(***************************************************************************)
(* select_l2_targets sends to the node a MAC was heard from last, or to    *)
(* all peers, whatever was learned, forgotten or removed before.           *)
(***************************************************************************)
THEOREM ForwardsRight == Spec => []ForwardsToLastHeard
<1>1. MacInv => ForwardsToLastHeard
  BY Zenon DEF MacInv
<1>2. QED
  BY <1>1, MacInvInit, MacInvStep, PTL DEF Spec

(***************************************************************************)
(* No entry of the MAC table outlives its peer, but for a leave that runs  *)
(* between the look at the peers and learn_mac.                            *)
(***************************************************************************)
THEOREM NoOrphanEntries == Spec => []EntriesHavePeers
<1>1. MacInv => EntriesHavePeers
  BY Zenon DEF MacInv
<1>2. QED
  BY <1>1, MacInvInit, MacInvStep, PTL DEF Spec

-----------------------------------------------------------------------------
(***************************************************************************)
(* SeenFloodPackets.  The queue is the end of the list of all floods let   *)
(* through, in order, without repetition, and the set is the queue's keys; *)
(* what has left the queue is too old, or so many others came after it     *)
(* that the next one is beyond the capacity.                               *)
(***************************************************************************)
Entries == [key : Keys, at : Nat]

(* in the list l all floods of one key are far enough apart; RecentFloodsOnce says it of log *)
Apart(l) ==
    \A j \in DOMAIN l : \A i \in 1 .. j - 1 :
        l[i].key = l[j].key => i <= l[j].aged \/ j - i > SEEN_FLOOD_CAPACITY

(* queue, set and list of what was let through belong together *)
Remembers(q, keys, l) ==
    /\ l \in Seq([key : Keys, aged : Nat])
    /\ q \in Seq(Entries)
    /\ Len(q) <= Len(l)
    /\ \A i \in 1 .. Len(q) : /\ q[i].at = Len(l) - Len(q) + i
                              /\ q[i].key = l[Len(l) - Len(q) + i].key
    /\ \A i, j \in 1 .. Len(q) : q[i].key = q[j].key => i = j
    /\ keys = Recorded(q)
    /\ \A i \in 1 .. Len(l) - Len(q) : i <= aged \/ Len(l) - i >= SEEN_FLOOD_CAPACITY
    /\ Apart(l)

FloodInv == aged \in Nat /\ Remembers(order, set, log) /\ Len(order) <= SEEN_FLOOD_CAPACITY

floods == <<order, set, log, aged>>

(* What prune leaves of a queue whose entries came one after the other *)
LEMMA PruneFacts ==
    ASSUME NEW q \in Seq(Entries), NEW b \in Nat, aged \in Nat,
           \A i \in 1 .. Len(q) : q[i].at = b + i
    PROVE  /\ Popped(q) \in 0 .. Len(q)
           /\ Len(q) - Popped(q) <= SEEN_FLOOD_CAPACITY
           /\ \A i \in 1 .. Popped(q) : Len(q) - i >= SEEN_FLOOD_CAPACITY \/ b + i <= aged
           /\ pruned(q) \in Seq(Entries)
           /\ Len(pruned(q)) = Len(q) - Popped(q)
           /\ \A i \in 1 .. Len(q) - Popped(q) : pruned(q)[i] = q[Popped(q) + i]
<1> DEFINE o == Overflowing(q)
           P(k) == /\ \A i \in o + 1 .. k : q[i].at <= aged
                   /\ k < Len(q) => q[k + 1].at > aged
           old == IF aged <= b THEN 0 ELSE IF aged - b >= Len(q) THEN Len(q) ELSE aged - b
           w == IF old > o THEN old ELSE o
<1>1. Len(q) \in Nat /\ o \in 0 .. Len(q)
      /\ (o # 0 => o = Len(q) - SEEN_FLOOD_CAPACITY) /\ Len(q) - o <= SEEN_FLOOD_CAPACITY
  BY IncomingAssumption DEF Overflowing
<1>2. w \in o .. Len(q) /\ P(w)
  <2>1. old \in 0 .. Len(q) /\ w \in o .. Len(q)
    BY <1>1
  <2>2. \A i \in 1 .. old : q[i].at <= aged
    BY <2>1, <1>1
  <2>3. ASSUME w < Len(q) PROVE q[w + 1].at > aged
    <3>1. w + 1 \in 1 .. Len(q) /\ old <= w /\ old < Len(q)
      BY <2>1, <2>3, <1>1
    <3>2. q[w + 1].at = b + (w + 1)
      BY <3>1, Zenon
    <3>3. aged <= b + old
      BY <3>1
    <3> HIDE DEF w, old
    <3> QED BY <2>1, <3>1, <3>2, <3>3, <1>1
  <2>4. \A i \in o + 1 .. w : q[i].at <= aged
    BY <2>1, <2>2, <1>1
  <2> QED BY <2>1, <2>3, <2>4, Zenon
<1>3. Popped(q) \in o .. Len(q) /\ P(Popped(q))
  <2>1. Popped(q) = CHOOSE k \in o .. Len(q) : P(k)
    BY Zenon DEF Popped
  <2> HIDE DEF P, o, w
  <2> QED BY <1>2, <2>1, Zenon
<1>4. Popped(q) \in 0 .. Len(q) /\ Len(q) - Popped(q) <= SEEN_FLOOD_CAPACITY
  BY <1>1, <1>3, IncomingAssumption
<1>5. ASSUME NEW i \in 1 .. Popped(q)
      PROVE  Len(q) - i >= SEEN_FLOOD_CAPACITY \/ b + i <= aged
  <2>1. CASE i <= o
    BY <1>1, <1>3, <2>1, IncomingAssumption
  <2>2. CASE i > o
    <3>1. i \in o + 1 .. Popped(q) /\ i \in 1 .. Len(q)
      BY <1>1, <1>4, <2>2
    <3>2. q[i].at <= aged /\ q[i].at = b + i
      BY <1>3, <3>1, Zenon
    <3> QED BY <3>2, Zenon
  <2> QED BY <2>1, <2>2, <1>1, <1>3
<1>6. /\ pruned(q) \in Seq(Entries)
      /\ Len(pruned(q)) = Len(q) - Popped(q)
      /\ \A i \in 1 .. Len(q) - Popped(q) : pruned(q)[i] = q[Popped(q) + i]
  BY <1>1, <1>4, SMTT(30) DEF pruned
<1> QED BY <1>4, <1>5, <1>6, Zenon

(* The keys a queue without repetition keeps are those that prune does not forget. *)
LEMMA ForgottenFacts ==
    ASSUME NEW q \in Seq(Entries), NEW b \in Nat, aged \in Nat,
           \A i \in 1 .. Len(q) : q[i].at = b + i,
           \A i, j \in 1 .. Len(q) : q[i].key = q[j].key => i = j
    PROVE  Recorded(q) \ Forgotten(q) = Recorded(pruned(q))
<1> DEFINE k == Popped(q)
<1>1. /\ Len(q) \in Nat /\ DOMAIN q = 1 .. Len(q)
      /\ k \in 0 .. Len(q)
      /\ DOMAIN pruned(q) = 1 .. Len(q) - k
      /\ \A i \in 1 .. Len(q) - k : pruned(q)[i] = q[k + i]
  <2>1. /\ k \in 0 .. Len(q) /\ pruned(q) \in Seq(Entries) /\ Len(pruned(q)) = Len(q) - k
        /\ \A i \in 1 .. Len(q) - k : pruned(q)[i] = q[k + i]
    BY PruneFacts, Zenon
  <2> HIDE DEF k
  <2> QED BY <2>1, SMTT(30)
<1> HIDE DEF k
<1>2. ASSUME NEW x \in Recorded(q), x \notin Forgotten(q) PROVE x \in Recorded(pruned(q))
  <2>1. PICK i \in 1 .. Len(q) : x = q[i].key
    BY <1>1, Zenon DEF Recorded
  <2>2. i > k
    <3>1. i \notin 1 .. k
      BY <1>2, <2>1, Zenon DEF Forgotten, k
    <3> QED BY <1>1, <3>1
  <2>3. i - k \in 1 .. Len(q) - k /\ k + (i - k) = i
    BY <1>1, <2>2
  <2>4. pruned(q)[i - k] = q[i]
    BY <1>1, <2>3, Zenon
  <2> QED BY <1>1, <2>1, <2>3, <2>4, Zenon DEF Recorded
<1>3. ASSUME NEW x \in Recorded(pruned(q)) PROVE x \in Recorded(q) /\ x \notin Forgotten(q)
  <2>1. PICK i \in 1 .. Len(q) - k : x = q[k + i].key
    BY <1>1 DEF Recorded
  <2>2. k + i \in 1 .. Len(q) /\ k + i > k
    BY <1>1
  <2>3. x \in Recorded(q)
    BY <1>1, <2>1, <2>2, Zenon DEF Recorded
  <2>4. ASSUME NEW j \in 1 .. k, x = q[j].key PROVE FALSE
    <3>1. j \in 1 .. Len(q) /\ j # k + i
      BY <1>1
    <3> QED BY <2>1, <2>2, <2>4, <3>1, Zenon
  <2> QED BY <2>3, <2>4, Zenon DEF Forgotten, k
<1> QED BY <1>2, <1>3, Zenon

(* prune keeps queue, set and list together, and the queue to its capacity. *)
LEMMA PruneKeeps ==
    ASSUME NEW q, NEW keys, NEW l, aged \in Nat, Remembers(q, keys, l)
    PROVE  /\ Remembers(pruned(q), keys \ Forgotten(q), l)
           /\ Len(pruned(q)) <= SEEN_FLOOD_CAPACITY
<1> DEFINE k == Popped(q)
           p == pruned(q)
           b == Len(l) - Len(q)
<1>1. Len(q) \in Nat /\ Len(l) \in Nat /\ b \in Nat /\ Len(l) = b + Len(q)
  BY DEF Remembers
<1>2. /\ k \in 0 .. Len(q) /\ Len(q) - k <= SEEN_FLOOD_CAPACITY
      /\ \A i \in 1 .. k : Len(q) - i >= SEEN_FLOOD_CAPACITY \/ b + i <= aged
      /\ p \in Seq(Entries)
      /\ Len(p) = Len(q) - k
      /\ \A i \in 1 .. Len(q) - k : p[i] = q[k + i]
  BY <1>1, PruneFacts, ZenonT(30) DEF Remembers
<1>3. keys \ Forgotten(q) = Recorded(p)
  BY <1>1, ForgottenFacts, ZenonT(30) DEF Remembers
<1> HIDE DEF k, p
<1>4. Len(l) - Len(p) = b + k /\ Len(p) <= Len(l) /\ Len(p) \in Nat
  BY <1>1, <1>2
<1>5. ASSUME NEW i \in 1 .. Len(p)
      PROVE  /\ p[i].at = Len(l) - Len(p) + i
             /\ p[i].key = l[Len(l) - Len(p) + i].key
  <2>1. k + i \in 1 .. Len(q) /\ b + (k + i) = Len(l) - Len(p) + i /\ p[i] = q[k + i]
    BY <1>1, <1>2, <1>4
  <2>2. q[k + i].at = b + (k + i) /\ q[k + i].key = l[b + (k + i)].key
    BY <2>1, Zenon DEF Remembers
  <2> QED BY <2>1, <2>2, Zenon
<1>6. ASSUME NEW i \in 1 .. Len(p), NEW j \in 1 .. Len(p), p[i].key = p[j].key
      PROVE  i = j
  <2>1. /\ k + i \in 1 .. Len(q) /\ k + j \in 1 .. Len(q)
        /\ p[i] = q[k + i] /\ p[j] = q[k + j]
    BY <1>1, <1>2, <1>4, SMTT(30)
  <2>2. k + i = k + j
    BY <2>1, <1>6, Zenon DEF Remembers
  <2> QED BY <2>2, <1>2
<1>7. ASSUME NEW i \in 1 .. Len(l) - Len(p)
      PROVE  i <= aged \/ Len(l) - i >= SEEN_FLOOD_CAPACITY
  <2>1. CASE i <= b
    BY <2>1, <1>1 DEF Remembers
  <2>2. CASE i > b
    <3>1. i - b \in 1 .. k /\ b + (i - b) = i /\ Len(q) - (i - b) = Len(l) - i
      BY <2>2, <1>1, <1>2, <1>4
    <3>2. Len(q) - (i - b) >= SEEN_FLOOD_CAPACITY \/ b + (i - b) <= aged
      BY <3>1, <1>2, Zenon
    <3> QED BY <3>1, <3>2, Zenon
  <2> QED BY <2>1, <2>2, <1>1, <1>2, <1>4
<1>8. Remembers(p, keys \ Forgotten(q), l)
  BY <1>2, <1>3, <1>4, <1>5, <1>6, <1>7, Zenon DEF Remembers
<1> QED BY <1>2, <1>8, Zenon DEF p

(* A key that the set does not hold may be entered. *)
LEMMA InsertKeeps ==
    ASSUME NEW q, NEW keys, NEW l, aged \in Nat, Remembers(q, keys, l),
           NEW key \in Keys, key \notin keys
    PROVE  Remembers(Append(q, [key |-> key, at |-> Len(l) + 1]), keys \cup {key},
                     Append(l, [key |-> key, aged |-> aged]))
<1> DEFINE p == Append(q, [key |-> key, at |-> Len(l) + 1])
           m == Append(l, [key |-> key, aged |-> aged])
           b == Len(l) - Len(q)
<1>1. /\ Len(q) \in Nat /\ Len(l) \in Nat /\ b \in Nat /\ Len(l) = b + Len(q)
      /\ q \in Seq(Entries) /\ l \in Seq([key : Keys, aged : Nat])
  BY DEF Remembers
<1>2. /\ p \in Seq(Entries) /\ Len(p) = Len(q) + 1
      /\ \A i \in 1 .. Len(q) : p[i] = q[i]
      /\ p[Len(q) + 1] = [key |-> key, at |-> Len(l) + 1]
  BY <1>1 DEF Entries
<1>3. /\ m \in Seq([key : Keys, aged : Nat]) /\ Len(m) = Len(l) + 1
      /\ \A i \in 1 .. Len(l) : m[i] = l[i]
      /\ m[Len(l) + 1] = [key |-> key, aged |-> aged]
  BY <1>1
<1> HIDE DEF p, m
<1>4. Len(m) - Len(p) = b /\ Len(p) <= Len(m)
  BY <1>1, <1>2, <1>3
<1>5. ASSUME NEW i \in 1 .. Len(p) PROVE p[i].at = b + i /\ p[i].key = m[b + i].key
  <2>1. CASE i \in 1 .. Len(q)
    <3>1. q[i].at = b + i /\ q[i].key = l[b + i].key
      BY <2>1, Zenon DEF Remembers
    <3>2. b + i \in 1 .. Len(l)
      BY <1>1, <2>1
    <3> QED BY <1>2, <1>3, <2>1, <3>1, <3>2, Zenon
  <2>2. CASE i = Len(q) + 1
    BY <1>1, <1>2, <1>3, <2>2, SMTT(30)
  <2> QED BY <1>1, <1>2, <2>1, <2>2
<1>6. \A i \in 1 .. Len(q) : q[i].key \in keys
  BY <1>1, SMTT(30) DEF Remembers, Recorded
<1>7. ASSUME NEW i \in 1 .. Len(p), NEW j \in 1 .. Len(p), p[i].key = p[j].key PROVE i = j
  <2>1. ASSUME NEW h \in 1 .. Len(p)
        PROVE  \/ h \in 1 .. Len(q) /\ p[h].key = q[h].key /\ p[h].key # key
               \/ h = Len(q) + 1 /\ p[h].key = key
    <3>1. h \in 1 .. Len(q) \/ h = Len(q) + 1
      BY <1>1, <1>2
    <3>2. CASE h \in 1 .. Len(q)
      <4>1. p[h] = q[h]
        BY <1>2, <3>2, Zenon
      <4>2. q[h].key \in keys
        BY <1>6, <3>2, Zenon
      <4> QED BY <3>2, <4>1, <4>2, Zenon
    <3>3. CASE h = Len(q) + 1
      BY <1>2, <3>3
    <3> QED BY <3>1, <3>2, <3>3, Zenon
  <2>2. \A g, h \in 1 .. Len(q) : q[g].key = q[h].key => g = h
    BY Zenon DEF Remembers
  <2> QED BY <1>7, <2>1, <2>2, Zenon
<1>8. Recorded(p) = keys \cup {key}
  <2>1. DOMAIN p = 1 .. Len(q) + 1 /\ DOMAIN q = 1 .. Len(q)
    BY <1>1, <1>2
  <2>2. \A i \in 1 .. Len(q) + 1 : i \in 1 .. Len(q) \/ i = Len(q) + 1
    BY <1>1
  <2>3. 1 .. Len(q) \subseteq 1 .. Len(q) + 1 /\ Len(q) + 1 \in 1 .. Len(q) + 1
    BY <1>1
  <2>4. keys = {q[i].key : i \in 1 .. Len(q)}
    BY <2>1, Zenon DEF Remembers, Recorded
  <2> QED BY <1>2, <2>1, <2>2, <2>3, <2>4 DEF Recorded
<1>9. ASSUME NEW i \in 1 .. b PROVE i <= aged \/ Len(m) - i >= SEEN_FLOOD_CAPACITY
  BY <1>1, <1>3, IncomingAssumption DEF Remembers
<1>10. Apart(m)
  <2> SUFFICES ASSUME NEW j \in 1 .. Len(l) + 1, NEW i \in 1 .. j - 1, m[i].key = m[j].key
               PROVE  i <= m[j].aged \/ j - i > SEEN_FLOOD_CAPACITY
    BY <1>3 DEF Apart
  <2>0. i \in 1 .. Len(l) /\ m[i] = l[i]
    <3>1. i \in 1 .. Len(l)
      BY <1>1
    <3> QED BY <1>3, <3>1, Zenon
  <2>1. CASE j \in 1 .. Len(l)
    <3>1. m[j] = l[j] /\ l[i].key = l[j].key /\ j \in DOMAIN l
      BY <1>1, <1>3, <2>0, <2>1, SMTT(30)
    <3>2. Apart(l)
      BY Zenon DEF Remembers
    <3> QED BY <3>1, <3>2, Zenon DEF Apart
  <2>2. CASE j = Len(l) + 1
    <3>1. m[j].key = key /\ m[j].aged = aged /\ l[i].key = key
      BY <1>3, <2>0, <2>2
    <3>2. CASE i <= b
      <4>1. i <= aged \/ Len(l) - i >= SEEN_FLOOD_CAPACITY
        BY <1>1, <3>2 DEF Remembers
      <4> QED BY <1>1, <2>2, <3>1, <4>1, IncomingAssumption
    <3>3. CASE i > b
      <4>1. i - b \in 1 .. Len(q) /\ b + (i - b) = i
        BY <1>1, <2>0, <3>3
      <4>2. q[i - b].key = l[b + (i - b)].key
        BY <4>1, Zenon DEF Remembers
      <4> QED BY <1>6, <3>1, <4>1, <4>2, Zenon
    <3> QED BY <1>1, <2>0, <3>2, <3>3
  <2> QED BY <1>1, <2>1, <2>2
<1> QED BY <1>2, <1>3, <1>4, <1>5, <1>7, <1>8, <1>9, <1>10, ZenonT(30) DEF Remembers, p, m

(* insert_if_new, of a new key and of one it has seen *)
LEMMA InsertStep ==
    ASSUME FloodInv, UNCHANGED aged, NEW key \in Keys, InsertNew(key) \/ RefuseSeen(key)
    PROVE  FloodInv'
<1> DEFINE q == Append(pruned(order), [key |-> key, at |-> Len(log) + 1])
           l == Append(log, [key |-> key, aged |-> aged])
<1>1. Remembers(pruned(order), Held, log) /\ Len(pruned(order)) <= SEEN_FLOOD_CAPACITY
  BY PruneKeeps, Zenon DEF FloodInv, Held
<1>2. CASE RefuseSeen(key)
  <2> DEFINE p == pruned(order)
             held == Held
  <2>1. Remembers(p, held, log) /\ Len(p) <= SEEN_FLOOD_CAPACITY
    BY <1>1, Zenon
  <2>2. order' = p /\ set' = held /\ log' = log
    BY <1>2, Zenon DEF RefuseSeen
  <2> HIDE DEF p, held
  <2> QED BY <2>1, <2>2, SMTT(30) DEF FloodInv, Remembers, Apart, Recorded
<1>3. CASE InsertNew(key)
  <2>1. Remembers(q, Held \cup {key}, l)
    BY <1>1, <1>3, InsertKeeps, Zenon DEF FloodInv, InsertNew
  <2>2. /\ Remembers(pruned(q), (Held \cup {key}) \ Forgotten(q), l)
        /\ Len(pruned(q)) <= SEEN_FLOOD_CAPACITY
    BY <2>1, PruneKeeps, Zenon DEF FloodInv
  <2>3. order' = pruned(q) /\ set' = (Held \cup {key}) \ Forgotten(q) /\ log' = l
    BY <1>3, Zenon DEF InsertNew
  <2> HIDE DEF q, l
  <2> QED BY <2>2, <2>3, SMTT(30) DEF FloodInv, Remembers, Apart, Recorded
<1> QED BY <1>2, <1>3, Zenon

LEMMA FloodInvStep == FloodInv /\ [Next]_vars => FloodInv'
<1> SUFFICES ASSUME FloodInv, [Next]_vars PROVE FloodInv'
  BY Zenon
<1>1. ASSUME UNCHANGED floods PROVE FloodInv'
  <2>1. order' = order /\ set' = set /\ log' = log /\ aged' = aged
    BY <1>1, Zenon DEF floods
  <2>2. Remembers(order, set, log)'
    BY <2>1, SMTT(30) DEF FloodInv, Remembers, Apart, Recorded
  <2> QED BY <2>1, <2>2, Zenon DEF FloodInv
<1>2. ASSUME NEW f \in Frames, f.src # Self, f.id # 0 PROVE <<f.src, f.id>> \in Keys
  BY <1>2, Zenon DEF Frames, Keys
<1>3. ASSUME NEW f \in Frames, Receive(f) PROVE FloodInv'
  BY <1>1, <1>2, <1>3, InsertStep, Zenon DEF Receive, ValidHeader, header_is_flood, floods
<1>4. ASSUME NEW f \in Frames, ReceiveRefused(f) PROVE FloodInv'
  BY <1>1, <1>2, <1>4, InsertStep, Zenon DEF ReceiveRefused, ValidHeader, header_is_flood, floods
<1>5. CASE AgeFlood
  <2>1. aged' = aged + 1 /\ UNCHANGED <<order, set, log>>
    BY <1>5, Zenon DEF AgeFlood, tables
  <2>2. ASSUME NEW i \in 1 .. Len(log) - Len(order)
        PROVE  i <= aged' \/ Len(log) - i >= SEEN_FLOOD_CAPACITY
    <3>1. i \in Int /\ aged \in Nat /\ (i <= aged \/ Len(log) - i >= SEEN_FLOOD_CAPACITY)
      BY DEF FloodInv, Remembers
    <3> QED BY <2>1, <3>1
  <2>3. Apart(log)'
    BY <2>1, Zenon DEF Apart, FloodInv, Remembers
  <2>4. aged' \in Nat
    BY <2>1 DEF FloodInv
  <2> QED BY <2>1, <2>2, <2>3, <2>4, SMTT(30) DEF FloodInv, Remembers, Recorded
<1>6. CASE Lookup \/ Deliver
  BY <1>1, <1>6, Zenon DEF Lookup, Deliver, floods, tables
<1>7. ASSUME NEW n \in Nodes, upsert_peer(n) \/ remove_peer(n) PROVE FloodInv'
  BY <1>1, <1>7, Zenon DEF upsert_peer, remove_peer, floods, tables
<1>8. ASSUME NEW r \in Rooms, ActivateRoom(r) PROVE FloodInv'
  BY <1>1, <1>8, Zenon DEF ActivateRoom, floods, tables
<1>9. CASE LeaveBegin \/ LeaveTun \/ clear_peers \/ LeaveDataplane
  BY <1>1, <1>9, Zenon DEF LeaveBegin, LeaveTun, clear_peers, LeaveDataplane, floods, tables
<1>10. ASSUME NEW m \in Macs, Forward(m) \/ AgeMac(m) PROVE FloodInv'
  BY <1>1, <1>10, Zenon DEF Forward, AgeMac, floods
<1>11. CASE UNCHANGED vars
  BY <1>1, <1>11, Zenon DEF vars, floods
<1> QED
  BY <1>3, <1>4, <1>5, <1>6, <1>7, <1>8, <1>9, <1>10, <1>11, Zenon DEF Next

(***************************************************************************)
(* SeenFloodPackets lets a flood of one origin and packet id through a     *)
(* second time only when the first is more than SEEN_FLOOD_CAPACITY floods *)
(* or longer than SEEN_FLOOD_WINDOW ago, for any capacity, any number of   *)
(* floods and any pace at which they age.                                  *)
(***************************************************************************)
THEOREM FloodsOnce == Spec => []RecentFloodsOnce
<1>1. Init => FloodInv
  <2> SUFFICES ASSUME Init PROVE FloodInv
    BY Zenon
  <2>1. order = <<>> /\ set = {} /\ log = <<>> /\ aged = 0 /\ Len(order) = 0 /\ Len(log) = 0
    BY Zenon DEF Init
  <2>2. Recorded(order) = {}
    BY <2>1 DEF Recorded
  <2>3. Apart(log)
    BY <2>1 DEF Apart
  <2> QED BY <2>1, <2>2, <2>3, IncomingAssumption DEF FloodInv, Remembers
<1>2. FloodInv => RecentFloodsOnce
  BY Zenon DEF FloodInv, Remembers, Apart, RecentFloodsOnce
<1> QED BY <1>1, <1>2, FloodInvStep, PTL DEF Spec

-----------------------------------------------------------------------------
(***************************************************************************)
(* Traffic, for any clients, rules, networks and packets.  An edit whose   *)
(* copy is up to date amounts to the command it carries out (Edits); a     *)
(* packet that was judged is one the policy still allows, unless a policy  *)
(* was stored since, and the first that is late is the last (Lateness).    *)
(***************************************************************************)

AllRules == NewRules \cup UNION {RulesOf(n.policy) : n \in Networks}

Policies == [enabled: BOOLEAN, default_action: TrafficActions, rules: Seq(AllRules)]

(* Induction from 0 on, for a set of numbers: being in P, and being a number, follow one recursion. *)
LEMMA Upwards ==
  ASSUME NEW P \in SUBSET Nat, 0 \in P, \A n \in Nat : n \in P => n + 1 \in P
  PROVE  P = Nat
  <1> DEFINE In(v, n) == IF v = 1 \/ n \in P THEN 1 ELSE 0
             f == [n \in Nat |-> 1]
             g == [n \in Nat |-> IF n \in P THEN 1 ELSE 0]
  <1>1. NatInductiveDefConclusion(f, 1, In)
    BY DEF NatInductiveDefConclusion
  <1>2. NatInductiveDefConclusion(g, 1, In)
    <2>1. ASSUME NEW n \in Nat PROVE g[n] = IF n = 0 THEN 1 ELSE In(g[n - 1], n)
      <3>1. CASE n = 0
        BY <3>1
      <3>2. CASE n # 0
        <4>1. n - 1 \in Nat /\ (n - 1) + 1 = n
          BY <3>2
        <4>2. n - 1 \in P => n \in P
          BY <4>1
        <4> QED BY <3>2, <4>1, <4>2
      <3> QED BY <3>1, <3>2
    <2>2. g = [n \in Nat |-> IF n = 0 THEN 1 ELSE In(g[n - 1], n)]
      <3> HIDE DEF In
      <3> QED BY <2>1
    <2> QED BY <2>2, Zenon DEF NatInductiveDefConclusion
  <1>3. f = g
    <2> HIDE DEF f, g, In
    <2> QED BY <1>1, <1>2, NatInductiveUnique, Zenon
  <1>4. ASSUME NEW n \in Nat PROVE n \in P
    <2>1. f[n] = 1 /\ g[n] = (IF n \in P THEN 1 ELSE 0)
      OBVIOUS
    <2>2. g[n] = 1
      BY <1>3, <2>1, Zenon
    <2> QED BY <2>1, <2>2
  <1> QED BY <1>4

(* Every set of numbers has a least one: what induction over a list comes down to. *)
LEMMA LeastIndex ==
  ASSUME NEW S \in SUBSET Nat, S # {}
  PROVE  \E m \in S : \A k \in S : m <= k
  <1> SUFFICES ASSUME \A m \in S : \E k \in S : ~(m <= k) PROVE FALSE
    OBVIOUS
  <1> DEFINE P == {n \in Nat : \A k \in S : n < k}
  <1>1. 0 \in P
    <2>1. ASSUME NEW k \in S PROVE 0 < k
      <3>1. PICK j \in S : ~(k <= j)
        OBVIOUS
      <3> QED BY <3>1
    <2> QED BY <2>1
  <1>2. ASSUME NEW n \in Nat, n \in P PROVE n + 1 \in P
    <2>1. ASSUME NEW k \in S PROVE n + 1 < k
      <3>1. PICK j \in S : ~(k <= j)
        OBVIOUS
      <3>2. n < j
        BY <1>2
      <3> QED BY <3>1, <3>2
    <2> QED BY <2>1
  <1>3. P = Nat
    <2>1. P \in SUBSET Nat
      OBVIOUS
    <2> HIDE DEF P
    <2> QED BY <1>1, <1>2, <2>1, Upwards
  <1>4. PICK k \in S : TRUE
    OBVIOUS
  <1>5. k \in P
    BY <1>3
  <1>6. k < k
    BY <1>5
  <1> QED BY <1>6

(* The recursive function behind retain exists. *)
LEMMA KeptOf ==
  ASSUME NEW rules, NEW id
  PROVE  \E f : /\ f = [n \in Nat |->
                          IF n = 0 THEN <<>>
                          ELSE IF rules[n].id # id THEN Append(f[n - 1], rules[n])
                          ELSE f[n - 1]]
                /\ retain(rules, id) = f[Len(rules)]
  <1> DEFINE Def(v, n) == IF rules[n].id # id THEN Append(v, rules[n]) ELSE v
             f == CHOOSE g : g = [i \in Nat |-> IF i = 0 THEN <<>> ELSE Def(g[i - 1], i)]
  <1>1. NatInductiveDefHypothesis(f, <<>>, Def)
    BY DEF NatInductiveDefHypothesis
  <1>2. NatInductiveDefConclusion(f, <<>>, Def)
    BY <1>1, NatInductiveDef, Zenon
  <1>3. f = [i \in Nat |-> IF i = 0 THEN <<>> ELSE Def(f[i - 1], i)]
    BY <1>2, Zenon DEF NatInductiveDefConclusion
  <1>4. retain(rules, id) = f[Len(rules)]
    BY DEF retain
  <1> HIDE DEF f
  <1> QED BY <1>3, <1>4, Zenon

(* retain keeps the rules with another id, no others, and repeats none. *)
Retained(seq, rules, id, S) ==
  /\ seq \in Seq(S)
  /\ {seq[i] : i \in 1 .. Len(seq)}
       = {r \in {rules[i] : i \in 1 .. Len(rules)} : r.id # id}
  /\ (\A i, j \in 1 .. Len(rules) : rules[i].id = rules[j].id => i = j)
       => \A i, j \in 1 .. Len(seq) : seq[i].id = seq[j].id => i = j

LEMMA RetainFacts ==
  ASSUME NEW S, NEW rules \in Seq(S), NEW id, NEW seq, seq = retain(rules, id)
  PROVE  Retained(seq, rules, id, S)
  <1>1. PICK f : /\ f = [n \in Nat |->
                          IF n = 0 THEN <<>>
                          ELSE IF rules[n].id # id THEN Append(f[n - 1], rules[n])
                          ELSE f[n - 1]]
                 /\ retain(rules, id) = f[Len(rules)]
    BY KeptOf, Zenon
  <1>2. f[0] = <<>>
    BY <1>1
  <1>3. \A n \in Nat \ {0} :
            f[n] = IF rules[n].id # id THEN Append(f[n - 1], rules[n]) ELSE f[n - 1]
    <2> SUFFICES ASSUME NEW n \in Nat \ {0}
                 PROVE  f[n] = IF rules[n].id # id THEN Append(f[n - 1], rules[n]) ELSE f[n - 1]
      OBVIOUS
    <2>1. n \in Nat /\ n # 0
      OBVIOUS
    <2> QED BY <1>1, <2>1, Zenon
  <1>4. Len(rules) \in Nat /\ \A n \in 1 .. Len(rules) : rules[n] \in S
    OBVIOUS
  <1> DEFINE Kept(s, n) ==
               /\ s \in Seq(S)
               /\ \A r : (\E i \in 1 .. Len(s) : r = s[i])
                           <=> r.id # id /\ \E i \in 1 .. n : r = rules[i]
               /\ (\A i, j \in 1 .. Len(rules) : rules[i].id = rules[j].id => i = j)
                     => \A i, j \in 1 .. Len(s) : s[i].id = s[j].id => i = j
             Good(n) == Kept(f[n], n)
  <1>5. Good(0)
    <2>1. f[0] \in Seq(S) /\ Len(f[0]) = 0
      BY <1>2
    <2> QED BY <2>1
  <1>6. ASSUME NEW n \in Nat \ {0}, n <= Len(rules), Good(n - 1) PROVE Good(n)
    <2> DEFINE old == f[n - 1]
               new == f[n]
               r0 == rules[n]
               Once == \A i, j \in 1 .. Len(rules) : rules[i].id = rules[j].id => i = j
    <2>1. r0 \in S /\ \A r : (\E i \in 1 .. n : r = rules[i])
                               <=> r = r0 \/ \E i \in 1 .. n - 1 : r = rules[i]
      BY <1>4, <1>6
    <2>2. old \in Seq(S)
      BY <1>6, Zenon
    <2>3. \A r : (\E i \in 1 .. Len(old) : r = old[i])
                    <=> r.id # id /\ \E i \in 1 .. n - 1 : r = rules[i]
      BY <1>6, Zenon
    <2>4. Once => \A i, j \in 1 .. Len(old) : old[i].id = old[j].id => i = j
      BY <1>6, Zenon
    <2>5. new = IF r0.id # id THEN Append(old, r0) ELSE old
      BY <1>3
    <2> HIDE DEF old, new, r0, Once
    <2>6. /\ new \in Seq(S)
          /\ \A r : (\E i \in 1 .. Len(new) : r = new[i])
                       <=> r.id # id /\ \E i \in 1 .. n : r = rules[i]
          /\ Once => \A i, j \in 1 .. Len(new) : new[i].id = new[j].id => i = j
      <3>1. CASE r0.id = id
        <4>1. new = old
          BY <2>5, <3>1
        <4>2. ASSUME NEW r
              PROVE  (\E i \in 1 .. Len(new) : r = new[i])
                       <=> r.id # id /\ \E i \in 1 .. n : r = rules[i]
          <5>1. ASSUME r.id # id PROVE (\E i \in 1 .. n : r = rules[i])
                                          <=> \E i \in 1 .. n - 1 : r = rules[i]
            <6>1. r # r0
              BY <3>1, <5>1
            <6> QED BY <2>1, <6>1, Zenon
          <5> QED BY <2>3, <4>1, <5>1
        <4> QED BY <2>2, <2>4, <4>1, <4>2
      <3>2. CASE r0.id # id
        <4>1. Len(old) \in Nat
          BY <2>2
        <4>2. /\ new \in Seq(S) /\ Len(new) = Len(old) + 1 /\ new[Len(old) + 1] = r0
              /\ \A i \in 1 .. Len(old) : new[i] = old[i]
          BY <2>1, <2>2, <2>5, <3>2
        <4>3. \A r : (\E i \in 1 .. Len(new) : r = new[i])
                        <=> r = r0 \/ \E i \in 1 .. Len(old) : r = old[i]
          BY <4>1, <4>2
        <4>4. ASSUME NEW r
              PROVE  (\E i \in 1 .. Len(new) : r = new[i])
                       <=> r.id # id /\ \E i \in 1 .. n : r = rules[i]
          <5>1. r = r0 => r.id # id
            BY <3>2
          <5>2. (\E i \in 1 .. Len(old) : r = old[i])
                  <=> r.id # id /\ \E i \in 1 .. n - 1 : r = rules[i]
            BY <2>3, Zenon
          <5>3. (\E i \in 1 .. n : r = rules[i]) <=> r = r0 \/ \E i \in 1 .. n - 1 : r = rules[i]
            BY <2>1, Zenon
          <5>4. (\E i \in 1 .. Len(new) : r = new[i])
                  <=> r = r0 \/ \E i \in 1 .. Len(old) : r = old[i]
            BY <4>3, Zenon
          <5> QED BY <5>1, <5>2, <5>3, <5>4
        <4>5. ASSUME Once, NEW i \in 1 .. Len(new), NEW j \in 1 .. Len(new),
                     new[i].id = new[j].id
              PROVE  i = j
          <5>1. \A k \in 1 .. Len(old) : old[k].id # r0.id
            <6> SUFFICES ASSUME NEW k \in 1 .. Len(old) PROVE old[k].id # r0.id
              OBVIOUS
            <6>1. PICK m \in 1 .. n - 1 : old[k] = rules[m]
              BY <2>3, Zenon
            <6>2. m \in 1 .. Len(rules) /\ n \in 1 .. Len(rules) /\ m # n
              BY <1>4, <1>6
            <6> QED BY <4>5, <6>1, <6>2 DEF r0, Once
          <5>2. CASE i \in 1 .. Len(old) /\ j \in 1 .. Len(old)
            BY <2>4, <4>2, <4>5, <5>2
          <5>3. CASE i \in 1 .. Len(old) /\ j = Len(old) + 1
            BY <4>2, <4>5, <5>1, <5>3
          <5>4. CASE j \in 1 .. Len(old) /\ i = Len(old) + 1
            BY <4>2, <4>5, <5>1, <5>4
          <5> QED BY <4>1, <4>2, <5>2, <5>3, <5>4
        <4> QED BY <4>2, <4>4, <4>5
      <3> QED BY <3>1, <3>2, Zenon
    <2> QED BY <2>6, Zenon DEF new, Once
  <1> HIDE DEF Good
  <1>7. Good(Len(rules))
    <2> SUFFICES ASSUME ~Good(Len(rules)) PROVE FALSE
      OBVIOUS
    <2> DEFINE Bad == {n \in Nat : n <= Len(rules) /\ ~Good(n)}
    <2>1. Bad \in SUBSET Nat /\ Bad # {}
      BY <1>4
    <2>2. PICK m \in Bad : \A k \in Bad : m <= k
      BY <2>1, LeastIndex, Zenon
    <2>3. m \in Nat \ {0} /\ m <= Len(rules)
      BY <1>5, <2>2
    <2>4. m - 1 \in Nat /\ m - 1 <= Len(rules) /\ ~(m <= m - 1)
      BY <1>4, <2>3
    <2>5. Good(m - 1)
      BY <2>2, <2>4
    <2> QED BY <1>6, <2>2, <2>3, <2>5
  <1>8. Kept(seq, Len(rules))
    <2> HIDE DEF Kept
    <2> QED BY <1>1, <1>7 DEF Good
  <1>9. /\ seq \in Seq(S)
        /\ \A r : (\E i \in 1 .. Len(seq) : r = seq[i])
                    <=> r.id # id /\ \E i \in 1 .. Len(rules) : r = rules[i]
        /\ (\A i, j \in 1 .. Len(rules) : rules[i].id = rules[j].id => i = j)
              => \A i, j \in 1 .. Len(seq) : seq[i].id = seq[j].id => i = j
    BY <1>8, Zenon
  <1>10. {seq[i] : i \in 1 .. Len(seq)} = {r \in {rules[i] : i \in 1 .. Len(rules)} : r.id # id}
    BY <1>9
  <1> QED BY <1>9, <1>10, Zenon DEF Retained

-----------------------------------------------------------------------------

EditRecords ==
    [op: {"add"}, arg: NewRules, copy: Policies]
        \cup [op: {"remove"}, arg: {r.id : r \in NewRules}, copy: Policies]
        \cup [op: {"enable"}, arg: BOOLEAN, copy: Policies]

TrafficType ==
    /\ traffic_policy \in Policies
    /\ editor \in [Clients -> EditRecords \cup {NoEdit}]
    /\ asked \in [rules: SUBSET AllRules, enabled: BOOLEAN]
    /\ stale \subseteq Clients

Edits ==
    /\ TrafficType
    /\ EditsKept
    /\ \A c \in Clients : editor[c] # NoEdit =>
            /\ IdsOnce(editor[c].copy)
            /\ c \notin stale => Content(editor[c].copy) = Expected(asked, editor[c])
    /\ \A c \in stale : editor[c] # NoEdit

(* The rules a policy has, and what it amounts to *)
LEMMA PolicyFacts ==
  ASSUME NEW policy \in Policies
  PROVE  /\ policy.rules \in Seq(AllRules) /\ policy.enabled \in BOOLEAN
         /\ DOMAIN policy.rules = 1 .. Len(policy.rules)
         /\ RulesOf(policy) = {policy.rules[i] : i \in 1 .. Len(policy.rules)}
         /\ RulesOf(policy) \subseteq AllRules
         /\ Content(policy) \in [rules: SUBSET AllRules, enabled: BOOLEAN]
         /\ Content(policy).rules = RulesOf(policy) /\ Content(policy).enabled = policy.enabled
  <1>1. policy.rules \in Seq(AllRules) /\ policy.enabled \in BOOLEAN
    BY DEF Policies
  <1>2. /\ DOMAIN policy.rules = 1 .. Len(policy.rules)
        /\ \A i \in 1 .. Len(policy.rules) : policy.rules[i] \in AllRules
    BY <1>1
  <1> QED BY <1>1, <1>2 DEF RulesOf, Content

(* The copies the three commands make amount to what they ask for. *)
LEMMA CopyFacts ==
  ASSUME NEW policy \in Policies, NEW seq \in Seq(AllRules), NEW on \in BOOLEAN
  PROVE  /\ [policy EXCEPT !.rules = seq] \in Policies
         /\ [policy EXCEPT !.rules = seq].rules = seq
         /\ Content([policy EXCEPT !.rules = seq])
              = [rules |-> {seq[i] : i \in 1 .. Len(seq)}, enabled |-> policy.enabled]
         /\ [policy EXCEPT !.enabled = on] \in Policies
         /\ [policy EXCEPT !.enabled = on].rules = policy.rules
         /\ Content([policy EXCEPT !.enabled = on])
              = [rules |-> RulesOf(policy), enabled |-> on]
  <1>1. DOMAIN seq = 1 .. Len(seq)
    OBVIOUS
  <1> QED BY <1>1 DEF Policies, Content, RulesOf

LEMMA ExpectedAdd ==
  ASSUME NEW ruleset, NEW on, NEW edit, NEW content, content = [rules |-> ruleset, enabled |-> on],
         edit.op = "add"
  PROVE  Expected(content, edit) = [rules |-> ruleset \cup {edit.arg}, enabled |-> on]
  <1>1. content.rules = ruleset
    OBVIOUS
  <1>2. Expected(content, edit) = [content EXCEPT !.rules = ruleset \cup {edit.arg}]
    BY <1>1 DEF Expected
  <1> QED BY <1>2

(* The rules but the one with the id *)
LeftOf(ruleset, id) == {r \in ruleset : r.id # id}

LEMMA ExpectedRemove ==
  ASSUME NEW ruleset, NEW on, NEW edit, NEW content, content = [rules |-> ruleset, enabled |-> on],
         edit.op = "remove"
  PROVE  Expected(content, edit) = [rules |-> LeftOf(ruleset, edit.arg), enabled |-> on]
  <1>1. content.rules = ruleset
    OBVIOUS
  <1>2. Expected(content, edit) = [content EXCEPT !.rules = LeftOf(ruleset, edit.arg)]
    BY <1>1 DEF Expected, LeftOf
  <1> QED BY <1>2

LEMMA ExpectedEnable ==
  ASSUME NEW ruleset, NEW on, NEW edit, NEW content, content = [rules |-> ruleset, enabled |-> on],
         edit.op = "enable"
  PROVE  Expected(content, edit) = [rules |-> ruleset, enabled |-> edit.arg]
  <1>1. Expected(content, edit) = [content EXCEPT !.enabled = edit.arg]
    BY DEF Expected
  <1> QED BY <1>1

LEMMA EditsInitially == ASSUME \A n \in Networks : IdsOnce(n.policy) PROVE TrafficInit => Edits
  <1> SUFFICES ASSUME TrafficInit PROVE Edits
    OBVIOUS
  <1>1. /\ network \in Networks /\ traffic_policy = network.policy /\ stale = {}
        /\ editor = [c \in Clients |-> NoEdit] /\ asked = Content(traffic_policy)
    BY DEF TrafficInit
  <1>2. traffic_policy \in [enabled: BOOLEAN, default_action: TrafficActions,
                            rules: Seq(RulesOf(network.policy))]
    BY <1>1, TrafficAssumption
  <1>3. RulesOf(network.policy) \subseteq AllRules
    BY <1>1 DEF AllRules
  <1>4. traffic_policy \in Policies
    <2>1. traffic_policy.rules \in Seq(RulesOf(network.policy))
      BY <1>2
    <2>2. traffic_policy.rules \in Seq(AllRules)
      BY <1>3, <2>1
    <2> QED BY <1>2, <2>2 DEF Policies
  <1>5. TrafficType
    BY <1>1, <1>4, PolicyFacts DEF TrafficType
  <1> QED BY <1>1, <1>5 DEF Edits, EditsKept

(* A command makes a copy; that is all it changes. *)
LEMMA EditMade ==
  ASSUME Edits, NEW c \in Clients, NEW op, NEW arg, NEW copy \in Policies,
         [op |-> op, arg |-> arg, copy |-> copy] \in EditRecords,
         Edit(c, op, arg, copy), IdsOnce(copy),
         Content(copy) = Expected(asked, [op |-> op, arg |-> arg, copy |-> copy])
  PROVE  Edits'
  <1> DEFINE edit == [op |-> op, arg |-> arg, copy |-> copy]
  <1>1. /\ editor[c] = NoEdit /\ editor' = [editor EXCEPT ![c] = edit]
        /\ UNCHANGED <<traffic_policy, asked, stale>>
    BY DEF Edit
  <1>2. edit \in EditRecords /\ edit.copy = copy /\ Content(copy) = Expected(asked, edit)
    OBVIOUS
  <1> HIDE DEF edit
  <1>3. c \notin stale
    BY <1>1 DEF Edits
  <1>4. /\ editor' \in [Clients -> EditRecords \cup {NoEdit}]
        /\ editor'[c] = edit /\ \A d \in Clients \ {c} : editor'[d] = editor[d]
    BY <1>1, <1>2 DEF Edits, TrafficType
  <1>6. TrafficType' /\ EditsKept'
    BY <1>1, <1>4 DEF Edits, TrafficType, EditsKept
  <1>7. ASSUME NEW d \in Clients, editor'[d] # NoEdit
        PROVE  /\ IdsOnce(editor'[d].copy)
               /\ d \notin stale' => Content(editor'[d].copy) = Expected(asked', editor'[d])
    <2>1. CASE d = c
      BY <1>2, <1>1, <1>4, <2>1
    <2>2. CASE d # c
      BY <1>1, <1>4, <1>7, <2>2 DEF Edits
    <2> QED BY <2>1, <2>2
  <1>8. \A d \in stale' : editor'[d] # NoEdit
    BY <1>1, <1>3 DEF Edits, TrafficType
  <1> QED BY <1>6, <1>7, <1>8 DEF Edits

(* Storing a copy makes the others out of date. *)
LEMMA EditStored ==
  ASSUME Edits, NEW c \in Clients, set_traffic_policy(c)
  PROVE  Edits'
  <1>1. /\ editor[c] # NoEdit /\ traffic_policy' = editor[c].copy
        /\ editor' = [editor EXCEPT ![c] = NoEdit]
        /\ asked' = IF c \in stale THEN Content(editor[c].copy) ELSE Expected(asked, editor[c])
        /\ stale' = {d \in Clients \ {c} : editor[d] # NoEdit}
    BY DEF set_traffic_policy
  <1>2. editor[c] \in EditRecords /\ editor[c].copy \in Policies
    BY <1>1 DEF Edits, TrafficType, EditRecords
  <1>3. /\ editor' \in [Clients -> EditRecords \cup {NoEdit}] /\ editor'[c] = NoEdit
        /\ \A d \in Clients \ {c} : editor'[d] = editor[d]
    BY <1>1 DEF Edits, TrafficType
  <1>4. asked' = Content(editor[c].copy) /\ IdsOnce(editor[c].copy)
    BY <1>1 DEF Edits
  <1>5. TrafficType'
    BY <1>1, <1>2, <1>3, <1>4, PolicyFacts DEF TrafficType
  <1>6. EditsKept'
    BY <1>1, <1>4 DEF EditsKept
  <1>7. ASSUME NEW d \in Clients, editor'[d] # NoEdit
        PROVE  d \in stale' /\ IdsOnce(editor'[d].copy)
    BY <1>1, <1>3, <1>7 DEF Edits
  <1>8. \A d \in stale' : editor'[d] # NoEdit
    BY <1>1, <1>3
  <1> QED BY <1>5, <1>6, <1>7, <1>8 DEF Edits

(* Every command and every store keeps the invariant; packets have no part in it. *)
LEMMA EditsInductive == Edits /\ [TrafficNext]_traffic_vars => Edits'
  <1> SUFFICES ASSUME Edits, [TrafficNext]_traffic_vars PROVE Edits'
    OBVIOUS
  <1>1. /\ traffic_policy \in Policies /\ traffic_policy.rules \in Seq(AllRules)
        /\ IdsOnce(traffic_policy) /\ asked = Content(traffic_policy)
        /\ asked = [rules |-> RulesOf(traffic_policy), enabled |-> traffic_policy.enabled]
    BY PolicyFacts DEF Edits, TrafficType, EditsKept, Content
  <1>2. /\ DOMAIN traffic_policy.rules = 1 .. Len(traffic_policy.rules)
        /\ RulesOf(traffic_policy)
             = {traffic_policy.rules[i] : i \in 1 .. Len(traffic_policy.rules)}
        /\ traffic_policy.enabled \in BOOLEAN
    BY <1>1, PolicyFacts
  <1> DEFINE rules == traffic_policy.rules
  <1>3. ASSUME NEW c \in Clients, NEW rule \in NewRules, rules_add(c, rule) PROVE Edits'
    <2> DEFINE seq == Append(rules, rule)
               copy == [traffic_policy EXCEPT !.rules = seq]
               edit == [op |-> "add", arg |-> rule, copy |-> copy]
    <2>1. Edit(c, "add", rule, copy) /\ rule.id \notin IdsOf(traffic_policy)
      BY <1>3 DEF rules_add
    <2>2. rule \in AllRules
      BY DEF AllRules
    <2>3. /\ seq \in Seq(AllRules) /\ Len(rules) \in Nat /\ Len(seq) = Len(rules) + 1
          /\ seq[Len(rules) + 1] = rule
          /\ \A i \in 1 .. Len(rules) : seq[i] = rules[i]
      BY <1>1, <2>2
    <2> HIDE DEF seq
    <2>4. /\ copy \in Policies /\ copy.rules = seq
          /\ Content(copy) = [rules |-> {seq[i] : i \in 1 .. Len(seq)},
                              enabled |-> traffic_policy.enabled]
      BY <1>1, <2>3, CopyFacts, Zenon
    <2>5. {seq[i] : i \in 1 .. Len(seq)} = RulesOf(traffic_policy) \cup {rule}
      <3>1. \A i \in 1 .. Len(seq) : i = Len(seq) \/ i \in 1 .. Len(rules)
        BY <2>3
      <3>2. Len(seq) \in 1 .. Len(seq) /\ \A i \in 1 .. Len(rules) : i \in 1 .. Len(seq)
        BY <2>3
      <3>3. seq[Len(seq)] = rule
        BY <2>3, Zenon
      <3>4. ASSUME NEW i \in 1 .. Len(seq) PROVE seq[i] \in RulesOf(traffic_policy) \cup {rule}
        BY <1>2, <2>3, <3>1, <3>3, Zenon
      <3>5. ASSUME NEW r \in RulesOf(traffic_policy) PROVE r \in {seq[i] : i \in 1 .. Len(seq)}
        <4>1. PICK i \in 1 .. Len(rules) : r = rules[i]
          BY <1>2, Zenon
        <4> QED BY <2>3, <3>2, <4>1, Zenon
      <3> QED BY <3>2, <3>3, <3>4, <3>5, Zenon
    <2>6. Expected(asked, edit)
            = [rules |-> RulesOf(traffic_policy) \cup {rule}, enabled |-> traffic_policy.enabled]
      <3>1. edit.op = "add" /\ edit.arg = rule
        OBVIOUS
      <3> DEFINE ruleset == RulesOf(traffic_policy)
                 on == traffic_policy.enabled
      <3>2. asked = [rules |-> ruleset, enabled |-> on]
        BY <1>1
      <3> HIDE DEF edit, ruleset, on
      <3>3. Expected(asked, edit) = [rules |-> ruleset \cup {edit.arg}, enabled |-> on]
        BY <3>1, <3>2, ExpectedAdd, Zenon
      <3>4. Expected(asked, edit) = [rules |-> ruleset \cup {rule}, enabled |-> on]
        BY <3>1, <3>3, Zenon
      <3> QED BY <3>4 DEF ruleset, on
    <2>7. IdsOnce(copy)
      <3> HIDE DEF copy
      <3> SUFFICES ASSUME NEW i \in 1 .. Len(seq), NEW j \in 1 .. Len(seq), seq[i].id = seq[j].id
                   PROVE  i = j
        BY <2>3, <2>4, SMTT(30) DEF IdsOnce
      <3>1. \A k \in 1 .. Len(rules) : rules[k].id # rule.id
        BY <1>2, <2>1 DEF IdsOf
      <3>2. CASE i \in 1 .. Len(rules) /\ j \in 1 .. Len(rules)
        <4>1. rules[i].id = rules[j].id
          BY <2>3, <3>2
        <4> QED BY <1>1, <1>2, <3>2, <4>1 DEF IdsOnce
      <3>3. CASE i \in 1 .. Len(rules) /\ j = Len(rules) + 1
        BY <2>3, <3>1, <3>3
      <3>4. CASE j \in 1 .. Len(rules) /\ i = Len(rules) + 1
        BY <2>3, <3>1, <3>4
      <3>5. CASE i = Len(rules) + 1 /\ j = Len(rules) + 1
        BY <3>5
      <3> QED BY <2>3, <3>2, <3>3, <3>4, <3>5
    <2> HIDE DEF copy
    <2>8. edit \in EditRecords
      BY <2>4 DEF EditRecords
    <2> QED BY <2>1, <2>4, <2>5, <2>6, <2>7, <2>8, EditMade, Zenon
  <1>4. ASSUME NEW c \in Clients, NEW id \in {r.id : r \in NewRules}, rules_remove(c, id)
        PROVE  Edits'
    <2> DEFINE seq == retain(rules, id)
               copy == [traffic_policy EXCEPT !.rules = seq]
               edit == [op |-> "remove", arg |-> id, copy |-> copy]
    <2>1. Edit(c, "remove", id, copy)
      BY <1>4 DEF rules_remove
    <2>2. /\ seq \in Seq(AllRules)
          /\ {seq[i] : i \in 1 .. Len(seq)} = {r \in RulesOf(traffic_policy) : r.id # id}
          /\ \A i, j \in 1 .. Len(seq) : seq[i].id = seq[j].id => i = j
      <3>1. \A i, j \in 1 .. Len(rules) : rules[i].id = rules[j].id => i = j
        BY <1>1, <1>2 DEF IdsOnce
      <3>0. seq = retain(rules, id)
        OBVIOUS
      <3> HIDE DEF rules, seq
      <3>2. /\ seq \in Seq(AllRules)
            /\ {seq[i] : i \in 1 .. Len(seq)}
                 = {r \in {rules[i] : i \in 1 .. Len(rules)} : r.id # id}
            /\ \A i, j \in 1 .. Len(seq) : seq[i].id = seq[j].id => i = j
        <4>1. rules \in Seq(AllRules)
          BY <1>1 DEF rules
        <4>2. Retained(seq, rules, id, AllRules)
          BY <3>0, <4>1, RetainFacts, Zenon
        <4> QED BY <3>1, <4>2, Zenon DEF Retained
      <3> QED BY <1>2, <3>2, Zenon DEF rules
    <2> HIDE DEF seq
    <2>3. /\ copy \in Policies /\ copy.rules = seq
          /\ Content(copy) = [rules |-> {seq[i] : i \in 1 .. Len(seq)},
                              enabled |-> traffic_policy.enabled]
      BY <1>1, <2>2, CopyFacts, Zenon
    <2>4. Expected(asked, edit)
            = [rules |-> {r \in RulesOf(traffic_policy) : r.id # id},
               enabled |-> traffic_policy.enabled]
      <3>1. edit.op = "remove" /\ edit.arg = id
        OBVIOUS
      <3> DEFINE ruleset == RulesOf(traffic_policy)
                 on == traffic_policy.enabled
      <3>2. asked = [rules |-> ruleset, enabled |-> on]
        BY <1>1
      <3> HIDE DEF edit, ruleset, on
      <3>3. Expected(asked, edit) = [rules |-> LeftOf(ruleset, edit.arg), enabled |-> on]
        BY <3>1, <3>2, ExpectedRemove, Zenon
      <3>4. Expected(asked, edit) = [rules |-> LeftOf(ruleset, id), enabled |-> on]
        BY <3>1, <3>3, Zenon
      <3> QED BY <3>4 DEF ruleset, on, LeftOf
    <2>5. IdsOnce(copy)
      BY <2>2, <2>3 DEF IdsOnce
    <2> HIDE DEF copy
    <2>6. edit \in EditRecords
      BY <2>3 DEF EditRecords
    <2> QED BY <2>1, <2>2, <2>3, <2>4, <2>5, <2>6, EditMade, Zenon
  <1>5. ASSUME NEW c \in Clients, NEW on \in BOOLEAN, rules_enable(c, on) PROVE Edits'
    <2> DEFINE copy == [traffic_policy EXCEPT !.enabled = on]
               edit == [op |-> "enable", arg |-> on, copy |-> copy]
    <2>1. Edit(c, "enable", on, copy)
      BY <1>5 DEF rules_enable
    <2>2. /\ copy \in Policies /\ copy.rules = rules
          /\ Content(copy) = [rules |-> RulesOf(traffic_policy), enabled |-> on]
      BY <1>1, CopyFacts, Zenon
    <2>3. Expected(asked, edit) = [rules |-> RulesOf(traffic_policy), enabled |-> on]
      BY <1>1 DEF Expected
    <2>4. IdsOnce(copy)
      BY <1>1, <2>2 DEF IdsOnce
    <2> HIDE DEF copy
    <2>5. edit \in EditRecords
      BY <2>2 DEF EditRecords
    <2> QED BY <2>1, <2>2, <2>3, <2>4, <2>5, EditMade
  <1>6. ASSUME NEW c \in Clients, set_traffic_policy(c) PROVE Edits'
    BY <1>6, EditStored
  <1>7. ASSUME UNCHANGED policies PROVE Edits'
    BY <1>7 DEF policies, Edits, TrafficType, EditsKept
  <1>8. ASSUME NEW packet, TunReadL3(packet) \/ TunReadL2(packet) PROVE UNCHANGED policies
    BY <1>8 DEF TunReadL3, TunReadL2, Taken, policies
  <1>9. CASE allow_broadcast \/ Refill \/ TunSend \/ UdpWrite
    BY <1>7, <1>9 DEF allow_broadcast, Refill, TunSend, UdpWrite, policies
  <1>10. ASSUME NEW packet, NEW type, UdpJudge(packet, type) PROVE UNCHANGED policies
    BY <1>10 DEF UdpJudge, policies
  <1>11. CASE UNCHANGED traffic_vars
    BY <1>7, <1>11 DEF traffic_vars
  <1> QED
    BY <1>3, <1>4, <1>5, <1>6, <1>7, <1>8, <1>9, <1>10, <1>11 DEF TrafficNext

(***************************************************************************)
(* Unless the configuration repeats an id, the rules in force are those    *)
(* the acknowledged commands amount to, each id once, for any number of    *)
(* clients: what is lost is stored between another's read and its store.   *)
(***************************************************************************)
THEOREM EditsAreKept ==
  ASSUME \A n \in Networks : IdsOnce(n.policy)
  PROVE  TrafficSpec => []EditsKept
  <1>1. TrafficInit => Edits
    BY EditsInitially
  <1>2. Edits => EditsKept
    BY DEF Edits
  <1> QED
    BY <1>1, <1>2, EditsInductive, PTL DEF TrafficSpec

-----------------------------------------------------------------------------

(* A packet in hand that the policy does not allow is the first to be late. *)
Lateness ==
    /\ late \in [TrafficDirections -> {0, 1}]
    /\ late["Outbound"] = 1 /\ tun_packet.stage \in {"limit", "send"} =>
            policy_allows(traffic_policy, network.mode, "Outbound", tun_packet.packet)
    /\ late["Inbound"] = 1 /\ udp_packet # NoPacket =>
            policy_allows_packet_type(traffic_policy, udp_packet.type, "Inbound",
                                      udp_packet.packet)

(* A packet is sent or written; nothing that is judged is in hand after it. *)
LEMMA LateFacts ==
  ASSUME NEW l \in [TrafficDirections -> {0, 1}], NEW d \in TrafficDirections, NEW forbidden,
         l[d] = 1 => ~forbidden
  PROVE  [l EXCEPT ![d] = IF forbidden THEN @ + 1 ELSE @] \in [TrafficDirections -> {0, 1}]
  <1>1. (IF forbidden THEN l[d] + 1 ELSE l[d]) \in {0, 1}
    OBVIOUS
  <1> QED BY <1>1

(* What the clients do *)
Commands(c) ==
    \/ \E rule \in NewRules : rules_add(c, rule)
    \/ \E id \in {r.id : r \in NewRules} : rules_remove(c, id)
    \/ \E on \in BOOLEAN : rules_enable(c, on)
    \/ set_traffic_policy(c)

LEMMA LatenessInductive == Lateness /\ [TrafficNext]_traffic_vars => Lateness'
  <1> SUFFICES ASSUME Lateness, [TrafficNext]_traffic_vars PROVE Lateness'
    OBVIOUS
  <1>1. ASSUME UNCHANGED <<network, tun_packet, udp_packet, traffic_policy, late>> PROVE Lateness'
    BY <1>1 DEF Lateness
  <1>2. ASSUME NEW c \in Clients, NEW rule, rules_add(c, rule)
        PROVE  UNCHANGED <<network, tun_packet, udp_packet, traffic_policy, late>>
    BY <1>2 DEF rules_add, Edit, packets
  <1>3. ASSUME NEW c \in Clients, NEW id, rules_remove(c, id)
        PROVE  UNCHANGED <<network, tun_packet, udp_packet, traffic_policy, late>>
    BY <1>3 DEF rules_remove, Edit, packets
  <1>4. ASSUME NEW c \in Clients, NEW on, rules_enable(c, on)
        PROVE  UNCHANGED <<network, tun_packet, udp_packet, traffic_policy, late>>
    BY <1>4 DEF rules_enable, Edit, packets
  <1>5. ASSUME NEW c \in Clients, set_traffic_policy(c) PROVE Lateness'
    <2>1. late' = [d \in TrafficDirections |-> 0]
      BY <1>5 DEF set_traffic_policy
    <2> QED BY <2>1 DEF Lateness, TrafficDirections
  <1>6. ASSUME NEW packet, NEW targets, NEW flood, Taken(packet, targets, flood) PROVE Lateness'
    <2>1. /\ policy_allows(traffic_policy, network.mode, "Outbound", packet)
          /\ tun_packet'.packet = packet
          /\ UNCHANGED <<network, udp_packet, traffic_policy, late>>
      BY <1>6 DEF Taken, policies
    <2> QED BY <2>1 DEF Lateness
  <1>7. ASSUME NEW packet, TunReadL3(packet) \/ TunReadL2(packet) PROVE Lateness'
    BY <1>6, <1>7 DEF TunReadL3, TunReadL2
  <1>8. CASE allow_broadcast
    <2>1. UNCHANGED <<network, udp_packet, traffic_policy, late>> /\ tun_packet.stage = "limit"
      BY <1>8 DEF allow_broadcast, policies
    <2>2. CASE tun_packet' = NoPacket
      BY <2>1, <2>2 DEF Lateness, NoPacket
    <2>3. CASE tun_packet' = [tun_packet EXCEPT !.stage = "send"]
      <3>1. tun_packet'.packet = tun_packet.packet
        BY <2>3
      <3> QED BY <2>1, <3>1 DEF Lateness
    <2> QED BY <1>8, <2>2, <2>3 DEF allow_broadcast
  <1>9. CASE Refill
    BY <1>1, <1>9 DEF Refill, policies
  <1>10. CASE TunSend
    <2> DEFINE forbidden ==
          ~policy_allows(traffic_policy, network.mode, "Outbound", tun_packet.packet)
    <2>1. /\ tun_packet' = NoPacket /\ UNCHANGED <<network, udp_packet, traffic_policy>>
          /\ late' = [late EXCEPT !["Outbound"] = IF forbidden THEN @ + 1 ELSE @]
          /\ late["Outbound"] = 1 => ~forbidden
      BY <1>10 DEF TunSend, Passed, policies, Lateness
    <2>2. "Outbound" \in TrafficDirections /\ late \in [TrafficDirections -> {0, 1}]
      BY DEF TrafficDirections, Lateness
    <2> HIDE DEF forbidden
    <2>3. late' \in [TrafficDirections -> {0, 1}] /\ late'["Inbound"] = late["Inbound"]
      BY <2>1, <2>2, LateFacts DEF TrafficDirections
    <2> QED BY <2>1, <2>3 DEF Lateness, NoPacket
  <1>11. ASSUME NEW packet, NEW type, UdpJudge(packet, type) PROVE Lateness'
    <2>1. /\ policy_allows_packet_type(traffic_policy, type, "Inbound", packet)
          /\ udp_packet'.packet = packet /\ udp_packet'.type = type
          /\ UNCHANGED <<network, tun_packet, traffic_policy, late>>
      BY <1>11 DEF UdpJudge, policies
    <2> QED BY <2>1 DEF Lateness
  <1>12. CASE UdpWrite
    <2> DEFINE forbidden ==
          ~policy_allows_packet_type(traffic_policy, udp_packet.type, "Inbound", udp_packet.packet)
    <2>1. /\ udp_packet' = NoPacket /\ UNCHANGED <<network, tun_packet, traffic_policy>>
          /\ late' = [late EXCEPT !["Inbound"] = IF forbidden THEN @ + 1 ELSE @]
          /\ late["Inbound"] = 1 => ~forbidden
      BY <1>12 DEF UdpWrite, Passed, policies, Lateness
    <2>2. "Inbound" \in TrafficDirections /\ late \in [TrafficDirections -> {0, 1}]
      BY DEF TrafficDirections, Lateness
    <2> HIDE DEF forbidden
    <2>3. late' \in [TrafficDirections -> {0, 1}] /\ late'["Outbound"] = late["Outbound"]
      BY <2>1, <2>2, LateFacts DEF TrafficDirections
    <2> QED BY <2>1, <2>3 DEF Lateness
  <1>13. CASE UNCHANGED traffic_vars
    BY <1>1, <1>13 DEF traffic_vars, packets, policies
  <1>14. ASSUME NEW c \in Clients, Commands(c) PROVE Lateness'
    BY <1>1, <1>2, <1>3, <1>4, <1>5, <1>14, Zenon DEF Commands
  <1>15. CASE TrafficNext
    BY <1>7, <1>8, <1>9, <1>10, <1>11, <1>12, <1>14, <1>15, Zenon DEF TrafficNext, Commands
  <1> QED BY <1>13, <1>15

(***************************************************************************)
(* After a policy is stored, at most one packet in each direction passes   *)
(* that it forbids: the one in the TUN loop, or in the UDP task, that was  *)
(* judged before.                                                          *)
(***************************************************************************)
THEOREM AtMostOneIsLate == TrafficSpec => []LateAtMostOne
  <1>1. TrafficInit => Lateness
    BY DEF TrafficInit, Lateness, NoPacket, TrafficDirections
  <1>2. Lateness => LateAtMostOne
    BY DEF Lateness, LateAtMostOne
  <1> QED
    BY <1>1, <1>2, LatenessInductive, PTL DEF TrafficSpec

(* A broadcast of the sender's subnet stays in the room, or the room is smaller than a /16. *)
Beyond(room, dest) == Len(room) > 2 /\ dest[3] = 255 /\ dest[4] = 255

LEMMA BroadcastIsRouted ==
  ASSUME NEW src, NEW dest, NEW room, Len(room) \in 1 .. 3, InNetwork(room, src),
         IsSubnetBroadcast(src, dest)
  PROVE  InNetwork(room, dest) \/ Beyond(room, dest)
  <1> DEFINE n == Len(room)
  <1>1. n \in 1 .. 3
    OBVIOUS
  <1>2. \A i \in 1 .. n : src[i] = room[i]
    BY Zenon DEF InNetwork
  <1> HIDE DEF n
  <1>3. ASSUME NEW m \in 1 .. 3, n <= m, \A i \in 1 .. m : dest[i] = src[i]
        PROVE  \A i \in 1 .. n : dest[i] = room[i]
    <2>1. \A i \in 1 .. n : i \in 1 .. m
      BY <1>1, <1>3
    <2> QED BY <1>2, <1>3, <2>1, Zenon
  <1>4. n <= 3 /\ (n <= 2 \/ n > 2)
    BY <1>1
  <1>5. \/ \A i \in 1 .. 3 : dest[i] = src[i]
        \/ dest[3] = 255 /\ dest[4] = 255 /\ \A i \in 1 .. 2 : dest[i] = src[i]
    BY Zenon DEF IsSubnetBroadcast
  <1>6. 3 \in 1 .. 3 /\ 2 \in 1 .. 3
    OBVIOUS
  <1>7. ASSUME NEW m \in 1 .. 3, n <= m, \A i \in 1 .. m : dest[i] = src[i]
        PROVE  InNetwork(room, dest)
    <2>1. \A i \in 1 .. n : dest[i] = room[i]
      BY <1>3, <1>7, Zenon
    <2> QED BY <2>1, Zenon DEF InNetwork, n
  <1>8. CASE \A i \in 1 .. 3 : dest[i] = src[i]
    BY <1>4, <1>6, <1>7, <1>8, Zenon
  <1>9. CASE n <= 2 /\ \A i \in 1 .. 2 : dest[i] = src[i]
    BY <1>6, <1>7, <1>9, Zenon
  <1>10. CASE n > 2 /\ dest[3] = 255 /\ dest[4] = 255
    BY <1>10, Zenon DEF Beyond, n
  <1> QED BY <1>4, <1>5, <1>8, <1>9, <1>10, Zenon

(***************************************************************************)
(* classify_packet_with_config floods only what the routes send to the     *)
(* device, whatever the switches and the packet, but for the broadcast of  *)
(* the /16 around a smaller room.                                          *)
(***************************************************************************)
HasRoute(packet, on, room) ==
  Routed(room, route_cidrs(on), packet.dst) \/ Beyond(room, packet.dst)

LEMMA FloodIsRouted ==
  ASSUME NEW packet, NEW on, NEW room, Len(room) \in 1 .. 3,
         Flooded(classify_packet_with_config(packet, on)), InNetwork(room, packet.src)
  PROVE  HasRoute(packet, on, room)
  <1> USE DEF HasRoute
  <1> DEFINE dest == packet.dst
             port == udp_destination_port(packet)
             subnet == IsSubnetBroadcast(packet.src, dest)
  <1>1. \/ "mdns" \in on /\ dest = <<224, 0, 0, 251>>
        \/ "ssdp" \in on /\ dest = <<239, 255, 255, 250>>
        \/ "netbios" \in on /\ (dest = LimitedBroadcast \/ subnet)
        \/ "broadcast" \in on /\ dest = LimitedBroadcast
        \/ subnet
        \/ "multicast" \in on /\ IsMulticast(dest)
    <2> HIDE DEF port, subnet
    <2>1. classify_packet_with_config(packet, on)
            = CASE packet.version # "v4" -> "None"
                [] "mdns" \in on /\ dest = <<224, 0, 0, 251>> /\ port = {5353} -> "Multicast"
                [] "ssdp" \in on /\ dest = <<239, 255, 255, 250>> /\ port = {1900} -> "Multicast"
                [] /\ "netbios" \in on
                   /\ dest = LimitedBroadcast \/ subnet
                   /\ port \in {{137}, {138}} -> "Broadcast"
                [] "broadcast" \in on /\ dest = LimitedBroadcast -> "Broadcast"
                [] "subnet_broadcast" \in on /\ subnet -> "Broadcast"
                [] "multicast" \in on /\ IsMulticast(dest) -> "Multicast"
                [] OTHER -> "None"
      BY DEF classify_packet_with_config, port, subnet
    <2> QED BY <2>1 DEF Flooded
  <1>2. CASE "mdns" \in on /\ dest = <<224, 0, 0, 251>>
    <2>1. IsMulticast(dest)
      BY <1>2 DEF IsMulticast
    <2>2. "224.0.0.0/4" \in route_cidrs(on)
      BY <1>2, Zenon DEF route_cidrs
    <2> QED BY <2>1, <2>2, Zenon DEF Routed
  <1>3. CASE "ssdp" \in on /\ dest = <<239, 255, 255, 250>>
    <2>1. IsMulticast(dest)
      BY <1>3 DEF IsMulticast
    <2>2. "224.0.0.0/4" \in route_cidrs(on)
      BY <1>3, Zenon DEF route_cidrs
    <2> QED BY <2>1, <2>2, Zenon DEF Routed
  <1>4. CASE on \cap {"netbios", "broadcast"} # {} /\ dest = LimitedBroadcast
    <2>1. "255.255.255.255/32" \in route_cidrs(on)
      BY <1>4, Zenon DEF route_cidrs
    <2> QED BY <1>4, <2>1, Zenon DEF Routed
  <1>5. CASE "multicast" \in on /\ IsMulticast(dest)
    <2>1. "224.0.0.0/4" \in route_cidrs(on)
      BY <1>5, Zenon DEF route_cidrs
    <2> QED BY <1>5, <2>1, Zenon DEF Routed
  <1>6. CASE subnet
    <2>1. InNetwork(room, dest) \/ Beyond(room, dest)
      BY <1>6, BroadcastIsRouted, Zenon
    <2> QED BY <2>1, Zenon DEF Routed
  <1>7. on \cap {"netbios", "broadcast"} # {} <=> "netbios" \in on \/ "broadcast" \in on
    BY Zenon
  <1> HIDE DEF dest, subnet, HasRoute
  <1> QED BY <1>1, <1>2, <1>3, <1>4, <1>5, <1>6, <1>7, Zenon

(***************************************************************************)
(* Whatever the mode, the switches, the room's network and the packets of  *)
(* the device, a packet from the room's network that would be flooded is   *)
(* one a route brings to the device, but for the broadcast of the /16      *)
(* around a smaller room.                                                  *)
(***************************************************************************)
THEOREM FloodsAreRouted == TrafficSpec => []FloodsRouted
  <1> DEFINE InNetworks == network \in Networks
  <1>1. TrafficInit => InNetworks
    BY DEF TrafficInit
  <1>2. InNetworks /\ [TrafficNext]_traffic_vars => InNetworks'
    BY ZenonT(30) DEF TrafficNext, traffic_vars, packets, rules_add, rules_remove, rules_enable, Edit,
           set_traffic_policy, TunReadL3, TunReadL2, Taken, allow_broadcast, Refill, TunSend,
           UdpJudge, UdpWrite
  <1>3. InNetworks => FloodsRouted
    <2> SUFFICES ASSUME network \in Networks PROVE FloodsRouted
      BY Zenon
    <2> DEFINE on == network.on
               room == network.room
    <2>1. Len(room) \in 1 .. 3
      BY TrafficAssumption, Zenon
    <2> HIDE DEF on, room
    <2>2. \A packet : /\ Flooded(classify_packet_with_config(packet, on))
                      /\ InNetwork(room, packet.src)
                      => HasRoute(packet, on, room)
      BY <2>1, FloodIsRouted, Zenon
    <2> USE DEF on, room
    <2>3. \A packet \in network.outbound :
             /\ Flooded(classify_packet_with_config(packet, network.on))
             /\ InNetwork(network.room, packet.src)
             => HasRoute(packet, network.on, network.room)
      BY <2>2, Zenon
    <2> QED BY <2>3 DEF FloodsRouted, HasRoute, Beyond
  <1> QED
    BY <1>1, <1>2, <1>3, PTL DEF TrafficSpec
==============================================================================
