# A verification of r2n in TLA+

r2n is a virtual LAN: *edges* (a daemon on every participant's machine) register
with a *supernode*, create or join *rooms*, get a virtual address in the room's
subnet, find each other with the supernode's help (hole punching and a Noise
handshake) and exchange encrypted frames, directly or through the supernode's
relay.

This directory holds TLA+ models of the parts where orderings, losses and limits
decide whether the program is right, TLC runs on small instances, and TLAPS proofs
for every instance. Every definition is translated from the Rust source;
`PROJECT.json` maps each one to the lines it stands for.

## The system's parts

| part | source | module | what is modelled |
|---|---|---|---|
| rooms, leases | `crates/r2n-room` | `Room` | members, leases that outlive membership, `allocate_ip` |
| address pool | `crates/r2n-room` | `RoomAddressPool` | `allocate_with_avoidance` |
| supernode control plane | `crates/r2n-supernode-lib` | `Supernode` | every control frame, reaper, management kick |
| supernode data relay | `crates/r2n-supernode-lib`, `r2n-slab` | `Relay` | the Data branch, slots, the tasks that send |
| replay protection | `crates/r2n-crypto` | `ReplayWindow`, `AtMostOnce` | the 64-bit window between sender and receiver |
| Noise handshake | `crates/r2n-edge-lib`, `crates/r2n-crypto` | `Handshake` | punch requests, first and second message, install-once |
| dataplane send path | `crates/r2n-dataplane`, `r2n-slab`, `r2n-qos` | `SendPath` | `send_to_peer`, slot ownership, the scheduler |
| dataplane receive path, L2 forwarding | `crates/r2n-dataplane` | `Incoming` | validation, flood deduplication, MAC table, delivery, against room changes |
| traffic policy | `crates/r2n-policy`, `r2n-edge-lib` (ipc) | `Policy`, `Traffic` | matching, the rule commands, the two tasks that ask |
| LAN discovery, L3 targets | `crates/r2n-discovery`, `r2n-dataplane` | `Discovery`, `Traffic` | classification, routes for it, targets, broadcast limit |
| MSS clamping, ICMP | `crates/r2n-dataplane` (defense) | `Defense` | the walk over TCP options, checksums, "fragmentation needed" |
| path manager, pings | `crates/r2n-dataplane`, `r2n-observability` | `Paths` | `PathManager`, `run_ping_loop`, pongs and timeouts |
| NAT probing, candidates, pairs | `crates/r2n-nat`, `r2n-rendezvous`, `r2n-edge-lib` | `Candidates` | port pattern and prediction, merging with the mapping, the pairs punched |
| port mapping | `crates/r2n-nat` (port_mapping) | `PortMapping` | three protocols with their timeouts, lease, renewal, withdrawal |
| registration, failover, advertising the mapping | `crates/r2n-edge-lib`, `crates/r2n-nat` | `Registration` | mapping task, `SwitchSupernode`, the watchdog's rotation |
| room life cycle of an edge | `crates/r2n-edge-lib` | `EdgeRoom` | `activate_room`, `deactivate_room`, commands, peer tables, rejoin |
| commands and their replies | `crates/r2n-edge-lib` | `Commands` | channel, reply slots, timeouts, late and lost answers |
| room history | `crates/r2n-edge-lib` | `History` | read, change and rewriting of `history.json` by several tasks of an edge that may die |
| supernode list | `crates/r2n-config`, `r2n-cli`, `r2n-edge-lib` | `SupernodeList` | normalising, argument, resolving, the way around the list |
| starting the programs | `crates/r2n-cli`, `r2n-config`, `r2n-edge-lib`, `apps/supernode` | `Daemon` | `config.toml`, UDP port, IPC socket, clients that start a daemon |

`Lists` holds what the last models use of Rust's vectors: `filter`, the stable
`sort_by_key` and `truncate`. Parts without a module are listed under "Not modelled".

## How state and actions correspond to the code

**Room, RoomAddressPool, Supernode.** A `HashMap` or `DashMap` is a total function
whose value `None` (or 0) means "no entry". A virtual address is its host number in
the subnet; a subnet is its position in the order in which the pool tries them; a
local network is the set of pool subnets it overlaps. An allocator is an operator
that returns the set holding its result, empty for an error. The receive loop awaits
each handler, so one frame is one action: `RegisterNode`, `CreateRoom`,
`CreateRoomExhausted`, `JoinRoomAccept`, `JoinRoomReject`, `JoinRoomExhausted`,
`LeaveRoom`, `OtherFrame`, and `Unregistered` for senders nobody knows. `sent` is
what the step put on the wire. The reaper (`Reap`) and the management API (`Kick`)
work on the copies `run()` made for them: cloning a `DashMap` copies its entries.
`LeaveRoom` calls `rooms.remove` under its own `get_mut` guard, which never returns
(DashMap 5.5), so the last member's leave ends the loop; the pool's `release`, two lines
further, is never reached and has no definition.

**ReplayWindow.** The bitmap is the set of its one bits. `Send` takes a nonce,
`Decrypt(n)` is `decrypt_in_place` of an authentic frame that arrives for the first or
the n-th time. A move of the window by its whole width shifts a word by its width:
a release build masks the amount to 0, a debug build panics and poisons the lock
(`Builds`).

**SendPath.** A call of `send_to_peer` is cut at its awaits: `FillSlot` (acquire,
write, encrypt), `Push`, `SendRaw` or `SendRawFails`, `FinishSend` (pop and release). The freelist
counts how often a slot is in it.

**Handshake.** A session and the key sent in it go by one number. The network keeps
every message, so the copies of a burst are repeated deliveries. `Finish`, `Drop` and
`Respond` are the three ways the Handshake branch can go.

**EdgeRoom.** `activate_room` (UDP task) and `deactivate_room` (command task) are cut at
every lock, since the tasks run on several threads and each piece of state has its own
lock. The supernode is what it may answer: nothing, or one of the frames of the
request, at any later time. A room may be granted with one network now and another later,
since a supernode started anew, or another one, makes the room again. `disturbed` and `leftover` are history
variables: a frame and a leave overlapped; a device or route of an earlier grant stayed (another network under a device that is kept, a device whose name or a route whose
removal failed).

**Incoming.** `handle_incoming_frame` is cut where another thread can matter: `Receive`
(header check and flood record, under one lock each, against the room of that moment),
`Lookup` (the peer), `Deliver` (learning the MAC and writing to the device of that moment).
A leave runs in between in its own steps (`LeaveBegin`, `LeaveTun`, `clear_peers`,
`LeaveDataplane`). `AgeMac` and `AgeFlood` let entries pass their age limits. `last heard`
and the flood log are history variables. Decryption is in `ReplayWindow`.

**Paths.** One peer's `PathManager`. A path's score is a rank, its last success a flag
that time takes away (`fresh`). A round of `run_ping_loop` first records the timeouts of
`check_ping_timeouts` and then sends the pings; pongs come late or never, and
`ReplacePeer` exchanges the manager while pings are out.

**Registration.** Each task is cut at its locks and awaits. The candidates are the port
mapping among them, since the others are fixed at the start. `told` is what was last sent
to each address; a send may fail. `missed` and `contended` are history variables: a
registration failed or was overtaken; a switch and a rotation wrote between each other's
two writes. Persisting the switched address in the configuration file has no effect on the
running edge and is part of `SwitchRuntime` without state; what it does to the file is in
`Daemon`. Init is the moment after `run` subscribed to the port mapper, which it starts
earlier (line 682) than it subscribes (line 799). A refresh in between would be passed over
until the next one. It is left out: collecting the candidates takes at most 5 s, and the mapper
first sleeps for 60 s without a mapping, and with one for half its lease or 30 s, or what is left
of a lease shorter than that, so only a lease of a few seconds comes so early.

**Relay.** The receive loop takes a frame and a slot (`RelayReceive`) or drops the frame
(`RelayDrop`: unknown target, no slot, frame too long). The spawned task sends
(`RelaySend`, which may fail) and releases (`RelayRelease`) at any later time; nodes register
anew meanwhile.

**Policy, Discovery, Traffic.** Addresses, ports and switches are small sets; a rule or a
packet is a record of them. A rule command is two steps, the copy and the store
(`set_traffic_policy`), because the code takes the lock twice. The TUN loop and the UDP task
each judge a packet and, in a later step, send it or write it to the device. `asked` is what
the acknowledged commands amount to, `late` counts packets that pass a rule added after they
were judged; both are history variables. Subnets end at whole octets; a room's network is its
leading octets.

**Commands.** One asker is one command. Its connection task waits and gives up after 35 s
(`wait_for_command_reply`), the command loop takes commands in turn, keeps one reply slot per
kind, and the UDP task empties a slot when an answer comes.

**SupernodeList, Candidates, Defense.** Mostly functions of their inputs, translated one to
one and checked over all bounded inputs, against a reference where there is one: `Defense`
encodes a list of options into bytes, and clamping these must give the encoding of the lowered
list. In `Candidates`, `Punch` lets both sides work from the same two lists: a list that changes
between the two requests, and the request a node alone gets when another registers again, are
left out. `NextPortsPredicted` is about the answers that are taken; ports that the NAT gave to
probes beyond `TopServers` are outside it. In
`SupernodeList` every name has an address, since a lookup that fails ends the daemon. The
checksums of `Defense` are those of the ICMP message and of the TCP segment; the outer IP header
is left to the code's tests. Loops over lists are recursive functions over positions, so that they can be proved about.

**History, Daemon.** A file that is rewritten is first truncated and then filled, in two
steps, and the edge or any of the programs may die before, between or after them and start
again. A reader in between finds an empty file. `overlapped` and `contended` are history
variables that record that two users of the file overlapped or, in `Daemon`, that one died
while writing; in `History` a restarted edge goes on with what the file then has. `ConfigFiles`
are the files a program may find, the flat ones of older versions included: a flat file is read
as the edge's, whichever program wrote it.

**PortMapping.** Time is the lease that is left and the timer of the sleep or attempt under
way, in seconds, and moves in steps of one (`Tick`). The gateway's choice of answer stands
for the three protocols' messages. `kept_up` records that every renewal so far was granted,
with leases longer than `MinRenew` and the time of a refresh.

## Runs

| run | expectation | what it shows |
|---|---|---|
| `supernode` | pass | sound (hence unique) and stable leases, pool and rooms in agreement, announcements that match the table and go to members of the room |
| `supernode_leave` | violation | the last member's leave blocks the receive loop |
| `supernode_zombies` | violation | silent nodes are never removed |
| `edge_parts` | pass | ten parts that share no state (see below): at-most-once delivery; rule commands kept, rules in force but for one packet per direction, floods that have a route; own keys that were read; answers for their own caller; a rotation that covers the list; a history that keeps what was asked for, also after a crash; predicted ports, pairs both sides punch; mappings renewed in time or withdrawn; lowered MSS options and right checksums; `config.toml` and the IPC socket survive programs that take turns |
| `send_path` | pass | one owner per slot, intact frames and bounded queues at the edge, intact frames, sent at most once, in the supernode's relay |
| `commands_refused` | violation | a lost answer makes every later command of its kind be refused as "in progress" |
| `handshake_keys` | violation | crossing handshakes leave the two edges with different keys |
| `edge_room` | pass | no swap of rooms, an undisturbed leave heals, the room shown is the room served while frames and leaves take turns, whatever networks are granted |
| `edge_room_atomic` | violation | activation is not atomic with respect to a leave |
| `incoming` | pass | recent floods pass once, MACs lead to the node last heard, frames reach only their own room's device |
| `paths` | pass | the active path moves only to a fresh path or the relay, a dead path is left |
| `registration` | pass | the supernode in use knows the latest candidates, status shows it, mapping changes are not passed over, the rotation finds a live supernode |

**Sums of parts.** `MCEdgeParts` and `MCSendPath` hold several components that share no
variable. A behaviour chooses one part at the start and only this part moves, which reaches
every state of each part and no product of them. In `MCEdgeParts` the parts are the modules
`ReplayWindow`, `Traffic`, `Handshake`, `Commands`, `SupernodeList`, `History`,
`Candidates`, `PortMapping`, `Defense` and `Daemon`.

**Bounds.** `supernode`: two nodes, two addresses (so that one node has two and two nodes
share one), two rooms, two tokens, two hosts per subnet and one subnet that is also the
fallback: exhaustion of hosts and pool, re-creation on demand and reuse of leases all
happen. An address wanted by a third node while its holder is away needs three nodes, which
with everything else is too much for TLC; the theorems on leases hold for any number.
`edge_parts`, replay window: width 4 and nine nonces, so the window moves by less than,
exactly and more than its width, twice. Handshake: two punch requests per edge, enough for a
session to be replaced while its messages are under way. Traffic: two clients, so that one
stores between the other's two steps. Commands: three, so that one waits, one is refused and
one comes after both. List: up to three of four names for three addresses, blank and
repeated ones among them. History: two tasks, two rooms for one place, a clock that may
go back; the theorem is about any number of each. Candidates: seven ports, so that predictions
run past the last one, two interfaces and one mapped port, more answers than `TopServers` takes
and more pairs than `MaxPairs`. Mapping: the times are scaled down
to 12 for the requested lease, 5 and 7 for the shortest sleep and the retry, 1 for each
timeout, in the order the code's 3600, 30, 60 and 3, 2, 2 have, with granted leases on both
sides of the longest one that is renewed too late (8, as 37 s in the code); the theorems
hold for the code's values too. Defense: bytes of base 8, so that sums carry. Daemon: two
daemons, one client and a supernode, and two identities, so that a lost one is replaced by
another; the daemons are model values that nothing tells apart, hence the symmetry. `send_path`: three tasks (as in the code), three slots, bulk capacity two; for the
relay three frames, two slots and one target with two addresses, so that a slot is reused
and the target moves. `edge_room`: two rooms and two networks, any of them granted with any, one peer, one frame under
way at a time (further ones would only wait: the UDP task handles one at a time).
`incoming`: two peers, two rooms and two MACs, tables that hold one entry, so that every
insertion evicts, and three floods, enough for one to be evicted and come again. `paths`:
the relay and two direct addresses, scores of three ranks, one ping under way per path.
`registration`: two configured supernodes of which the second is live, and switches to a
third address outside the list.

**Fairness.** `supernode_zombies` assumes weak fairness of the reaper's tick, a timer of the
runtime. `paths` assumes weak fairness of the ping loop, which a timer drives, and that time
passes (pings become overdue, successes old); nothing of the network. `registration` assumes
weak fairness of the tasks (timers, and awaits that return) and strong fairness of the
answers of a live supernode: the edge registers with it in each round that selects it, and
while it is live not every answer takes longer than the 5 s to the next round. Weak fairness
would say nothing there, since the rotation moves on.

**Deadlock** is checked except in `send_path` (all slots may be lost), `edge_room` (Stop ends
the daemon) and the violation runs `edge_room_atomic` and `commands_refused`. In
`edge_parts` the check says something of the handshake only: the other parts are bounded in
how much happens and may stop.

## Proofs

`SupernodeProofs` (for any set of nodes, addresses, rooms and tokens, any pool and
subnet size): the inductive invariant is `TypeOK /\ LeasesSound`. `UniqueIps` alone is
not inductive: a rejoining node gets its lease back without another look at the table, so
the proof needs that leases are pairwise distinct and that members hold their leases.
The lemma `RoomChanges` classifies what a step can do to a room (nothing, end, a
member added with an allocated address, a member removed, a new room), and each
room invariant is preserved by each class. `LeaseStable` follows from the same
classification; `PoolBacksRooms` has its own step lemma.
`AnnouncesTable` speaks of the frames of the last step only, so each handler's frames are
compared with the room it leaves (`JoinAnnounces`, `AnnounceStep`).

Also in `SupernodeProofs`: *Relay* (any frames, slots, nodes and addresses): `RelayInv` says that a task under way has a
slot that is off the freelist and still holds its frame, and that every slot is free once or
some task's. The two properties follow; neither is inductive without the slot's content.

`PeerProofs` holds what an edge keeps for one peer, and the slots of what it sends.
- *Handshake* (any number of punch requests and sessions, any delivery): the invariant adds
  that installed keys and messages belong to sessions somebody opened, and that a second
  message exists only for a session that was answered. From these `PendingBelongsToSession`
  and `OwnKeyWasRead` are inductive, and `CipherStable` follows from the step.
- *Paths* (any addresses and scores): `reevaluate` chooses a path of least score, and
  `ReevaluateFacts` shows that there is one, from the least number with a property
  (`LeastOf`); the relay or a fresh path is chosen each time. `MovesToFresh` also needs
  that no address is in the list twice and that the relay stays first (`PathInv`), since the
  property speaks of addresses and the code of positions.
- *ReplayWindow* (any width, any bound, both kinds of build): `DeliveredIsMarked` and
  `LateFramesAccepted` are inductive together with the types, and from the first follows that
  every step is a step of `AtMostOnce` or a stutter.
- *SendPath* (any tasks, slots and capacities): `OwnInv` says that a slot is on the freelist
  at most once and then nobody's, or belongs to exactly one call, or is lost to a failed send.
  `SlotHasOneOwner` needs the exact count, since a release adds to it; `FramesIntact` follows
  from the same invariant, because the slot a call writes came off the freelist.
  `QueuesBounded` counts: a push comes with a call that goes from filled to queued, a pop with
  one that ends, a failed send with a slot that is lost and was not lost before (`OwnInv`).
  Here tasks and slots are finite, as `SendPath` assumes.

`IncomingProofs` (any nodes, rooms, MACs and capacities): `RoomInv` relates the frame being
handled, the room of the dataplane and the device while a leave is half done, and gives
`WrittenToOwnRoom`; `MacInv` says that entries name the node last heard and, unless a leave
came between lookup and learning, a peer, and gives `ForwardsToLastHeard` and
`EntriesHavePeers`. The first is inductive only with the stages of the leave, the second
only with the fact that the peer looked up for the frame in hand is still there. For
`RecentFloodsOnce`, `FloodInv` says that the queue is the end of the list of what was let
through, that the set holds the queue's keys, each once, and that whatever is no longer in the
queue is too old or too far back.

Also in `IncomingProofs`: *Traffic* (any clients, rules, networks and packets): `Edits` says of each command between
its two steps that its copy amounts to what was asked for and the command itself, unless another
was stored meanwhile. `EditsAreKept` assumes that the policies an edge starts with repeat no
rule id. What `retain` leaves of a list is shown by induction over the list (`RetainFacts`).
`Lateness` says that once a packet was late in a direction, the next one in hand there is one
the policy allows. `FloodsRouted` is a fact about `classify_packet_with_config`,
`route_cidrs` and the room's route, proved case by case: a broadcast of the sender's own /24 or
/16 lies in the room's network (`BroadcastIsRouted`) unless the room is smaller than a /16 and
the broadcast is that of the /16, which the property names as its exception.

`DefenseProofs` (any options, data and limits, bytes of any base above 1; of a list of options it is
assumed that the end mark comes last). The properties are about what was read and what came
of it, so the invariant `DefenseInv` only says that these belong together; the work is in the
functions. `ClampsTheList`: the bytes of a list lie one option behind the other (`LaidOut`),
the walk goes from one first byte to the next and so meets the MSS options of the list and
nothing else (`WalkMeets`), and writing two bytes at each gives the bytes of the lowered list
(`BytesLowered`). `ChecksumsVerify`: folding carries keeps a sum modulo the largest word
(`FoldedFacts`), and a sum that is a positive multiple of it folds to that word (`FoldsToOnes`),
so a receiver that sums everything, the checksum included, finds all ones.

`EdgeRoomProofs` (any grants, peers, OS errors and frames): `RoomHeld` says that an activation
that looked at the room still finds that room or none, which gives `RoomNeverReplaced`;
`Healing` lists what a leave has reset at each stage, as long as no frame came in between, and
gives `LeaveHeals`. `InTurn` and `Wiring` say, for frames and leaves that take turns, what
tables, room, device, route, runtime and dataplane are at each stage of an activation or a
leave, failed ones included; `TablesAgree` and `WiredInTurn` are what is left of it between
them. Nothing is assumed of the grants: between turns `Served` (the room in use has the dataplane, a
device, and a grant of its own that is shown and routed) holds in any case, and `Exact` (device
and routes are those of the network shown) unless something was left over.

Also in `EdgeRoomProofs`: *Daemon* (any number of daemons and clients): `Stages` says what a program has read and
holds at each step of its way, `Guarded` that with a fixed port one daemon at a time has passed
its bind and no other comes as far as to unlink the socket, `Config` that whoever holds
something read from the file holds what was kept. `Config` is needed at every step between
reading and writing: a save writes back the other program's section as it was read.

`ControlProofs` holds what an edge exchanges with its supernode, router and local clients.
- *Registration* (any list of supernodes, any targets and mappings): `LatestRegistered` speaks
  only of moments when no task is at work, so the invariant `TargetTold` says who will tell the
  supernode in use while it does not know the advertised candidates, and that whatever is about
  to be sent is current. `Shown` says that without contention one task at most is between its
  two writes; `NewsInv` where the newest mapping is while the channel is empty.
- *PortMapping* (any lease, intervals and timeouts with `RefreshIsShort`: a refresh is shorter
  than the shortest sleep, and the requested lease longer than both together, which 3600, 30 and
  3 + 2 + 2 are): `Ahead` is the time until the refresh under way or next is over at the latest.
  `Outlasts` says that a lease kept up is longer than that, `BarelyOver` that any lease was over
  at most a second before the refresh began.
- *Commands* (any number of clients): a command is in the channel at most once and not among the
  requests sent (`QueuedOnce`), and a query for rooms whose answer can still come holds the slot
  (`ActiveIsPending`). The second is why `RoomsAnswerIsOwn` holds although answers carry no
  number; the first, why a command taken from the channel does not disturb it.

`ListProofs` holds the lists an edge keeps, after lemmas about filtering (`PickedFacts`),
inserting and sorting (`OrderFacts`: a permutation, keys never rising) that `CandidateProofs`
uses too.
- *SupernodeList* (any names, files and resolution): `ListInv` says at each stage that no
  configured name has been lost so far, and once the edge runs that every address within
  `rotations` places behind the one in use has been tried (`AroundTo`). `RotationCovers` is this
  after as many rotations as the list is long. A rotation looks for the address in use by value,
  hence the exception for lists with repetitions.
- *History* (any tasks, rooms and clock, any `MaxHistory`): `HistoryInv` says that no list has a
  room twice, and, as long as no two tasks have met since the edge started, that one at most holds
  a copy and that it is of everything the file should hold (`Alone`). Sorting and truncating then leave out only
  entries no later than those that stay (`SaveFacts`), which is `LatestKept`.

`CandidateProofs` (any interfaces, answers, ports and limits): `CandidatesInv` says that what is
advertised was collected from the probe's answers and merged with some mapping. `PunchesMeet`:
the pairs of two lists are those of the lists exchanged, turned and with equal scores
(`PairsTurn`, `ScoreTurns`); a pair that scores more than the last one taken on one side is among
the first `MaxPairs` on the other, or two places would hold the same pair (`BestMeet`, with the
pigeonhole lemma `TwoAlike`). `NextPortsPredicted`: ports given out at a fixed distance, sorted,
are at that distance (`SpacedRising`), the prediction finds it (`DeltaFound`) and counts on from
the highest (`PredictsNext`); neither removing repeated addresses nor merging the mapping loses
an address (`DedupByFacts`, `MergeFacts`).

That the recursive functions of the models exist follows from the library's theorems on
recursive definitions. The library's induction rules are out of the provers' reach, but
induction over the numbers (`Upwards`) follows from the uniqueness of a recursive function: a
set that holds 0 and is closed under successor, and the set of all numbers, have characteristic
functions that obey one recursion.

Model-checked only: the liveness properties (`ZombiesRemoved`, `DeadPathIsLeft`,
`RotationFindsLive`), which are out of the prover's reach. Every other property that a passing
run checks is also a theorem.

Proved only, since a proof says more than a run on one instance: `UniqueIps` (which
`LeasesSound` implies), `DeliveredIsMarked`, `LateFramesAccepted`, `PendingBelongsToSession`,
`CipherStable`, `EntriesHavePeers`, `RelaySlotsConserved`, `PathsType`. Types are checked and
proved for `Supernode`, and proved for every module that has theorems, as a conjunct of the
inductive invariant or in the module's own type invariant, to the extent that the argument uses
them; the type invariants of the other modules say what their variables hold.

## What could come next

A composition of the supernode with edges over a lossy network (membership as the edges see
it).

## Behaviours met while modelling

These follow from the code. No test, comment or document of the repository states the
contrary clearly enough to check it against, so they have no run of their own; the models
include them unless noted.

- A JoinAccept for the current room with another network reuses the old device and leaves the
  old route (`activate_room`); `WiredInTurn` allows for it (`leftover`).
- A join that is refused leaves the room it created, empty, with its subnet taken.
- The broadcast of the /16 around a /24 room counts as one to flood, but no route brings it to
  the device.
- An answer that arrives after a leave activates the room again.
- A room created when the pool is exhausted shares the fallback subnet.
- A new path counts as fresh before it ever answered (`PathInfo::new`); the comment in
  `reevaluate` speaks of paths that succeeded recently.
- The relay of a path manager keeps the address it had when the peer was added, also after a
  failover.
- Flood numbers restart at 1 with the edge; peers refuse them while the old ones are recent.
- A watchdog round that read the address before a switch overwrites the switch, and a round
  that found the room active may rotate away from the address just switched to.
- `normalize_supernodes` removes only neighbouring repetitions; with an address twice in the
  list the rotation does not get past its second place. `Registration` assumes a list
  without repetitions; `SupernodeList` builds such lists, and `RotationCovers` excepts them.
- Two rule commands that overlap: the later store undoes the earlier command, which was
  acknowledged.
- A task that reads `history.json` while another rewrites it finds it empty and saves that; an
  edge that dies while rewriting it leaves it empty. `LatestKept` says nothing of saves that
  meet, and holds again for those after them.
- Two programs that rewrite `config.toml` at once, or one that dies while writing, may lose a
  section or the edge's identity; `ConfigSurvives` excepts exactly this.
- A registration that fails or is overtaken leaves older candidates at the supernode until the
  next (`LatestRegistered`), and a switch and a rotation that write between each other's writes
  leave status with the wrong address (`AddressShown`).
- A flat `config.toml` of a supernode is read as an edge's, and the edge's next save drops the
  supernode's settings.
  A room entered with the clock set back may be left out of a full history.
- A `config.toml` that has only a supernode section lets the edge run under a random identity
  that is not saved.
- With `local_udp_port = 0`, the default, a second daemon takes over the IPC socket and the
  first runs on unreachable. `PortGuardsSocket` is about daemons with a fixed port.
- Every STUN probe binds a socket of its own, so a NAT seldom gives two probes one port, and
  the type is rarely inferred as cone. Only the fastest answers are used, which may hide a
  fixed distance between the ports.
- Only 16 pairs are punched; good local pairs may leave no room for reflexive ones. An edge
  without candidates has no pairs and sends no handshake.
- A lease of up to 37 s lapses before it is renewed. Mappings are not deleted at the gateway.

## Not modelled

- Sockets (`r2n-transport`), devices (`r2n-tun`) and operating system routes (`r2n-route`) are
  I/O: the models that use them let each call succeed or fail. `UdpTransport::send_batch` and
  `detect_nat_type`, `choose_upgrade` of `r2n-rendezvous` and `all_supernodes` of `r2n-common`
  have no caller in the programs.
- The layout of frames (`r2n-proto`) and invites (`r2n-common`) is a fixed encoding without
  state; STUN, UPnP, NAT-PMP and PCP messages are the choice of an answer.
- Of `r2n-config` and `r2n-cli`: the syntax of the file and the arguments, fields that pass
  through, and what is printed.
- Queries of the IPC server and the management API, which report state and change none;
  counters and histograms of `r2n-observability`.
- `Defense` assumes well-formed packets, as long as their headers say.
- The routes to discovery networks that `activate_room` adds, whose failure it only reports.
- In `Paths` an address works in both directions or in neither. A path that is dead only
  outwards, over which handshakes still come in and count as successes, is not covered.
- `r2n-daemon` and `r2n-tests` are placeholders.
- Two hazards have no property: flood numbers that restart with the edge
  (`r2n-dataplane/src/lib.rs:165`) and the relay address that a path manager keeps after a
  failover (`r2n-edge-lib/src/lib.rs:1029`). `PROJECT.json` says why.
