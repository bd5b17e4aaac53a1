--------------------------- MODULE ControlProofs ----------------------------
(***************************************************************************)
(* Proofs about what an edge exchanges with those it depends on: what it   *)
(* registers with the supernode (Registration), the port mappings it asks  *)
(* its router for (PortMapping), and the commands of local clients that it *)
(* passes on to the supernode (Commands).                                  *)
(***************************************************************************)
EXTENDS Registration, PortMapping, Commands, TLAPS

-----------------------------------------------------------------------------
(***************************************************************************)
(* Proofs about Registration, for any supernodes, targets and mappings.    *)
(***************************************************************************)

(* A task that is about to use an address has one. *)
HasAddr(task) == task.at \in {"addr", "runtime", "read", "send"} => task.addr \in Addrs

Typed ==
    /\ TypeOK
    /\ HasAddr(cmd) /\ HasAddr(wd)
    /\ mapper.at = "send" => mapper.addr \in Addrs

LEMMA FirstSupernode == Supernodes[1] \in Addrs
<1>1. Len(Supernodes) \in Nat /\ DOMAIN Supernodes = 1 .. Len(Supernodes) /\ Len(Supernodes) # 0
  BY RegistrationAssumption
<1>2. QED
  BY <1>1 DEF Addrs

(* The rotation yields an address again. *)
LEMMA RotationTyped ==
    ASSUME NEW a \in Addrs
    PROVE  next_supernode_after(a) \in Addrs
<1>1. Len(Supernodes) \in Nat /\ DOMAIN Supernodes = 1 .. Len(Supernodes) /\ Len(Supernodes) # 0
  BY RegistrationAssumption
<1>2. ASSUME NEW i \in DOMAIN Supernodes PROVE (i % Len(Supernodes)) + 1 \in DOMAIN Supernodes
  BY <1>1, <1>2
<1>3. CASE \E i \in DOMAIN Supernodes : Supernodes[i] = a
  <2> DEFINE i == CHOOSE j \in DOMAIN Supernodes : Supernodes[j] = a
  <2>1. i \in DOMAIN Supernodes
    BY <1>3, Zenon
  <2>2. Supernodes[(i % Len(Supernodes)) + 1] \in Addrs
    BY <2>1, <1>2, Zenon DEF Addrs
  <2>3. QED
    BY <1>3, <2>2, Zenon DEF next_supernode_after
<1>4. CASE ~ \E i \in DOMAIN Supernodes : Supernodes[i] = a
  BY <1>4, FirstSupernode, Zenon DEF next_supernode_after
<1>5. QED
  BY <1>3, <1>4, Zenon

LEMMA IdleTyped == Idle \in Task /\ Idle.at = "idle"
  BY Zenon DEF Idle, Task, Candidates

LEMMA RegisterTyped ==
    ASSUME TypeOK, NEW a \in Addrs, NEW c \in Candidates, Register(a, c)
    PROVE  told' \in [Addrs -> Candidates] /\ missed' \in BOOLEAN
<1>1. told' \in [Addrs -> Candidates]
  BY Zenon DEF TypeOK, Register
<1>2. missed' \in BOOLEAN
  BY Zenon DEF TypeOK, Register
<1>3. QED
  BY <1>1, <1>2, Zenon

LEMMA TypedInit == Init => Typed
<1> SUFFICES ASSUME Init PROVE Typed
  BY Zenon
<1>1. {mapper, cmd, wd} \subseteq Task /\ HasAddr(cmd) /\ HasAddr(wd) /\ mapper.at # "send"
  BY DEF Init, HasAddr, Idle, Task, Candidates
<1>2. {supernode_addr, runtime_addr} \subseteq Addrs /\ {mapping, advertised} \subseteq Candidates
  BY FirstSupernode, Zenon DEF Init
<1>3. told \in [Addrs -> Candidates]
  BY Zenon DEF Init, Candidates
<1>4. QED
  BY <1>1, <1>2, <1>3, Zenon DEF Init, Typed, TypeOK

LEMMA TypedStep == Typed /\ [Next]_vars => Typed'
<1> SUFFICES ASSUME Typed, [Next]_vars PROVE Typed'
  BY Zenon
<1> USE DEF Typed, TypeOK, HasAddr, mapping_vars
<1>1. ASSUME NEW m \in Mappings \cup {mapping, None}, Refresh(m) PROVE Typed'
  BY <1>1, Zenon DEF Refresh, Candidates
<1>2. CASE MapTake
  <2>1. mapper' \in Task /\ mapper'.at # "send"
    BY <1>2, Zenon DEF MapTake, Task
  <2>2. QED
    BY <1>2, <2>1, Zenon DEF MapTake
<1>3. CASE MapAdvertise
  <2>1. mapper' \in Task /\ mapper'.at # "send"
    BY <1>3, IdleTyped, Zenon DEF MapAdvertise, Task
  <2>2. advertised' \in Candidates
    BY <1>3, Zenon DEF MapAdvertise, Task
  <2>3. missed' \in BOOLEAN
    BY <1>3, Zenon DEF MapAdvertise
  <2>4. QED
    BY <1>3, <2>1, <2>2, <2>3, Zenon DEF MapAdvertise
<1>4. CASE MapAddr
  <2>1. mapper' \in Task /\ mapper'.addr \in Addrs
    BY <1>4, Zenon DEF MapAddr, Task
  <2>2. QED
    BY <1>4, <2>1, Zenon DEF MapAddr
<1>5. CASE MapSend
  <2>1. mapper.addr \in Addrs /\ mapper.candidates \in Candidates
    BY <1>5, Zenon DEF MapSend, Task
  <2>2. told' \in [Addrs -> Candidates] /\ missed' \in BOOLEAN
    BY <1>5, <2>1, RegisterTyped, Zenon DEF MapSend
  <2>3. QED
    BY <1>5, <2>2, IdleTyped, Zenon DEF MapSend
<1>6. ASSUME NEW a \in Targets, Switch(a) PROVE Typed'
  <2>1. a \in Addrs
    BY Zenon DEF Addrs
  <2>2. cmd' \in Task /\ cmd'.addr \in Addrs
    BY <1>6, <2>1, Zenon DEF Switch, Task, Candidates
  <2>3. QED
    BY <1>6, <2>2, Zenon DEF Switch
<1>7. CASE SwitchAddr
  <2>1. cmd' \in Task /\ cmd'.addr \in Addrs
    BY <1>7, Zenon DEF SwitchAddr, Task
  <2>2. QED
    BY <1>7, <2>1, Zenon DEF SwitchAddr
<1>8. CASE SwitchRuntime
  <2>1. cmd' \in Task /\ cmd'.addr \in Addrs
    BY <1>8, Zenon DEF SwitchRuntime, Task
  <2>2. QED
    BY <1>8, <2>1, Zenon DEF SwitchRuntime
<1>9. CASE SwitchRead
  <2>1. cmd' \in Task /\ cmd'.addr \in Addrs
    BY <1>9, Zenon DEF SwitchRead, Task
  <2>2. QED
    BY <1>9, <2>1, Zenon DEF SwitchRead
<1>10. CASE SwitchSend
  <2>1. cmd.addr \in Addrs /\ cmd.candidates \in Candidates
    BY <1>10, Zenon DEF SwitchSend, Task
  <2>2. told' \in [Addrs -> Candidates] /\ missed' \in BOOLEAN
    BY <1>10, <2>1, RegisterTyped, Zenon DEF SwitchSend
  <2>3. QED
    BY <1>10, <2>2, IdleTyped, Zenon DEF SwitchSend
<1>11. CASE WdRound
  <2>1. wd' \in Task /\ wd'.at = "look"
    BY <1>11, IdleTyped, Zenon DEF WdRound, Task
  <2>2. QED
    BY <1>11, <2>1, Zenon DEF WdRound
<1>12. CASE WdLook
  <2>1. wd' \in Task /\ wd'.addr \in Addrs
    BY <1>12, Zenon DEF WdLook, Task
  <2>2. QED
    BY <1>12, <2>1, Zenon DEF WdLook
<1>13. CASE WdRotate
  <2>1. next_supernode_after(wd.addr) \in Addrs
    BY <1>13, RotationTyped, Zenon DEF WdRotate
  <2>2. wd' \in Task /\ wd'.addr \in Addrs
    BY <1>13, <2>1, Zenon DEF WdRotate, Task
  <2>3. supernode_addr' \in Addrs /\ contended' \in BOOLEAN
    BY <1>13, <2>1, Zenon DEF WdRotate
  <2>4. QED
    BY <1>13, <2>2, <2>3, Zenon DEF WdRotate
<1>14. CASE WdRuntime
  <2>1. wd' \in Task /\ wd'.addr \in Addrs
    BY <1>14, Zenon DEF WdRuntime, Task
  <2>2. QED
    BY <1>14, <2>1, Zenon DEF WdRuntime
<1>15. CASE WdRead
  <2>1. wd' \in Task /\ wd'.addr \in Addrs
    BY <1>15, Zenon DEF WdRead, Task
  <2>2. QED
    BY <1>15, <2>1, Zenon DEF WdRead
<1>16. CASE WdSend
  <2>1. wd.addr \in Addrs /\ wd.candidates \in Candidates
    BY <1>16, Zenon DEF WdSend, Task
  <2>2. told' \in [Addrs -> Candidates] /\ missed' \in BOOLEAN
    BY <1>16, <2>1, RegisterTyped, Zenon DEF WdSend
  <2>3. QED
    BY <1>16, <2>2, IdleTyped, Zenon DEF WdSend
<1>17. CASE RoomChanges \/ Activity \/ Silence
  BY <1>17, ZenonT(30) DEF RoomChanges, Activity, Silence
<1>18. CASE UNCHANGED vars
  BY <1>18, Zenon DEF vars
<1>19. QED
  BY <1>1, <1>2, <1>3, <1>4, <1>5, <1>6, <1>7, <1>8, <1>9, <1>10, <1>11, <1>12, <1>13, <1>14,
     <1>15, <1>16, <1>17, <1>18, Zenon DEF Next, MappingTask, CommandTask, Watchdog

(* TypeOK holds of every reachable state: the addresses in use and shown are known ones,   *)
(* whatever next_supernode_after is asked for.                                             *)
THEOREM TypeCorrect == Spec => []TypeOK
<1>1. Typed => TypeOK
  BY Zenon DEF Typed
<1>2. QED
  BY <1>1, TypedInit, TypedStep, PTL DEF Spec

-----------------------------------------------------------------------------

(***************************************************************************)
(* While the address in use has not been told the advertised candidates,   *)
(* some task is on its way to tell it, and what tasks are about to send    *)
(* are the advertised candidates.                                          *)
(***************************************************************************)
OnItsWay(task) == task.at \in {"runtime", "read", "send"} /\ task.addr = supernode_addr

TargetTold ==
    /\ cmd.at = "send" => cmd.candidates = advertised
    /\ wd.at = "send" => wd.candidates = advertised
    /\ mapper.at \in {"addr", "send"} => mapper.candidates = advertised
    /\ \/ told[supernode_addr] = advertised
       \/ mapper.at = "addr"
       \/ OnItsWay(mapper) \/ OnItsWay(cmd) \/ OnItsWay(wd)

TellInv == Typed /\ (~missed => TargetTold)

(* A RegisterNode that is sent and carries the advertised candidates *)
LEMMA Tells ==
    ASSUME TypeOK, NEW a \in Addrs, Register(a, advertised), ~missed'
    PROVE  /\ ~missed
           /\ told'[a] = advertised
           /\ \A b \in Addrs : told[b] = advertised => told'[b] = advertised
<1>1. told' = [told EXCEPT ![a] = advertised] /\ ~missed
  BY DEF Register
<1>2. QED
  BY <1>1, Zenon DEF TypeOK

LEMMA TellInvInit == Init => TellInv
<1> SUFFICES ASSUME Init PROVE TellInv
  BY Zenon
<1>1. told[supernode_addr] = advertised
  BY FirstSupernode, Zenon DEF Init
<1>2. QED
  BY <1>1, TypedInit, Zenon DEF Init, TellInv, TargetTold, Idle

LEMMA TellInvStep == TellInv /\ [Next]_vars => TellInv'
<1> SUFFICES ASSUME TellInv, [Next]_vars, ~missed' PROVE TargetTold'
  BY TypedStep, Zenon DEF TellInv
<1>0. Typed /\ supernode_addr \in Addrs /\ {mapper, cmd, wd} \subseteq Task
  BY Zenon DEF TellInv, Typed, TypeOK
<1> USE DEF TellInv, TargetTold, OnItsWay, mapping_vars
<1>1. ASSUME NEW m \in Mappings \cup {mapping, None}, Refresh(m) PROVE TargetTold'
  BY <1>1, Zenon DEF Refresh
<1>2. CASE MapTake
  BY <1>2, Zenon DEF MapTake
<1>3. CASE MapAdvertise
  <2>1. ~missed
    BY <1>3, Zenon DEF MapAdvertise
  <2>2. CASE advertised = mapper.candidates
    BY <1>3, <2>1, <2>2 DEF MapAdvertise, Idle
  <2>3. CASE advertised # mapper.candidates
    <3>1. cmd.at # "send" /\ wd.at # "send"
      BY <1>3, <2>3, Zenon DEF MapAdvertise, Sending
    <3>2. mapper'.at = "addr" /\ mapper'.candidates = advertised'
      BY <1>0, <1>3, <2>3, Zenon DEF MapAdvertise, Task
    <3>3. QED
      BY <1>3, <3>1, <3>2, Zenon DEF MapAdvertise
  <2>4. QED
    BY <2>2, <2>3, Zenon
<1>4. CASE MapAddr
  BY <1>0, <1>4, Zenon DEF MapAddr, Task
<1>5. CASE MapSend
  <2>1. ~missed /\ mapper.addr \in Addrs
    BY <1>0, <1>5 DEF MapSend, Register, Typed, HasAddr
  <2>2. mapper.candidates = advertised
    BY <1>5, <2>1, Zenon DEF MapSend
  <2>3. /\ told'[mapper.addr] = advertised
        /\ told[supernode_addr] = advertised => told'[supernode_addr] = advertised
    BY <1>0, <1>5, <2>1, <2>2, Tells, Zenon DEF MapSend, Typed
  <2>4. QED
    BY <1>5, <2>1, <2>3, IdleTyped, Zenon DEF MapSend
<1>6. ASSUME NEW a \in Targets, Switch(a) PROVE TargetTold'
  BY <1>6, Zenon DEF Switch
<1>7. CASE SwitchAddr
  BY <1>0, <1>7, Zenon DEF SwitchAddr, Task
<1>8. CASE SwitchRuntime
  BY <1>0, <1>8, Zenon DEF SwitchRuntime, Task
<1>9. CASE SwitchRead
  BY <1>0, <1>9, Zenon DEF SwitchRead, Task
<1>10. CASE SwitchSend
  <2>1. ~missed /\ cmd.addr \in Addrs
    BY <1>0, <1>10 DEF SwitchSend, Register, Typed, HasAddr
  <2>2. cmd.candidates = advertised
    BY <1>10, <2>1, Zenon DEF SwitchSend
  <2>3. /\ told'[cmd.addr] = advertised
        /\ told[supernode_addr] = advertised => told'[supernode_addr] = advertised
    BY <1>0, <1>10, <2>1, <2>2, Tells, Zenon DEF SwitchSend, Typed
  <2>4. QED
    BY <1>10, <2>1, <2>3, IdleTyped, Zenon DEF SwitchSend
<1>11. CASE WdRound
  BY <1>11, Zenon DEF WdRound, Idle
<1>12. CASE WdLook
  BY <1>0, <1>12, Zenon DEF WdLook, Task
<1>13. CASE WdRotate
  BY <1>0, <1>13, Zenon DEF WdRotate, Task
<1>14. CASE WdRuntime
  BY <1>0, <1>14, Zenon DEF WdRuntime, Task
<1>15. CASE WdRead
  BY <1>0, <1>15, Zenon DEF WdRead, Task
<1>16. CASE WdSend
  <2>1. ~missed /\ wd.addr \in Addrs
    BY <1>0, <1>16 DEF WdSend, Register, Typed, HasAddr
  <2>2. wd.candidates = advertised
    BY <1>16, <2>1, Zenon DEF WdSend
  <2>3. /\ told'[wd.addr] = advertised
        /\ told[supernode_addr] = advertised => told'[supernode_addr] = advertised
    BY <1>0, <1>16, <2>1, <2>2, Tells, Zenon DEF WdSend, Typed
  <2>4. QED
    BY <1>16, <2>1, <2>3, IdleTyped, Zenon DEF WdSend
<1>17. CASE RoomChanges \/ Activity \/ Silence
  BY <1>17, Zenon DEF RoomChanges, Activity, Silence
<1>18. CASE UNCHANGED vars
  BY <1>18, Zenon DEF vars
<1>19. QED
  BY <1>1, <1>2, <1>3, <1>4, <1>5, <1>6, <1>7, <1>8, <1>9, <1>10, <1>11, <1>12, <1>13, <1>14,
     <1>15, <1>16, <1>17, <1>18, Zenon DEF Next, MappingTask, CommandTask, Watchdog

(* Unless a RegisterNode failed or was overtaken, the supernode in use knows the           *)
(* advertised candidates as soon as no task is at it.                                      *)
THEOREM RegistersLatest == Spec => []LatestRegistered
<1>1. TellInv => LatestRegistered
  BY Zenon DEF TellInv, TargetTold, OnItsWay, LatestRegistered
<1>2. QED
  BY <1>1, TellInvInit, TellInvStep, PTL DEF Spec

-----------------------------------------------------------------------------

(***************************************************************************)
(* Without contention at most one task is between its two writes, and it   *)
(* is about to show the address in use.                                    *)
(***************************************************************************)
Shown ==
    /\ ~(cmd.at = "runtime" /\ wd.at = "runtime")
    /\ cmd.at = "runtime" => cmd.addr = supernode_addr
    /\ wd.at = "runtime" => wd.addr = supernode_addr
    /\ AddressShown

ShownInv == Typed /\ (~contended => Shown)

LEMMA ShownInvInit == Init => ShownInv
  BY TypedInit, SMTT(30) DEF Init, ShownInv, Shown, AddressShown, Idle

LEMMA ShownInvStep == ShownInv /\ [Next]_vars => ShownInv'
<1> SUFFICES ASSUME ShownInv, [Next]_vars, ~contended' PROVE Shown'
  BY TypedStep, Zenon DEF ShownInv
<1>0. {mapper, cmd, wd} \subseteq Task
  BY Zenon DEF ShownInv, Typed, TypeOK
<1> USE DEF ShownInv, Shown, AddressShown, mapping_vars
<1>1. ASSUME NEW m \in Mappings \cup {mapping, None}, Refresh(m) PROVE Shown'
  BY <1>1, Zenon DEF Refresh
<1>2. CASE MappingTask
  BY <1>2, Zenon DEF MappingTask, MapTake, MapAdvertise, MapAddr, MapSend
<1>3. ASSUME NEW a \in Targets, Switch(a) PROVE Shown'
  BY <1>3, Zenon DEF Switch
<1>4. CASE SwitchAddr
  BY <1>0, <1>4, Zenon DEF SwitchAddr, Task
<1>5. CASE SwitchRuntime
  BY <1>0, <1>5, Zenon DEF SwitchRuntime, Task
<1>6. CASE SwitchRead
  BY <1>0, <1>6, Zenon DEF SwitchRead, Task
<1>7. CASE SwitchSend
  BY <1>7, IdleTyped, Zenon DEF SwitchSend
<1>8. CASE WdRound
  BY <1>8, Zenon DEF WdRound, Idle
<1>9. CASE WdLook
  BY <1>0, <1>9, Zenon DEF WdLook, Task
<1>10. CASE WdRotate
  BY <1>0, <1>10, Zenon DEF WdRotate, Task
<1>11. CASE WdRuntime
  BY <1>0, <1>11, Zenon DEF WdRuntime, Task
<1>12. CASE WdRead
  BY <1>0, <1>12, Zenon DEF WdRead, Task
<1>13. CASE WdSend
  BY <1>13, IdleTyped, Zenon DEF WdSend
<1>14. CASE RoomChanges \/ Activity \/ Silence
  BY <1>14, Zenon DEF RoomChanges, Activity, Silence
<1>15. CASE UNCHANGED vars
  BY <1>15, Zenon DEF vars
<1>16. QED
  BY <1>1, <1>2, <1>3, <1>4, <1>5, <1>6, <1>7, <1>8, <1>9, <1>10, <1>11, <1>12, <1>13, <1>14,
     <1>15, Zenon DEF Next, CommandTask, Watchdog

(* Unless a switch and a rotation wrote between each other's writes, status shows the      *)
(* supernode in use whenever no task is between the two.                                   *)
THEOREM ShowsAddress == Spec => []AddressShown
<1>1. ShownInv => AddressShown
  BY Zenon DEF ShownInv, Shown, AddressShown
<1>2. QED
  BY <1>1, ShownInvInit, ShownInvStep, PTL DEF Spec

-----------------------------------------------------------------------------

(***************************************************************************)
(* Without news in the channel, the mapping task has the mapping in hand   *)
(* or has advertised it.                                                   *)
(***************************************************************************)
NewsInv ==
    /\ Typed
    /\ ~changed => mapping = IF mapper.at = "advertise" THEN mapper.candidates ELSE advertised

LEMMA NewsInvInit == Init => NewsInv
  BY TypedInit DEF Init, NewsInv, Idle

LEMMA NewsInvStep == NewsInv /\ [Next]_vars => NewsInv'
<1> SUFFICES ASSUME NewsInv, [Next]_vars, ~changed'
             PROVE  mapping' = IF mapper'.at = "advertise" THEN mapper'.candidates
                               ELSE advertised'
  BY TypedStep, Zenon DEF NewsInv
<1>0. mapper \in Task
  BY Zenon DEF NewsInv, Typed, TypeOK
<1> USE DEF NewsInv
<1>1. ASSUME NEW m \in Mappings \cup {mapping, None}, Refresh(m) PROVE FALSE
  BY <1>1, Zenon DEF Refresh
<1>2. CASE MapTake
  BY <1>2, Zenon DEF MapTake
<1>3. CASE MapAdvertise
  BY <1>0, <1>3, IdleTyped, Zenon DEF MapAdvertise, Task
<1>4. CASE MapAddr
  BY <1>0, <1>4, Zenon DEF MapAddr, Task
<1>5. CASE MapSend
  BY <1>5, IdleTyped, Zenon DEF MapSend
<1>6. CASE UNCHANGED mapping_vars
  BY <1>6, Zenon DEF mapping_vars
<1>7. CASE CommandTask \/ Watchdog \/ (\E a \in Targets : Switch(a))
  BY <1>6, <1>7, Zenon DEF CommandTask, SwitchAddr, SwitchRuntime, SwitchRead, SwitchSend, Switch,
     Watchdog, WdRound, WdLook, WdRotate, WdRuntime, WdRead, WdSend
<1>8. CASE RoomChanges \/ Activity \/ Silence
  BY <1>6, <1>8, Zenon DEF RoomChanges, Activity, Silence
<1>9. CASE UNCHANGED vars
  BY <1>6, <1>9, Zenon DEF vars, mapping_vars
<1>10. QED
  BY <1>1, <1>2, <1>3, <1>4, <1>5, <1>7, <1>8, <1>9, Zenon DEF Next, MappingTask

(* A mapping task that has caught up advertises the mapping the manager holds. *)
THEOREM AdvertisesMapping == Spec => []MappingAdvertised
<1>1. NewsInv => MappingAdvertised
  BY Zenon DEF NewsInv, MappingAdvertised
<1>2. QED
  BY <1>1, NewsInvInit, NewsInvStep, PTL DEF Spec

-----------------------------------------------------------------------------
(***************************************************************************)
(* PortMapping, for any timeouts, intervals and lifetimes that             *)
(* MappingAssumption and RefreshIsShort allow.  The inductive invariant    *)
(* compares the lease with Ahead, the longest time until the refresh under *)
(* way, or the next one, is over.                                          *)
(***************************************************************************)

(* How long the protocols that come after the stage may take *)
Rest(stage) ==
    IF stage = "UpnpIgd" THEN Patience["NatPmp"] + Patience["Pcp"]
    ELSE IF stage = "NatPmp" THEN Patience["Pcp"]
    ELSE IF stage = "Pcp" THEN 0
    ELSE RefreshTime

Ahead == timer + Rest(mapping_stage)

MappingType ==
    /\ mapping_stage \in {"new", "off", "sleep"} \cup Protocols
    /\ timer \in Nat
    /\ active \in ActiveMappings \cup {NoMapping}
    /\ published # NoMapping => active # NoMapping
    /\ mapping_stage = "new" => active = NoMapping
    /\ kept_up \in BOOLEAN

(* A lease that was kept up outlasts the refresh. *)
Outlasts == active # NoMapping /\ kept_up => active.left > Ahead

(* Any lease was over a second before the refresh began, at most. *)
BarelyOver == active # NoMapping => active.left + 1 + RefreshTime >= Ahead

MappingInv == MappingType /\ Outlasts /\ BarelyOver

-----------------------------------------------------------------------------

LEMMA PatienceIsNat ==
    /\ Patience["UpnpIgd"] \in Nat /\ Patience["NatPmp"] \in Nat /\ Patience["Pcp"] \in Nat
    /\ RefreshTime \in Nat
  BY MappingAssumption DEF Protocols, RefreshTime

(* The sleep is no longer than the lease, or a second; a long lease leaves time for the refresh. *)
LEMMA DelayFits ==
  ASSUME NEW left \in Nat
  PROVE  /\ renewal_delay(left) \in Nat
         /\ renewal_delay(left) <= left + 1
         /\ left > MinRenew + RefreshTime => left > renewal_delay(left) + RefreshTime
  BY MappingAssumption, RefreshIsShort, PatienceIsNat DEF renewal_delay, AtLeast, AtMost

(* A refresh that stores a mapping, or none *)
LEMMA StoredFits ==
  ASSUME NEW stored \in ActiveMappings \cup {NoMapping}, Finished(stored),
         stored # NoMapping => stored.left \in Nat,
         stored # NoMapping /\ kept_up' => stored.left > MinRenew + RefreshTime,
         kept_up' \in BOOLEAN
  PROVE  MappingInv'
  <1>1. CASE stored = NoMapping
    BY <1>1, MappingAssumption, Zenon
    DEF Finished, MappingInv, MappingType, Outlasts, BarelyOver
  <1>2. CASE stored # NoMapping
    <2>1. PICK left \in Nat : left = stored.left
      BY <1>2, Zenon
    <2>2. /\ timer' = renewal_delay(left) /\ mapping_stage' = "sleep" /\ active' = stored
          /\ active'.left = left
      BY <1>2, <2>1, Zenon DEF Finished
    <2>3. timer' \in Nat /\ timer' <= left + 1
      BY <2>2, DelayFits, Zenon
    <2>4. Ahead' = timer' + RefreshTime
      BY <2>2, Zenon DEF Ahead, Rest
    <2>5. MappingType'
      BY <1>2, <2>2, <2>3, Zenon DEF MappingType
    <2>6. Outlasts'
      <3> SUFFICES ASSUME kept_up' PROVE active'.left > Ahead'
        BY Zenon DEF Outlasts
      <3>1. left > MinRenew + RefreshTime
        BY <1>2, <2>1, Zenon
      <3> QED
        BY <3>1, <2>2, <2>4, DelayFits, Zenon
    <2>7. BarelyOver'
      BY <2>2, <2>3, <2>4, PatienceIsNat DEF BarelyOver
    <2> QED
      BY <2>5, <2>6, <2>7, Zenon DEF MappingInv
  <1> QED
    BY <1>1, <1>2, Zenon

(* Before the first refresh there is no mapping. *)
LEMMA MappingInitially == MappingInit => MappingInv
  BY DEF MappingInit, MappingInv, MappingType, Outlasts, BarelyOver

(* Every step of the task and every second that passes keeps the invariant. *)
LEMMA MappingInductive == MappingInv /\ [MappingNext]_manager_vars => MappingInv'
  <1> SUFFICES ASSUME MappingInv, [MappingNext]_manager_vars PROVE MappingInv'
    BY Zenon
  <1>1. CASE discover
    <2>1. active' = NoMapping /\ published' = NoMapping /\ kept_up' = kept_up
      BY <1>1, Zenon DEF discover, MappingInv, MappingType
    <2>2. /\ mapping_stage' \in {"off", "UpnpIgd"} /\ timer' \in Nat
      BY <1>1, PatienceIsNat DEF discover
    <2> QED
      BY <2>1, <2>2, Zenon DEF MappingInv, MappingType, Outlasts, BarelyOver, Protocols
  <1>2. CASE Wake
    <2>1. Ahead' = Ahead
      BY <1>2, PatienceIsNat DEF Wake, Ahead, Rest, RefreshTime
    <2> QED
      BY <1>2, <2>1, PatienceIsNat, Zenon
      DEF Wake, MappingInv, MappingType, Outlasts, BarelyOver, Protocols
  <1>3. CASE Tick
    <2>1. timer' \in Nat /\ timer' = timer - 1
      BY <1>3 DEF Tick, MappingInv, MappingType
    <2>2. Ahead \in Int /\ Ahead' = Ahead - 1
      BY <1>3, <2>1, PatienceIsNat DEF Tick, Ahead, Rest, MappingInv, MappingType
    <2>3. CASE active = NoMapping
      BY <1>3, <2>1, <2>3, Zenon DEF Tick, MappingInv, MappingType, Outlasts, BarelyOver
    <2>4. CASE active # NoMapping
      <3>1. active' \in ActiveMappings /\ active'.left = active.left - 1 /\ active.left \in Int
        BY <1>3, <2>4 DEF Tick, MappingInv, MappingType, ActiveMappings
      <3>2. MappingType'
        BY <1>3, <2>1, <3>1, MappingAssumption, Zenon DEF Tick, MappingInv, MappingType
      <3>3. Outlasts' /\ BarelyOver'
        BY <1>3, <2>2, <2>4, <3>1, PatienceIsNat DEF Tick, MappingInv, Outlasts, BarelyOver
      <3> QED
        BY <3>2, <3>3, Zenon DEF MappingInv
    <2> QED
      BY <2>3, <2>4, Zenon
  <1>4. CASE AllFail
    <2>1. PICK stored \in ActiveMappings \cup {NoMapping} :
            Finished(stored) /\ (stored # NoMapping => stored.left \in Nat)
      BY <1>4 DEF AllFail, MappingInv, MappingType, ActiveMappings
    <2>2. kept_up' = FALSE
      BY <1>4, Zenon DEF AllFail
    <2> QED
      BY <2>1, <2>2, StoredFits, Zenon
  <1>5. CASE try_upnp_igd
    <2>1. PICK port \in {Preferred("UpnpIgd"), OtherPort} :
            Finished([protocol |-> "UpnpIgd", port |-> port, left |-> RequestedLease])
      BY <1>5, Zenon DEF try_upnp_igd
    <2>2. port \in {LocalPort, OtherPort}
      BY Zenon DEF Preferred, MappingInv, MappingType, ActiveMappings
    <2> DEFINE stored == [protocol |-> "UpnpIgd", port |-> port, left |-> RequestedLease]
    <2>3. stored \in ActiveMappings /\ stored.left = RequestedLease
      BY <2>2, MappingAssumption DEF ActiveMappings, Protocols
    <2>4. kept_up' \in BOOLEAN
      BY <1>5, Zenon DEF try_upnp_igd, MappingInv, MappingType
    <2> HIDE DEF stored
    <2>5. Finished(stored)
      BY <2>1, Zenon DEF stored
    <2> QED
      BY <2>3, <2>4, <2>5, StoredFits, MappingAssumption, RefreshIsShort, Zenon
  <1>6. ASSUME NEW protocol \in {"NatPmp", "Pcp"}, try_lifetime(protocol) PROVE MappingInv'
    <2>1. PICK port \in {Preferred(protocol), OtherPort}, lifetime \in Lifetimes :
            /\ Finished([protocol |-> protocol, port |-> port, left |-> lifetime])
            /\ kept_up' = (kept_up /\ lifetime > MinRenew + RefreshTime)
      BY <1>6, Zenon DEF try_lifetime
    <2>2. port \in {LocalPort, OtherPort}
      BY Zenon DEF Preferred, MappingInv, MappingType, ActiveMappings
    <2> DEFINE stored == [protocol |-> protocol, port |-> port, left |-> lifetime]
    <2>3. stored \in ActiveMappings /\ stored.left = lifetime /\ lifetime \in Nat
      BY <2>2, MappingAssumption DEF ActiveMappings, Protocols
    <2>4. kept_up' \in BOOLEAN /\ (kept_up' => lifetime > MinRenew + RefreshTime)
      BY <2>1, Zenon DEF MappingInv, MappingType
    <2> HIDE DEF stored
    <2>5. Finished(stored)
      BY <2>1, Zenon DEF stored
    <2> QED
      BY <2>3, <2>4, <2>5, StoredFits, Zenon
  <1>7. ASSUME NEW protocol \in Protocols, TryNext(protocol) PROVE MappingInv'
    <2>1. Ahead' <= Ahead /\ Ahead \in Int /\ Ahead' \in Int /\ timer' \in Nat
      BY <1>7, PatienceIsNat DEF TryNext, Next3, Ahead, Rest, Protocols, MappingInv, MappingType
    <2>2. MappingType'
      BY <1>7, <2>1, Zenon DEF TryNext, Next3, Protocols, MappingInv, MappingType
    <2>3. Outlasts' /\ BarelyOver'
      BY <1>7, <2>1, PatienceIsNat
      DEF TryNext, MappingInv, MappingType, ActiveMappings, Outlasts, BarelyOver
    <2> QED
      BY <2>2, <2>3, Zenon DEF MappingInv
  <1>8. CASE UNCHANGED manager_vars
    BY <1>8, Zenon DEF manager_vars, MappingInv, MappingType, Outlasts, BarelyOver, Ahead
  <1> QED
    BY <1>1, <1>2, <1>3, <1>4, <1>5, <1>6, <1>7, <1>8, Zenon DEF MappingNext

LEMMA MappingInvariant == MappingSpec => []MappingInv
  BY MappingInitially, MappingInductive, PTL DEF MappingSpec

(***************************************************************************)
(* As long as every refresh succeeds, by whatever protocol, and no lease   *)
(* is shorter than the shortest sleep and a refresh, the published mapping *)
(* is renewed before it lapses.                                            *)
(***************************************************************************)
THEOREM RenewsInTime == MappingSpec => []RenewedInTime
  <1>1. MappingInv => RenewedInTime
    BY PatienceIsNat
    DEF MappingInv, MappingType, ActiveMappings, Outlasts, RenewedInTime, Ahead, Rest
  <1> QED
    BY <1>1, MappingInvariant, PTL

(***************************************************************************)
(* A mapping that is no longer granted is withdrawn no later than a second *)
(* and a refresh after its lease is over.                                  *)
(***************************************************************************)
THEOREM WithdrawsLapsed == MappingSpec => []LapsedWithdrawn
  <1>1. MappingInv => LapsedWithdrawn
    BY PatienceIsNat
    DEF MappingInv, MappingType, ActiveMappings, BarelyOver, LapsedWithdrawn, Ahead, Rest
  <1> QED
    BY <1>1, MappingInvariant, PTL

-----------------------------------------------------------------------------
(***************************************************************************)
(* Commands, for any number of clients.  A command is in one place: in the *)
(* channel, in its slot, or done with.  Frames that answer a query of      *)
(* rooms carry no number, so what tells whose answer it is that comes is   *)
(* ActiveIsPending: a query whose answer can still come holds the slot.    *)
(***************************************************************************)

Queued == {commands[i] : i \in 1 .. Len(commands)}

CommandRecords ==
    [kind: Slots \cup {"leave", "none"}, waiting: BOOLEAN, told: Notices \cup Askers]

CommandsType ==
    /\ asker \in [Askers -> CommandRecords]
    /\ commands \in Seq(Askers)
    /\ pending \in [Slots -> Askers \cup {NoOne}]
    /\ requests \subseteq Askers
    /\ lost \subseteq Askers

QueuedOnce ==
    /\ \A i, j \in 1 .. Len(commands) : commands[i] = commands[j] => i = j
    /\ \A a \in Queued : asker[a].kind # "none" /\ a \notin requests \cup lost

SentWereAsked == \A a \in requests \cup lost : asker[a].kind # "none"

ActiveIsPending == \A a \in requests : asker[a].kind = "active" => pending["active"] = a

CommandsInv ==
    /\ CommandsType
    /\ QueuedOnce
    /\ SentWereAsked
    /\ SlotsAwaitAnswers
    /\ ActiveIsPending
    /\ RoomsAnswerIsOwn

(* Told keeps the kind of a command, and tells at most what it is given. *)
LEMMA ToldFacts ==
  ASSUME CommandsType, NEW a \in Askers, NEW what \in Notices \cup Askers
  PROVE  /\ Told(a, what) \in CommandRecords
         /\ Told(a, what).kind = asker[a].kind
         /\ Told(a, what).told \in {asker[a].told, what}
  BY Zenon DEF CommandsType, CommandRecords, Told

(* Taking the first command leaves the others in the channel. *)
LEMMA TakeFacts ==
  ASSUME CommandsType, QueuedOnce, NEW kinds, Take(kinds)
  PROVE  /\ Command \in Askers /\ Command \in Queued
         /\ asker[Command].kind \in kinds
         /\ commands' \in Seq(Askers)
         /\ \A i, j \in 1 .. Len(commands') : commands'[i] = commands'[j] => i = j
         /\ Queued' = Queued \ {Command}
  <1>1. commands \in Seq(Askers) /\ commands # <<>> /\ commands' = Tail(commands)
    BY Zenon DEF CommandsType, Take
  <1>2. /\ Len(commands) \in Nat \ {0} /\ Command = commands[1] /\ Command \in Askers
        /\ commands' \in Seq(Askers) /\ Len(commands') = Len(commands) - 1
        /\ \A i \in 1 .. Len(commands') : commands'[i] = commands[i + 1]
    BY <1>1 DEF Command
  <1>3. \A i, j \in 1 .. Len(commands) : commands[i] = commands[j] => i = j
    BY Zenon DEF QueuedOnce
  <1>4. \A i, j \in 1 .. Len(commands') : commands'[i] = commands'[j] => i = j
    <2> SUFFICES ASSUME NEW i \in 1 .. Len(commands'), NEW j \in 1 .. Len(commands'),
                        commands'[i] = commands'[j]
                 PROVE  i = j
      BY Zenon
    <2>1. /\ i + 1 \in 1 .. Len(commands) /\ j + 1 \in 1 .. Len(commands)
          /\ commands[i + 1] = commands[j + 1]
      BY <1>2
    <2> QED BY <1>3, <2>1
  <1>5. \A a : a \in Queued' <=> a \in Queued /\ a # Command
    <2> SUFFICES ASSUME NEW a PROVE a \in Queued' <=> a \in Queued /\ a # Command
      BY Zenon
    <2>1. ASSUME a \in Queued' PROVE a \in Queued /\ a # Command
      <3>1. PICK i \in 1 .. Len(commands') : a = commands'[i]
        BY <2>1, Zenon DEF Queued
      <3>2. i + 1 \in 1 .. Len(commands) /\ 1 \in 1 .. Len(commands) /\ i + 1 # 1
            /\ a = commands[i + 1]
        BY <1>2, <3>1
      <3>3. commands[i + 1] # commands[1]
        BY <1>3, <3>2, Zenon
      <3> QED BY <1>2, <3>2, <3>3, Zenon DEF Queued
    <2>2. ASSUME a \in Queued, a # Command PROVE a \in Queued'
      <3>1. PICK i \in 1 .. Len(commands) : a = commands[i]
        BY <2>2, Zenon DEF Queued
      <3>2. i - 1 \in 1 .. Len(commands') /\ commands'[i - 1] = commands[i]
        <4>1. i # 1
          BY <1>2, <2>2, <3>1, Zenon
        <4> QED BY <1>2, <4>1
      <3> QED BY <3>1, <3>2, Zenon DEF Queued
    <2> QED BY <2>1, <2>2, Zenon
  <1>6. Command \in Queued
    BY <1>2 DEF Queued
  <1>7. asker[Command].kind \in kinds
    BY Zenon DEF Take
  <1> QED BY <1>2, <1>4, <1>5, <1>6, <1>7, Zenon

LEMMA CommandsInitially == CommandsInit => CommandsInv
  <1> SUFFICES ASSUME CommandsInit PROVE CommandsInv
    BY Zenon
  <1>1. Unasked \in CommandRecords /\ Unasked.kind = "none"
    BY Zenon DEF Unasked, CommandRecords, Notices
  <1>2. asker \in [Askers -> CommandRecords] /\ \A a \in Askers : asker[a].kind = "none"
    BY <1>1, Zenon DEF CommandsInit
  <1>3. CommandsType
    BY <1>2 DEF CommandsInit, CommandsType
  <1>4. Queued = {} /\ Len(commands) = 0
    BY DEF CommandsInit, Queued
  <1>5. QueuedOnce
    BY <1>4 DEF QueuedOnce
  <1>6. SentWereAsked /\ ActiveIsPending /\ SlotsAwaitAnswers
    BY Zenon DEF CommandsInit, SentWereAsked, ActiveIsPending, SlotsAwaitAnswers
  <1>7. RoomsAnswerIsOwn
    BY <1>2, Zenon DEF RoomsAnswerIsOwn
  <1> QED BY <1>3, <1>5, <1>6, <1>7, Zenon DEF CommandsInv

(* The parts of the invariant that a command taken and answered at once touches *)
LEMMA AnsweredAtOnce ==
  ASSUME CommandsInv, NEW kinds, Take(kinds), NEW what \in Notices \cup {Command},
         asker' = [asker EXCEPT ![Command] = Told(Command, what)],
         UNCHANGED <<pending, requests, lost>>
  PROVE  CommandsInv'
  <1>1. /\ Command \in Askers /\ Command \in Queued /\ commands' \in Seq(Askers)
        /\ \A i, j \in 1 .. Len(commands') : commands'[i] = commands'[j] => i = j
        /\ Queued' = Queued \ {Command}
    BY TakeFacts, Zenon DEF CommandsInv
  <1>2. what \in Notices \cup Askers
    BY <1>1, Zenon
  <1>3. /\ asker' \in [Askers -> CommandRecords]
        /\ \A a \in Askers : asker'[a].kind = asker[a].kind
        /\ \A a \in Askers : asker'[a].told = asker[a].told
                                \/ (a = Command /\ asker'[a].told = what)
    BY <1>1, <1>2, ToldFacts DEF CommandsInv, CommandsType
  <1>4. CommandsType'
    BY <1>1, <1>3, Zenon DEF CommandsInv, CommandsType
  <1>5. QueuedOnce'
    <2>1. Queued \subseteq Askers
      BY SMTT(30) DEF CommandsInv, CommandsType, Queued
    <2>2. \A a \in Queued' : asker'[a].kind # "none" /\ a \notin requests' \cup lost'
      BY <1>1, <1>3, <2>1, Zenon DEF CommandsInv, QueuedOnce
    <2> QED BY <1>1, <2>2, Zenon DEF QueuedOnce
  <1>6. SentWereAsked' /\ ActiveIsPending'
    BY <1>3, Zenon DEF CommandsInv, CommandsType, SentWereAsked, ActiveIsPending
  <1>7. SlotsAwaitAnswers'
    BY <1>3, Zenon DEF CommandsInv, CommandsType, SlotsAwaitAnswers
  <1>8. RoomsAnswerIsOwn'
    BY <1>1, <1>3, CommandsAssumption, SMTT(30) DEF CommandsInv, RoomsAnswerIsOwn
  <1> QED BY <1>4, <1>5, <1>6, <1>7, <1>8, Zenon DEF CommandsInv

(* An answer that comes: it frees slots, and tells those in them *)
LEMMA SlotsAnswered ==
  ASSUME CommandsInv, NEW a \in requests, requests' = requests \ {a}, UNCHANGED <<commands, lost>>,
         NEW slots \in SUBSET Slots, asker[a].kind \in slots,
         NEW what \in Notices \cup {a}, "active" \in slots => slots = {"active"},
         send_pending_reply(slots, what)
  PROVE  CommandsInv'
  <1>1. a \in Askers /\ what \in Notices \cup Askers
    BY Zenon DEF CommandsInv, CommandsType
  <1>2. /\ asker' = [b \in Askers |->
                       IF \E k \in slots : pending[k] = b THEN Told(b, what) ELSE asker[b]]
        /\ pending' = [k \in Slots |-> IF k \in slots THEN NoOne ELSE pending[k]]
    BY Zenon DEF send_pending_reply
  <1>3. /\ asker' \in [Askers -> CommandRecords]
        /\ \A b \in Askers : asker'[b].kind = asker[b].kind
        /\ \A b \in Askers : asker'[b].told = asker[b].told
                                \/ ((\E k \in slots : pending[k] = b) /\ asker'[b].told = what)
    BY <1>1, <1>2, ToldFacts, Zenon DEF CommandsInv, CommandsType
  <1>4. CommandsType'
    BY <1>2, <1>3, Zenon DEF CommandsInv, CommandsType
  <1>5. QueuedOnce'
    <2>1. Queued \subseteq Askers /\ Queued' = Queued
      BY DEF CommandsInv, CommandsType, Queued
    <2>2. \A b \in Queued' : asker'[b].kind # "none" /\ b \notin requests' \cup lost'
      BY <1>3, <2>1, Zenon DEF CommandsInv, QueuedOnce
    <2> QED BY <2>2, Zenon DEF CommandsInv, QueuedOnce
  <1>6. SentWereAsked'
    BY <1>3, Zenon DEF CommandsInv, CommandsType, SentWereAsked
  <1>7. SlotsAwaitAnswers'
    <2> SUFFICES ASSUME NEW k \in Slots, pending'[k] # NoOne
                 PROVE  asker'[pending'[k]].kind = k /\ pending'[k] \in requests' \cup lost'
      BY Zenon DEF SlotsAwaitAnswers
    <2>1. k \notin slots /\ pending'[k] = pending[k] /\ pending[k] \in Askers
      BY <1>2, Zenon DEF CommandsInv, CommandsType
    <2>2. asker[pending[k]].kind = k /\ pending[k] \in requests \cup lost
      BY <2>1, Zenon DEF CommandsInv, SlotsAwaitAnswers
    <2>3. pending[k] # a
      BY <2>1, <2>2, Zenon
    <2> QED BY <1>3, <2>1, <2>2, <2>3, Zenon
  <1>8. ActiveIsPending'
    <2> SUFFICES ASSUME NEW b \in requests', asker'[b].kind = "active"
                 PROVE  pending'["active"] = b
      BY Zenon DEF ActiveIsPending
    <2>1. b \in requests /\ b # a /\ b \in Askers /\ asker[b].kind = "active"
      BY <1>3, Zenon DEF CommandsInv, CommandsType
    <2>2. pending["active"] = b
      BY <2>1, Zenon DEF CommandsInv, ActiveIsPending
    <2>3. "active" \notin slots
      <3>1. ASSUME "active" \in slots PROVE FALSE
        <4>1. asker[a].kind = "active"
          BY <3>1
        <4>2. pending["active"] = a
          BY <4>1, Zenon DEF CommandsInv, ActiveIsPending
        <4> QED BY <2>1, <2>2, <4>2, Zenon
      <3> QED BY <3>1, Zenon
    <2> QED BY <1>2, <2>2, <2>3, Zenon DEF Slots
  <1>9. RoomsAnswerIsOwn'
    <2> SUFFICES ASSUME NEW b \in Askers, asker'[b].kind = "active"
                 PROVE  asker'[b].told \notin Askers \ {b}
      BY Zenon DEF RoomsAnswerIsOwn
    <2>1. asker[b].kind = "active" /\ asker[b].told \notin Askers \ {b}
      BY <1>3, Zenon DEF CommandsInv, RoomsAnswerIsOwn
    <2>2. CASE asker'[b].told = asker[b].told
      BY <2>1, <2>2, Zenon
    <2>3. ASSUME NEW k \in slots, pending[k] = b, asker'[b].told = what
          PROVE  asker'[b].told \notin Askers \ {b}
      <3>1. pending[k] # NoOne
        BY <2>3, CommandsAssumption, Zenon
      <3>2. k = "active"
        BY <2>1, <2>3, <3>1, Zenon DEF CommandsInv, SlotsAwaitAnswers
      <3>3. asker[a].kind = "active"
        BY <2>3, <3>2
      <3>4. a = b
        BY <2>3, <3>2, <3>3, Zenon DEF CommandsInv, ActiveIsPending
      <3> QED BY <2>3, <3>4, CommandsAssumption, Zenon
    <2> QED BY <1>3, <2>2, <2>3, Zenon
  <1> QED BY <1>4, <1>5, <1>6, <1>7, <1>8, <1>9, Zenon DEF CommandsInv

(* Every step of a client, of the loop and of the network keeps the invariant. *)
LEMMA CommandsInductive == CommandsInv /\ [CommandsNext]_command_vars => CommandsInv'
  <1> SUFFICES ASSUME CommandsInv, [CommandsNext]_command_vars PROVE CommandsInv'
    BY Zenon
  <1>1. ASSUME NEW a \in Askers, NEW kind \in Slots \cup {"leave"}, Ask(a, kind)
        PROVE  CommandsInv'
    <2>1. /\ asker[a].kind = "none" /\ kind # "none"
          /\ asker' = [asker EXCEPT ![a] = [kind |-> kind, waiting |-> TRUE, told |-> "nothing"]]
          /\ commands' = Append(commands, a)
          /\ UNCHANGED <<pending, requests, lost>>
      BY <1>1, SMTT(30) DEF Ask, Unasked, Slots
    <2>2. /\ Len(commands) \in Nat /\ Len(commands') = Len(commands) + 1
          /\ commands' \in Seq(Askers)
          /\ commands'[Len(commands) + 1] = a
          /\ \A i \in 1 .. Len(commands) : commands'[i] = commands[i]
      BY <2>1, SMTT(30) DEF CommandsInv, CommandsType
    <2>3. a \notin Queued /\ a \notin requests \cup lost
      BY <2>1, Zenon DEF CommandsInv, QueuedOnce, SentWereAsked
    <2>4. Queued' = Queued \cup {a}
      BY <2>2 DEF Queued
    <2>5. /\ asker' \in [Askers -> CommandRecords]
          /\ asker'[a].kind = kind /\ asker'[a].told = "nothing"
          /\ \A b \in Askers \ {a} : asker'[b] = asker[b]
      <3>1. [kind |-> kind, waiting |-> TRUE, told |-> "nothing"]
                \in CommandRecords
        BY Zenon DEF Notices, CommandRecords
      <3> QED BY <2>1, <3>1, Zenon DEF CommandsInv, CommandsType
    <2>6. CommandsType'
      BY <2>1, <2>2, <2>5, Zenon DEF CommandsInv, CommandsType
    <2>7. QueuedOnce'
      <3>1. \A i, j \in 1 .. Len(commands') : commands'[i] = commands'[j] => i = j
        <4> SUFFICES ASSUME NEW i \in 1 .. Len(commands'), NEW j \in 1 .. Len(commands'),
                            commands'[i] = commands'[j]
                     PROVE  i = j
          BY Zenon
        <4>1. CASE i \in 1 .. Len(commands) /\ j \in 1 .. Len(commands)
          BY <4>1, <2>2, Zenon DEF CommandsInv, QueuedOnce
        <4>2. CASE i \in 1 .. Len(commands) /\ j = Len(commands) + 1
          BY <4>2, <2>2, <2>3, Zenon DEF Queued
        <4>3. CASE j \in 1 .. Len(commands) /\ i = Len(commands) + 1
          BY <4>3, <2>2, <2>3, Zenon DEF Queued
        <4> QED BY <2>2, <4>1, <4>2, <4>3, SMTT(30)
      <3>2. Queued \subseteq Askers
        BY SMTT(30) DEF Queued, CommandsInv, CommandsType
      <3>3. \A b \in Queued' : asker'[b].kind # "none" /\ b \notin requests' \cup lost'
        BY <2>1, <2>3, <2>4, <2>5, <3>2, Zenon DEF CommandsInv, QueuedOnce
      <3> QED BY <3>1, <3>3, ZenonT(30) DEF QueuedOnce
    <2>8. SentWereAsked' /\ ActiveIsPending'
      BY <2>1, <2>3, <2>5, Zenon DEF CommandsInv, CommandsType, SentWereAsked, ActiveIsPending
    <2>9. SlotsAwaitAnswers'
      <3> SUFFICES ASSUME NEW k \in Slots, pending[k] # NoOne
                   PROVE  asker'[pending[k]].kind = k /\ pending[k] \in requests \cup lost
        BY <2>1, Zenon DEF SlotsAwaitAnswers
      <3>1. asker[pending[k]].kind = k /\ pending[k] \in requests \cup lost
        BY Zenon DEF CommandsInv, SlotsAwaitAnswers
      <3>2. pending[k] \in Askers \ {a}
        BY <2>3, <3>1, Zenon DEF CommandsInv, CommandsType
      <3> QED BY <2>5, <3>1, <3>2, Zenon
    <2>10. RoomsAnswerIsOwn'
      BY <2>5, CommandsAssumption, Zenon DEF CommandsInv, RoomsAnswerIsOwn, Notices
    <2> QED BY <2>6, <2>7, <2>8, <2>9, <2>10, Zenon DEF CommandsInv
  <1>2. ASSUME NEW a \in Askers, wait_for_command_reply(a) PROVE CommandsInv'
    <2>1. PICK what \in Notices : asker' = [asker EXCEPT ![a] = Told(a, what)]
      BY <1>2, Zenon DEF wait_for_command_reply, Notices
    <2>2. UNCHANGED <<commands, pending, requests, lost>>
      BY <1>2, Zenon DEF wait_for_command_reply
    <2>3. /\ asker' \in [Askers -> CommandRecords]
          /\ \A b \in Askers : asker'[b].kind = asker[b].kind
          /\ \A b \in Askers : asker'[b].told \in {asker[b].told, what}
      BY <2>1, ToldFacts, Zenon DEF CommandsInv, CommandsType
    <2>4. CommandsType'
      BY <2>2, <2>3, Zenon DEF CommandsInv, CommandsType
    <2>5. QueuedOnce'
      <3>0. Queued \subseteq Askers
        BY DEF CommandsInv, CommandsType, Queued
      <3>1. Queued' = Queued
        BY <2>2, Zenon DEF Queued
      <3>2. \A b \in Queued' : asker'[b].kind # "none" /\ b \notin requests' \cup lost'
        BY <2>2, <2>3, <3>0, <3>1, Zenon DEF CommandsInv, QueuedOnce
      <3> QED BY <2>2, <3>2, Zenon DEF CommandsInv, QueuedOnce
    <2>6. SentWereAsked' /\ ActiveIsPending'
      BY <2>2, <2>3, Zenon DEF CommandsInv, CommandsType, SentWereAsked, ActiveIsPending
    <2>7. SlotsAwaitAnswers'
      BY <2>2, <2>3, Zenon DEF CommandsInv, CommandsType, SlotsAwaitAnswers
    <2>8. RoomsAnswerIsOwn'
      BY <2>3, CommandsAssumption, Zenon DEF CommandsInv, RoomsAnswerIsOwn
    <2> QED BY <2>4, <2>5, <2>6, <2>7, <2>8, Zenon DEF CommandsInv
  <1>3. ASSUME NEW a \in Askers, Lose(a) PROVE CommandsInv'
    <2>1. requests' \cup lost' = requests \cup lost /\ requests' \subseteq requests
      BY <1>3, Zenon DEF Lose
    <2> QED
      BY <1>3, <2>1, SMTT(30)
      DEF Lose, CommandsInv, CommandsType, QueuedOnce, Queued, SentWereAsked, SlotsAwaitAnswers,
          ActiveIsPending, RoomsAnswerIsOwn
  <1>4. ASSUME NEW a \in Askers, Entered(a) PROVE CommandsInv'
    <2>1. /\ a \in requests /\ asker[a].kind \in {"create", "join"} /\ requests' = requests \ {a}
          /\ UNCHANGED <<commands, lost>>
      BY <1>4, Zenon DEF Entered
    <2>2. PICK what \in Notices \cup {a} : send_pending_reply({asker[a].kind}, what)
      BY <1>4, Zenon DEF Entered, Notices
    <2>3. {asker[a].kind} \in SUBSET Slots
      BY <2>1, Zenon DEF Slots
    <2> QED BY <2>1, <2>2, <2>3, SlotsAnswered, Zenon
  <1>5. ASSUME NEW a \in Askers, Rejected(a) PROVE CommandsInv'
    <2>1. /\ a \in requests /\ asker[a].kind \in {"create", "join"} /\ requests' = requests \ {a}
          /\ UNCHANGED <<commands, lost>>
      BY <1>5, Zenon DEF Rejected
    <2>2. "error" \in Notices \cup {a}
      BY Zenon DEF Notices
    <2>3. CASE asker[a].kind = "join" /\ send_pending_reply({"join"}, "error")
      <3>1. {"join"} \in SUBSET Slots
        BY Zenon DEF Slots
      <3> QED BY <2>1, <2>2, <2>3, <3>1, SlotsAnswered, Zenon
    <2>4. CASE send_pending_reply({"create", "join"}, "error")
      <3>1. {"create", "join"} \in SUBSET Slots
        BY Zenon DEF Slots
      <3> QED BY <2>1, <2>2, <2>4, <3>1, SlotsAnswered, Zenon
    <2> QED BY <1>5, <2>3, <2>4, Zenon DEF Rejected
  <1>6. ASSUME NEW a \in Askers, RoomsList(a) PROVE CommandsInv'
    <2>1. /\ a \in requests /\ asker[a].kind = "active" /\ requests' = requests \ {a}
          /\ UNCHANGED <<commands, lost>> /\ send_pending_reply({"active"}, a)
      BY <1>6, Zenon DEF RoomsList
    <2>2. {"active"} \in SUBSET Slots
      BY Zenon DEF Slots
    <2> QED BY <2>1, <2>2, SlotsAnswered, Zenon
  <1>7. CASE Refuse
    <2>1. PICK reason \in {"in room", "in progress", "error"} :
            asker' = [asker EXCEPT ![Command] = Told(Command, reason)]
      BY <1>7, Zenon DEF Refuse
    <2>2. Take(Slots) /\ UNCHANGED <<pending, requests, lost>>
      BY <1>7, Zenon DEF Refuse
    <2>3. reason \in Notices \cup {Command}
      BY Zenon DEF Notices
    <2> QED BY <2>1, <2>2, <2>3, AnsweredAtOnce, Zenon
  <1>8. CASE SendRequest
    <2>1. /\ Take(Slots) /\ pending[asker[Command].kind] = NoOne
          /\ pending' = [pending EXCEPT ![asker[Command].kind] = Command]
          /\ requests' = requests \cup {Command}
          /\ UNCHANGED <<asker, lost>>
      BY <1>8, Zenon DEF SendRequest, Accepted
    <2>2. /\ Command \in Askers /\ Command \in Queued /\ commands' \in Seq(Askers)
          /\ \A i, j \in 1 .. Len(commands') : commands'[i] = commands'[j] => i = j
          /\ Queued' = Queued \ {Command}
          /\ asker[Command].kind \in Slots
      BY <2>1, TakeFacts, Zenon DEF CommandsInv
    <2> DEFINE c == Command
               k == asker[Command].kind
    <2>3. /\ c \in Askers /\ k \in Slots /\ asker[c].kind = k /\ c \notin requests \cup lost
          /\ pending[k] = NoOne /\ pending' = [pending EXCEPT ![k] = c]
          /\ requests' = requests \cup {c} /\ Queued' = Queued \ {c} /\ k # "none"
      BY <2>1, <2>2, Zenon DEF CommandsInv, QueuedOnce, Slots
    <2> HIDE DEF c, k
    <2>4. CommandsType'
      BY <2>1, <2>2, <2>3 DEF CommandsInv, CommandsType
    <2>5. QueuedOnce'
      BY <2>1, <2>2, <2>3, ZenonT(30) DEF CommandsInv, QueuedOnce, Queued
    <2>6. SentWereAsked'
      BY <2>1, <2>3, Zenon DEF CommandsInv, SentWereAsked
    <2>7. SlotsAwaitAnswers'
      BY <2>1, <2>3 DEF CommandsInv, CommandsType, SlotsAwaitAnswers
    <2>8. ActiveIsPending'
      <3> SUFFICES ASSUME NEW b \in requests', asker[b].kind = "active"
                   PROVE  pending'["active"] = b
        BY <2>1, Zenon DEF ActiveIsPending
      <3>1. CASE b = c
        BY <2>3, <3>1, Zenon DEF CommandsInv, CommandsType
      <3>2. CASE b \in requests
        <4>1. pending["active"] = b /\ b \in Askers
          BY <3>2, Zenon DEF CommandsInv, CommandsType, ActiveIsPending
        <4>2. k # "active"
          BY <2>3, <4>1, CommandsAssumption, Zenon
        <4> QED BY <2>3, <4>1, <4>2, Zenon DEF CommandsInv, CommandsType, Slots
      <3> QED BY <2>3, <3>1, <3>2, Zenon
    <2>9. RoomsAnswerIsOwn'
      BY <2>1, Zenon DEF CommandsInv, RoomsAnswerIsOwn
    <2> QED BY <2>4, <2>5, <2>6, <2>7, <2>8, <2>9, Zenon DEF CommandsInv
  <1>9. CASE SendRequestFails
    <2>1. /\ Take(Slots) /\ asker' = [asker EXCEPT ![Command] = Told(Command, "error")]
          /\ UNCHANGED <<pending, requests, lost>>
      BY <1>9, Zenon DEF SendRequestFails, Accepted
    <2>2. "error" \in Notices \cup {Command}
      BY Zenon DEF Notices
    <2> QED BY <2>1, <2>2, AnsweredAtOnce, Zenon
  <1>10. CASE Leave
    BY <1>10, AnsweredAtOnce, Zenon DEF Leave
  <1>11. CASE UNCHANGED command_vars
    <2>1. Queued' = Queued
      BY <1>11, Zenon DEF command_vars, Queued
    <2>2. CommandsType' /\ QueuedOnce'
      BY <1>11, <2>1, Zenon DEF command_vars, CommandsInv, CommandsType, QueuedOnce
    <2> QED
      BY <1>11, <2>2, Zenon
      DEF command_vars, CommandsInv, SentWereAsked, SlotsAwaitAnswers, ActiveIsPending,
          RoomsAnswerIsOwn
  <1> QED
    BY <1>1, <1>2, <1>3, <1>4, <1>5, <1>6, <1>7, <1>8, <1>9, <1>10, <1>11, Zenon DEF CommandsNext

LEMMA CommandsInvariant == CommandsSpec => []CommandsInv
  BY CommandsInitially, CommandsInductive, PTL DEF CommandsSpec

(***************************************************************************)
(* A slot of Edge::run is taken only by a command of its kind whose        *)
(* request was sent and whose answer is to come or was lost, whatever      *)
(* failed, was refused or came too late.                                   *)
(***************************************************************************)
THEOREM SlotsAwait == CommandsSpec => []SlotsAwaitAnswers
  <1>1. CommandsInv => SlotsAwaitAnswers
    BY Zenon DEF CommandsInv
  <1> QED
    BY <1>1, CommandsInvariant, PTL

(***************************************************************************)
(* Whoever asks for the rooms and gets an answer gets that to their own    *)
(* query, for any number of clients, delays and losses.                    *)
(***************************************************************************)
THEOREM AnswersAreOwn == CommandsSpec => []RoomsAnswerIsOwn
  <1>1. CommandsInv => RoomsAnswerIsOwn
    BY Zenon DEF CommandsInv
  <1> QED
    BY <1>1, CommandsInvariant, PTL
=============================================================================
