----------------------------- MODULE PeerProofs ------------------------------
(***************************************************************************)
(* Proofs about what an edge keeps for one peer, that is the session a     *)
(* Handshake agrees on, for any number of punch requests and copies, the   *)
(* session's ReplayWindow, and the Paths to the peer, for any number of    *)
(* addresses, scores and pings; and about the SendPath of its packets, for *)
(* any number of tasks and slots.                                          *)
(***************************************************************************)
EXTENDS Handshake, ReplayWindow, Paths, SendPath, NaturalsInduction, FiniteSetTheorems, TLAPS

(***************************************************************************)
(* Handshake.  The inductive invariant says of every key in use, and of    *)
(* every session a message belongs to, that somebody initiated it: a new   *)
(* session is then one that no cipher, message or open handshake refers to.*)
(***************************************************************************)

Messages == [kind: {"first", "second"}, to: Ends, session: Sessions]

HandshakeType ==
    /\ peer \in [Ends -> BOOLEAN]
    /\ handshake \in [Ends -> Keys]
    /\ pending_session_key \in [Ends -> Keys]
    /\ cipher \in [Ends -> Keys]
    /\ net \in SUBSET Messages
    /\ punches \in [Ends -> Nat]
    /\ owner \in [Sessions -> Ends \cup {0}]
    /\ answered \in SUBSET Sessions

KeysInitiated == \A x \in Ends : cipher[x] # 0 => owner[cipher[x]] # 0

MessagesKnown ==
    \A m \in net :
        /\ owner[m.session] # 0
        /\ m.kind = "second" => m.session \in answered

HandshakeInv ==
    /\ HandshakeType
    /\ KeysInitiated
    /\ MessagesKnown
    /\ PendingBelongsToSession
    /\ OwnKeyWasRead

-----------------------------------------------------------------------------

(* There is another edge. *)
LEMMA OtherIsEnd == \A x \in Ends : Other(x) \in Ends
  <1> TAKE x \in Ends
  <1>1. \E y \in Ends : y # x
    BY HandshakeAssumption
  <1> QED
    BY <1>1 DEF Other

(* Nobody has a session, a key or a message at the start. *)
LEMMA HandshakeInitially == HandshakeInit => HandshakeInv
  BY HandshakeAssumption
  DEF HandshakeInit, HandshakeInv, HandshakeType, KeysInitiated, MessagesKnown,
      PendingBelongsToSession, OwnKeyWasRead, Keys, Sessions, Messages

(* What Installed leaves: the old cipher, or the key where there was none *)
LEMMA InstalledIs ==
  ASSUME HandshakeType, NEW x \in Ends, NEW key \in Keys
  PROVE  /\ Installed(x, key) \in [Ends -> Keys]
         /\ \A y \in Ends : \/ Installed(x, key)[y] = cipher[y]
                            \/ y = x /\ cipher[x] = 0 /\ Installed(x, key)[y] = key
  BY DEF Installed, HandshakeType

(* A new session is nobody's, so what holds of the others stays. *)
LEMMA PunchPreserves ==
  ASSUME HandshakeInv, NEW x \in Ends, NEW s \in Sessions, PunchRequest(x, s)
  PROVE  HandshakeInv'
  <1> DEFINE first == [kind |-> "first", to |-> Other(x), session |-> s]
  <1>1. s # 0 /\ s \in Keys
    BY HandshakeAssumption DEF Sessions, Keys
  <1>2. /\ owner[s] = 0 /\ owner' = [owner EXCEPT ![s] = x] /\ x # 0
        /\ net' = net \cup {first}
        /\ handshake' = [handshake EXCEPT ![x] = s]
        /\ pending_session_key' = [pending_session_key EXCEPT ![x] = s]
        /\ punches' = [punches EXCEPT ![x] = @ + 1]
        /\ UNCHANGED <<peer, cipher, answered>>
    BY HandshakeAssumption DEF PunchRequest
  <1>3. first \in Messages /\ first.session = s /\ first.kind = "first"
    BY OtherIsEnd DEF Messages
  <1>4. HandshakeType'
    BY <1>1, <1>2, <1>3 DEF HandshakeInv, HandshakeType
  <1>5. \A k \in Sessions \ {s} : owner'[k] = owner[k]
    BY <1>2 DEF HandshakeInv, HandshakeType
  <1>6. owner'[s] = x
    BY <1>2 DEF HandshakeInv, HandshakeType
  <1>7. KeysInitiated'
    BY <1>2, <1>5, <1>6 DEF HandshakeInv, KeysInitiated, HandshakeType, Keys
  <1>8. MessagesKnown'
    <2> SUFFICES ASSUME NEW m \in net'
                 PROVE  owner'[m.session] # 0 /\ (m.kind = "second" => m.session \in answered')
      BY DEF MessagesKnown
    <2>1. CASE m \in net
      BY <2>1, <1>2, <1>5, <1>6 DEF HandshakeInv, HandshakeType, MessagesKnown, Messages
    <2>2. CASE m = first
      BY <2>2, <1>2, <1>3, <1>6
    <2> QED
      BY <1>2, <2>1, <2>2
  <1>9. PendingBelongsToSession'
    <2> SUFFICES ASSUME NEW y \in Ends, handshake'[y] # 0
                 PROVE  pending_session_key'[y] = handshake'[y] /\ owner'[handshake'[y]] = y
      BY DEF PendingBelongsToSession
    <2>1. CASE y = x
      BY <2>1, <1>2, <1>6 DEF HandshakeInv, HandshakeType
    <2>2. CASE y # x
      <3>1. handshake'[y] = handshake[y] /\ pending_session_key'[y] = pending_session_key[y]
        BY <2>2, <1>2 DEF HandshakeInv, HandshakeType
      <3>2. owner[handshake[y]] = y /\ y # 0
        BY <3>1, HandshakeAssumption DEF HandshakeInv, PendingBelongsToSession
      <3>3. handshake[y] \in Sessions \ {s}
        BY <3>1, <3>2, <1>2 DEF HandshakeInv, HandshakeType, Keys
      <3> QED
        BY <3>1, <3>2, <3>3, <1>5 DEF HandshakeInv, PendingBelongsToSession
    <2> QED
      BY <2>1, <2>2
  <1>10. OwnKeyWasRead'
    <2> SUFFICES ASSUME NEW y \in Ends, cipher[y] # 0, owner'[cipher[y]] = y
                 PROVE  cipher[y] \in answered
      BY <1>2 DEF OwnKeyWasRead
    <2>1. cipher[y] \in Sessions \ {s}
      BY <1>2 DEF HandshakeInv, HandshakeType, Keys, KeysInitiated
    <2> QED
      BY <2>1, <1>5 DEF HandshakeInv, OwnKeyWasRead
  <1> QED
    BY <1>4, <1>7, <1>8, <1>9, <1>10 DEF HandshakeInv

(* The key installed is that of the session, which the second message shows was answered. *)
LEMMA FinishPreserves ==
  ASSUME HandshakeInv, NEW x \in Ends, NEW m \in net, Finish(x, m)
  PROVE  HandshakeInv'
  <1> DEFINE key == pending_session_key[x]
  <1>1. /\ key = handshake[x] /\ key \in Keys /\ key = m.session
        /\ m.session \in answered /\ owner[key] # 0
    BY DEF Finish, read_message, HandshakeInv, HandshakeType, PendingBelongsToSession, MessagesKnown
  <1>2. /\ handshake' = [handshake EXCEPT ![x] = 0]
        /\ cipher' = Installed(x, key)
        /\ UNCHANGED <<peer, pending_session_key, net, punches, owner, answered>>
    BY DEF Finish
  <1>3. /\ cipher' \in [Ends -> Keys]
        /\ \A y \in Ends : cipher'[y] = cipher[y] \/ (y = x /\ cipher'[y] = key)
    BY <1>1, <1>2, InstalledIs, SMTT(30) DEF HandshakeInv
  <1>4. HandshakeType'
    BY <1>2, <1>3 DEF HandshakeInv, HandshakeType, Keys
  <1>5. KeysInitiated' /\ OwnKeyWasRead'
    BY <1>1, <1>2, <1>3 DEF HandshakeInv, KeysInitiated, OwnKeyWasRead
  <1>6. MessagesKnown'
    BY <1>2 DEF HandshakeInv, MessagesKnown
  <1>7. PendingBelongsToSession'
    BY <1>2 DEF HandshakeInv, HandshakeType, PendingBelongsToSession
  <1> QED
    BY <1>4, <1>5, <1>6, <1>7 DEF HandshakeInv

(* The responder installs the key it answers. *)
LEMMA RespondPreserves ==
  ASSUME HandshakeInv, NEW x \in Ends, NEW m \in net, Respond(x, m)
  PROVE  HandshakeInv'
  <1> DEFINE second == [kind |-> "second", to |-> Other(x), session |-> m.session]
  <1>1. m.session \in Sessions /\ m.session \in Keys /\ owner[m.session] # 0
    BY DEF HandshakeInv, HandshakeType, MessagesKnown, Messages, Keys
  <1>2. /\ net' = net \cup {second}
        /\ cipher' = Installed(x, m.session)
        /\ answered' = answered \cup {m.session}
        /\ UNCHANGED <<peer, handshake, pending_session_key, punches, owner>>
    BY DEF Respond
  <1>3. second \in Messages /\ second.session = m.session
    BY <1>1, OtherIsEnd DEF Messages
  <1>4. /\ cipher' \in [Ends -> Keys]
        /\ \A y \in Ends : cipher'[y] = cipher[y] \/ (y = x /\ cipher'[y] = m.session)
    <2>1. PICK key \in Keys : key = m.session
      BY <1>1
    <2>2. cipher' = Installed(x, key)
      BY <1>2, <2>1
    <2> QED
      BY <2>1, <2>2, InstalledIs, SMTT(30) DEF HandshakeInv
  <1>5. HandshakeType'
    BY <1>1, <1>2, <1>3, <1>4 DEF HandshakeInv, HandshakeType
  <1>6. KeysInitiated' /\ OwnKeyWasRead'
    BY <1>1, <1>2, <1>4 DEF HandshakeInv, KeysInitiated, OwnKeyWasRead
  <1>7. MessagesKnown'
    <2> SUFFICES ASSUME NEW n \in net'
                 PROVE  owner'[n.session] # 0 /\ (n.kind = "second" => n.session \in answered')
      BY DEF MessagesKnown
    <2>1. CASE n \in net
      BY <2>1, <1>2 DEF HandshakeInv, MessagesKnown
    <2>2. CASE n = second
      BY <2>2, <1>1, <1>2, <1>3
    <2> QED
      BY <1>2, <2>1, <2>2
  <1>8. PendingBelongsToSession'
    BY <1>2 DEF HandshakeInv, PendingBelongsToSession
  <1> QED
    BY <1>5, <1>6, <1>7, <1>8 DEF HandshakeInv

(* Every branch of the UDP loop keeps the invariant. *)
LEMMA HandshakeInductive == HandshakeInv /\ [HandshakeNext]_handshake_vars => HandshakeInv'
  <1> SUFFICES ASSUME HandshakeInv, [HandshakeNext]_handshake_vars PROVE HandshakeInv'
    OBVIOUS
  <1>1. ASSUME NEW x \in Ends, PeerAdded(x) PROVE HandshakeInv'
    BY <1>1 DEF PeerAdded, HandshakeInv, HandshakeType, KeysInitiated, MessagesKnown,
                PendingBelongsToSession, OwnKeyWasRead
  <1>2. ASSUME NEW x \in Ends, PeerRemoved(x) PROVE HandshakeInv'
    <2>1. HandshakeType'
      BY <1>2 DEF PeerRemoved, HandshakeInv, HandshakeType, Keys
    <2>2. KeysInitiated' /\ OwnKeyWasRead'
      BY <1>2 DEF PeerRemoved, HandshakeInv, HandshakeType, KeysInitiated, OwnKeyWasRead
    <2>3. MessagesKnown' /\ PendingBelongsToSession'
      BY <1>2 DEF PeerRemoved, HandshakeInv, HandshakeType, MessagesKnown, PendingBelongsToSession
    <2> QED
      BY <2>1, <2>2, <2>3 DEF HandshakeInv
  <1>3. ASSUME NEW x \in Ends, NEW s \in Sessions, PunchRequest(x, s) PROVE HandshakeInv'
    BY <1>3, PunchPreserves
  <1>4. ASSUME NEW x \in Ends, NEW m \in net, Finish(x, m) PROVE HandshakeInv'
    BY <1>4, FinishPreserves
  <1>5. ASSUME NEW x \in Ends, NEW m \in net, Drop(x, m) PROVE HandshakeInv'
    <2>1. HandshakeType'
      BY <1>5 DEF Drop, HandshakeInv, HandshakeType, Keys
    <2>2. KeysInitiated' /\ OwnKeyWasRead' /\ MessagesKnown'
      BY <1>5 DEF Drop, HandshakeInv, KeysInitiated, OwnKeyWasRead, MessagesKnown
    <2>3. PendingBelongsToSession'
      BY <1>5 DEF Drop, HandshakeInv, HandshakeType, PendingBelongsToSession
    <2> QED
      BY <2>1, <2>2, <2>3 DEF HandshakeInv
  <1>6. ASSUME NEW x \in Ends, NEW m \in net, Respond(x, m) PROVE HandshakeInv'
    BY <1>6, RespondPreserves
  <1>7. CASE UNCHANGED handshake_vars
    BY <1>7 DEF handshake_vars, HandshakeInv, HandshakeType, KeysInitiated, MessagesKnown,
                PendingBelongsToSession, OwnKeyWasRead
  <1> QED
    BY <1>1, <1>2, <1>3, <1>4, <1>5, <1>6, <1>7 DEF HandshakeNext

LEMMA HandshakeInvariant == HandshakeSpec => []HandshakeInv
  BY HandshakeInitially, HandshakeInductive, PTL DEF HandshakeSpec

(***************************************************************************)
(* Whatever punch requests replace an open session and whatever messages   *)
(* remove it, the key waiting to be installed is that of the open session. *)
(***************************************************************************)
THEOREM PendingBelongs == HandshakeSpec => []PendingBelongsToSession
  BY HandshakeInvariant, PTL DEF HandshakeInv

(***************************************************************************)
(* An edge that encrypts with a key it made itself has had it read by the  *)
(* other edge, for any number of sessions and copies of messages.          *)
(***************************************************************************)
THEOREM OwnKeysAreRead == HandshakeSpec => []OwnKeyWasRead
  BY HandshakeInvariant, PTL DEF HandshakeInv

(***************************************************************************)
(* No copy of a handshake exchanges a cipher, and with it the replay       *)
(* window, while the edge keeps its entry for the peer.                    *)
(***************************************************************************)
THEOREM CiphersAreStable == HandshakeSpec => CipherStable
  <1> DEFINE Kept == \A x \in Ends : cipher[x] # 0 /\ peer'[x] => cipher'[x] = cipher[x]
  <1>1. HandshakeInv /\ [HandshakeNext]_handshake_vars => [Kept]_handshake_vars
    <2> SUFFICES ASSUME HandshakeInv, HandshakeNext, NEW y \in Ends, cipher[y] # 0, peer'[y]
                 PROVE  cipher'[y] = cipher[y]
      BY DEF handshake_vars
    <2> USE DEF HandshakeInv, HandshakeType
    <2>1. ASSUME NEW x \in Ends, PeerRemoved(x) PROVE cipher'[y] = cipher[y]
      BY <2>1 DEF PeerRemoved
    <2>2. ASSUME NEW x \in Ends,
                 PeerAdded(x) \/ (\E s \in Sessions : PunchRequest(x, s)) \/ \E m \in net : Drop(x, m)
          PROVE cipher'[y] = cipher[y]
      BY <2>2 DEF PeerAdded, PunchRequest, Drop
    <2>3. ASSUME NEW x \in Ends, NEW m \in net, Finish(x, m) \/ Respond(x, m)
          PROVE cipher'[y] = cipher[y]
      BY <2>3 DEF Finish, Respond, Installed
    <2> QED
      BY <2>1, <2>2, <2>3 DEF HandshakeNext
  <1> QED
    BY <1>1, HandshakeInvariant, PTL DEF HandshakeSpec, CipherStable

-----------------------------------------------------------------------------
(* Paths *)

(* Induction from 0 on, for a set of numbers: being in P, and being a number, follow one recursion. *)
LEMMA Upwards ==
  ASSUME NEW P \in SUBSET Nat, 0 \in P, \A n \in Nat : n \in P => n + 1 \in P
  PROVE  P = Nat
  <1> DEFINE In(v, n) == IF v = 1 \/ n \in P THEN 1 ELSE 0
             f == [n \in Nat |-> 1]
             g == [n \in Nat |-> IF n \in P THEN 1 ELSE 0]
  <1>1. NatInductiveDefConclusion(f, 1, In)
    BY DEF NatInductiveDefConclusion
  <1>2. NatInductiveDefConclusion(g, 1, In)
    <2>1. ASSUME NEW n \in Nat PROVE g[n] = IF n = 0 THEN 1 ELSE In(g[n - 1], n)
      <3>1. CASE n = 0
        BY <3>1
      <3>2. CASE n # 0
        <4>1. n - 1 \in Nat /\ (n - 1) + 1 = n
          BY <3>2
        <4>2. n - 1 \in P => n \in P
          BY <4>1
        <4> QED BY <3>2, <4>1, <4>2
      <3> QED BY <3>1, <3>2
    <2>2. g = [n \in Nat |-> IF n = 0 THEN 1 ELSE In(g[n - 1], n)]
      <3> HIDE DEF In
      <3> QED BY <2>1
    <2> QED BY <2>2, Zenon DEF NatInductiveDefConclusion
  <1>3. f = g
    <2> HIDE DEF f, g, In
    <2> QED BY <1>1, <1>2, NatInductiveUnique, Zenon
  <1>4. ASSUME NEW n \in Nat PROVE n \in P
    <2>1. f[n] = 1 /\ g[n] = (IF n \in P THEN 1 ELSE 0)
      OBVIOUS
    <2>2. g[n] = 1
      BY <1>3, <2>1, Zenon
    <2> QED BY <2>1, <2>2
  <1> QED BY <1>4

(* Every set of numbers has a least one: what induction over a list comes down to. *)
LEMMA LeastNumber ==
  ASSUME NEW S \in SUBSET Nat, S # {}
  PROVE  \E m \in S : \A k \in S : m <= k
  <1> SUFFICES ASSUME \A m \in S : \E k \in S : ~(m <= k) PROVE FALSE
    OBVIOUS
  <1> DEFINE P == {n \in Nat : \A k \in S : n < k}
  <1>1. 0 \in P
    <2>1. ASSUME NEW k \in S PROVE 0 < k
      <3>1. PICK j \in S : ~(k <= j)
        OBVIOUS
      <3> QED BY <3>1
    <2> QED BY <2>1
  <1>2. ASSUME NEW n \in Nat, n \in P PROVE n + 1 \in P
    <2>1. ASSUME NEW k \in S PROVE n + 1 < k
      <3>1. PICK j \in S : ~(k <= j)
        OBVIOUS
      <3>2. n < j
        BY <1>2
      <3> QED BY <3>1, <3>2
    <2> QED BY <2>1
  <1>3. P = Nat
    <2>1. P \in SUBSET Nat
      OBVIOUS
    <2> HIDE DEF P
    <2> QED BY <1>1, <1>2, <2>1, Upwards
  <1>4. PICK k \in S : TRUE
    OBVIOUS
  <1>5. k \in P
    BY <1>3
  <1>6. k < k
    BY <1>5
  <1> QED BY <1>6

Distinct(ps) == \A i, j \in DOMAIN ps : ps[i].addr = ps[j].addr => i = j

PathLists == {ps \in Seq(PathInfo) : Len(ps) > 0 /\ ps[1].addr = Relay /\ Distinct(ps)}

PathInv == paths \in PathLists /\ active \in DOMAIN paths

(* reevaluate returns a fresh path, or the first when there is none: there is a best one. *)
LEMMA ReevaluateFacts ==
    ASSUME NEW ps \in PathLists
    PROVE  /\ reevaluate(ps) \in DOMAIN ps
           /\ ps[reevaluate(ps)].fresh \/ reevaluate(ps) = 1
<1> DEFINE E == Eligible(ps)
           Best(i) == \A j \in E : ps[i].score < ps[j].score \/ (ps[i].score = ps[j].score /\ i <= j)
<1>1. DOMAIN ps = 1 .. Len(ps) /\ Len(ps) \in Nat \ {0} /\ 1 \in DOMAIN ps
  BY DEF PathLists
<1>2. CASE E = {}
  BY <1>1, <1>2 DEF reevaluate
<1>3. CASE E # {}
  <2> DEFINE Values == {ps[i].score : i \in E}
  <2>1. E \subseteq DOMAIN ps /\ E \subseteq Nat /\ \A i \in E : ps[i].fresh /\ ps[i].score \in Nat
    <3>1. E \subseteq DOMAIN ps /\ \A i \in E : ps[i].fresh
      BY DEF Eligible
    <3>2. \A i \in DOMAIN ps : ps[i] \in PathInfo
      BY <1>1 DEF PathLists
    <3>3. \A x \in PathInfo : x.score \in Nat
      BY DEF PathInfo, Scores
    <3> HIDE DEF E
    <3> QED BY <1>1, <3>1, <3>2, <3>3
  <2> HIDE DEF E
  <2>2. PICK v \in Values : \A w \in Values : v <= w
    <3>1. Values \in SUBSET Nat /\ Values # {}
      BY <1>3, <2>1
    <3> QED BY <3>1, LeastNumber, Zenon
  <2> DEFINE Firsts == {i \in E : ps[i].score = v}
  <2>3. PICK i \in Firsts : \A j \in Firsts : i <= j
    <3>1. Firsts \in SUBSET Nat /\ Firsts # {}
      BY <2>1, <2>2
    <3> QED BY <3>1, LeastNumber, Zenon
  <2>4. i \in E /\ Best(i)
    <3> SUFFICES ASSUME NEW j \in E
                 PROVE  ps[i].score < ps[j].score \/ (ps[i].score = ps[j].score /\ i <= j)
      BY <2>3
    <3>1. ps[i].score = v /\ v <= ps[j].score /\ v \in Nat /\ ps[j].score \in Nat
      BY <2>1, <2>2, <2>3
    <3>2. CASE ps[j].score = v
      BY <2>3, <3>1, <3>2
    <3>3. CASE ps[j].score # v
      BY <3>1, <3>3
    <3> QED BY <3>2, <3>3
  <2>5. reevaluate(ps) = CHOOSE k \in E : Best(k)
    BY <1>3 DEF reevaluate, E
  <2> HIDE DEF Best
  <2>6. reevaluate(ps) \in E
    BY <2>4, <2>5, SMTT(30)
  <2> QED BY <2>1, <2>6
<1> QED BY <1>2, <1>3

(* What the calls make of a list of paths is one, with the relay first. *)
LEMMA PathListFacts ==
    ASSUME NEW ps \in PathLists, NEW a \in AllAddrs
    PROVE  /\ add_or_update_path(ps, a) \in PathLists
           /\ Succeeded(ps, a) \subseteq PathLists
           /\ Failed(ps, a) \subseteq PathLists
           /\ DOMAIN ps \subseteq DOMAIN add_or_update_path(ps, a)
           /\ \A i \in DOMAIN ps : add_or_update_path(ps, a)[i] = ps[i]
<1>1. ps \in Seq(PathInfo) /\ Len(ps) \in Nat /\ Len(ps) > 0 /\ ps[1].addr = Relay
      /\ DOMAIN ps = 1 .. Len(ps) /\ Distinct(ps)
  BY DEF PathLists
<1>2. NewPath(a) \in PathInfo
  BY PathsAssumption DEF NewPath, PathInfo, Scores
<1>3. /\ add_or_update_path(ps, a) \in PathLists
      /\ DOMAIN ps \subseteq DOMAIN add_or_update_path(ps, a)
      /\ \A i \in DOMAIN ps : add_or_update_path(ps, a)[i] = ps[i]
  <2>1. CASE add_or_update_path(ps, a) = ps
    BY <2>1
  <2>2. CASE /\ add_or_update_path(ps, a) = Append(ps, NewPath(a))
             /\ \A i \in DOMAIN ps : ps[i].addr # a
    <3> DEFINE x == NewPath(a)
    <3>1. x \in PathInfo /\ x.addr = a
      BY <1>2 DEF NewPath
    <3> HIDE DEF x
    <3>2. /\ Append(ps, x) \in Seq(PathInfo) /\ Len(Append(ps, x)) = Len(ps) + 1
          /\ DOMAIN Append(ps, x) = 1 .. Len(ps) + 1
          /\ \A i \in 1 .. Len(ps) : Append(ps, x)[i] = ps[i]
          /\ Append(ps, x)[Len(ps) + 1] = x
      BY <1>1, <3>1
    <3>3. Append(ps, x)[1] = ps[1] /\ Len(ps) + 1 > 0 /\ 1 .. Len(ps) \subseteq 1 .. Len(ps) + 1
      BY <1>1, <3>2
    <3>4. Append(ps, x) \in PathLists
      <4> DEFINE qs == Append(ps, x)
      <4>1. \A i \in 1 .. Len(ps) + 1 : i \in 1 .. Len(ps) \/ i = Len(ps) + 1
        BY <1>1
      <4>2. qs[Len(ps) + 1].addr = a /\ \A i \in 1 .. Len(ps) : qs[i].addr = ps[i].addr /\ ps[i].addr # a
        BY <1>1, <2>2, <3>1, <3>2
      <4>3. DOMAIN qs = 1 .. Len(ps) + 1 /\ qs \in Seq(PathInfo) /\ Len(qs) > 0 /\ qs[1].addr = Relay
        BY <1>1, <3>2, <3>3
      <4> HIDE DEF qs
      <4>4. Distinct(qs)
        BY <1>1, <4>1, <4>2, <4>3 DEF Distinct
      <4>5. qs \in PathLists
        BY <4>3, <4>4 DEF PathLists
      <4> QED BY <4>5 DEF qs
    <3> QED BY <1>1, <2>2, <3>2, <3>3, <3>4 DEF x
  <2> QED BY <2>1, <2>2 DEF add_or_update_path
<1>4. ASSUME NEW qs, DOMAIN qs = DOMAIN ps, qs = [i \in DOMAIN ps |-> qs[i]],
             \A i \in DOMAIN ps : qs[i] \in PathInfo /\ qs[i].addr = ps[i].addr
      PROVE  qs \in PathLists
  <2>1. qs \in Seq(PathInfo) /\ Len(qs) = Len(ps)
    BY <1>1, <1>4
  <2>2. Distinct(qs)
    BY <1>1, <1>4 DEF Distinct
  <2> QED BY <1>1, <1>4, <2>1, <2>2 DEF PathLists
<1>5. \A i \in DOMAIN ps : ps[i] \in PathInfo
  BY <1>1
<1>6. \A i \in DOMAIN ps, s \in Scores :
         /\ [ps[i] EXCEPT !.score = s, !.fresh = TRUE] \in PathInfo
         /\ [ps[i] EXCEPT !.score = s, !.fresh = TRUE].addr = ps[i].addr
         /\ [ps[i] EXCEPT !.score = s] \in PathInfo
         /\ [ps[i] EXCEPT !.score = s].addr = ps[i].addr
  BY <1>5, ZenonT(30) DEF PathInfo
<1>7. ASSUME NEW s \in Scores
      PROVE  [i \in DOMAIN ps |-> IF ps[i].addr = a
                                  THEN [ps[i] EXCEPT !.score = s, !.fresh = TRUE]
                                  ELSE ps[i]] \in PathLists
  BY <1>4, <1>5, <1>6, Zenon
<1>8. ASSUME NEW s \in Scores
      PROVE  [i \in DOMAIN ps |-> IF ps[i].addr = a /\ s > ps[i].score
                                  THEN [ps[i] EXCEPT !.score = s]
                                  ELSE ps[i]] \in PathLists
  BY <1>4, <1>5, <1>6, Zenon
<1> QED BY <1>3, <1>7, <1>8, Zenon DEF Succeeded, Failed

MoveIsSound == active_addr' # active_addr => paths'[active'].fresh \/ active_addr' = Relay

(* After reevaluate the active path is a fresh one or the relay. *)
LEMMA ChoiceStep ==
    ASSUME paths' \in PathLists, active' = reevaluate(paths')
    PROVE  PathInv' /\ MoveIsSound
  BY ReevaluateFacts DEF PathInv, PathLists, MoveIsSound, active_addr

LEMMA PathStep ==
    ASSUME PathInv, [PathsNext]_paths_vars
    PROVE  PathInv' /\ MoveIsSound
<1>0. paths \in PathLists /\ active \in DOMAIN paths
  BY DEF PathInv
<1>1. ASSUME UNCHANGED <<paths, active>> PROVE PathInv' /\ MoveIsSound
  BY <1>1 DEF PathInv, PathLists, MoveIsSound, active_addr
<1>2. CASE check_ping_timeouts \/ SendPings
  BY <1>1, <1>2 DEF check_ping_timeouts, SendPings
<1>3. ASSUME NEW p \in Pings, RecordTimeout(p) PROVE PathInv' /\ MoveIsSound
  <2>1. p[1] \in AllAddrs
    BY DEF Pings
  <2> QED BY <1>0, <1>3, <2>1, PathListFacts, ChoiceStep DEF RecordTimeout, record_failure
<1>4. ASSUME NEW p \in Pings, NEW a \in AllAddrs, Pong(p, a) PROVE PathInv' /\ MoveIsSound
  <2>1. p[1] \in AllAddrs
    BY DEF Pings
  <2>2. add_or_update_path(paths, a) \in PathLists
    BY <1>0, PathListFacts
  <2>3. paths' \in PathLists /\ active' = reevaluate(paths')
    BY <1>4, <2>1, <2>2, PathListFacts DEF Pong, record_success
  <2> QED BY <2>3, ChoiceStep
<1>5. ASSUME NEW a \in Addrs, add_peer_candidate(a) PROVE PathInv' /\ MoveIsSound
  <2>1. a \in AllAddrs
    BY DEF AllAddrs
  <2>2. /\ paths' \in PathLists
        /\ DOMAIN paths \subseteq DOMAIN paths'
        /\ \A i \in DOMAIN paths : paths'[i] = paths[i]
        /\ active' = active
    BY <1>0, <1>5, <2>1, PathListFacts DEF add_peer_candidate
  <2> QED BY <1>0, <2>2 DEF PathInv, MoveIsSound, active_addr
<1>6. ASSUME NEW a \in Addrs, set_direct_path(a) PROVE PathInv' /\ MoveIsSound
  <2>1. a \in AllAddrs
    BY DEF AllAddrs
  <2>2. add_or_update_path(paths, a) \in PathLists
    BY <1>0, <2>1, PathListFacts
  <2>3. paths' \in PathLists /\ active' = reevaluate(paths')
    BY <1>6, <2>1, <2>2, PathListFacts DEF set_direct_path, record_success
  <2> QED BY <2>3, ChoiceStep
<1>7. CASE ReplacePeer
  <2>1. NewManager \in PathLists /\ NewManager[1].addr = Relay /\ DOMAIN NewManager = {1}
    BY PathsAssumption DEF NewManager, NewPath, PathLists, Distinct, PathInfo, Scores, AllAddrs
  <2> QED BY <1>7, <2>1 DEF ReplacePeer, PathInv, MoveIsSound, active_addr
<1>8. ASSUME NEW a \in AllAddrs, Expire(a) PROVE PathInv' /\ MoveIsSound
  <2>1. PICK i \in DOMAIN paths : paths' = [paths EXCEPT ![i].fresh = FALSE]
    BY <1>8, Zenon DEF Expire
  <2>2. /\ paths \in Seq(PathInfo) /\ Len(paths) \in Nat /\ Len(paths) > 0
        /\ DOMAIN paths = 1 .. Len(paths) /\ paths[1].addr = Relay /\ Distinct(paths)
    BY <1>0 DEF PathLists
  <2>3. [paths[i] EXCEPT !.fresh = FALSE] \in PathInfo
        /\ [paths[i] EXCEPT !.fresh = FALSE].addr = paths[i].addr
    <3>1. paths[i] \in PathInfo
      BY <2>2
    <3> QED BY <3>1, Zenon DEF PathInfo
  <2>4. /\ paths' \in Seq(PathInfo) /\ Len(paths') = Len(paths) /\ DOMAIN paths' = DOMAIN paths
        /\ \A j \in DOMAIN paths : paths'[j].addr = paths[j].addr
    BY <2>1, <2>2, <2>3
  <2>5. active' = active
    BY <1>8 DEF Expire
  <2>6. Distinct(paths')
    BY <2>2, <2>4 DEF Distinct
  <2> QED BY <1>0, <2>2, <2>4, <2>5, <2>6 DEF PathInv, PathLists, MoveIsSound, active_addr
<1>9. ASSUME NEW a \in AllAddrs, Reachability(a) PROVE PathInv' /\ MoveIsSound
  BY <1>1, <1>9 DEF Reachability
<1>10. ASSUME NEW p \in Pings, Overdue(p) PROVE PathInv' /\ MoveIsSound
  BY <1>1, <1>10 DEF Overdue
<1>11. CASE UNCHANGED paths_vars
  BY <1>1, <1>11 DEF paths_vars
<1> QED
  BY <1>2, <1>3, <1>4, <1>5, <1>6, <1>7, <1>8, <1>9, <1>10, <1>11 DEF PathsNext, PingLoop

LEMMA PathsInitially == PathsInit => PathInv
  BY PathsAssumption
  DEF PathsInit, NewManager, NewPath, PathInv, PathLists, Distinct, PathInfo, Scores, AllAddrs

(***************************************************************************)
(* Whenever another path becomes the active one, it is fresh or the relay: *)
(* reevaluate never moves to a path that has been silent for 5 s, whatever *)
(* pongs, timeouts, candidates and replacements come in what order.        *)
(***************************************************************************)
THEOREM MovesAreSound == PathsSpec => MovesToFresh
<1>2. PathInv /\ [PathsNext]_paths_vars => PathInv' /\ [MoveIsSound]_paths_vars
  BY PathStep
<1> QED BY PathsInitially, <1>2, PTL DEF PathsSpec, MovesToFresh, MoveIsSound

(***************************************************************************)
(* Every path has one entry and the first is the relay's, for any number   *)
(* of addresses: add_or_update_path, the only call that grows the list,    *)
(* and add_peer, which makes a new one, keep active_index inside it.       *)
(***************************************************************************)
THEOREM PathsAreDistinct == PathsSpec => []PathsType
<1> DEFINE Books == /\ pending \in [Pings -> {"none", "sent", "overdue"}]
                    /\ timed_out \subseteq Pings
                    /\ round \in {"idle", "timeouts"}
                    /\ alive \subseteq AllAddrs
<1>1. PathsInit => Books
  BY DEF PathsInit
<1>2. Books /\ [PathsNext]_paths_vars => Books'
  <2> SUFFICES ASSUME Books, [PathsNext]_paths_vars PROVE Books'
    OBVIOUS
  <2>1. CASE check_ping_timeouts
    BY <2>1 DEF check_ping_timeouts
  <2>2. ASSUME NEW p \in Pings, RecordTimeout(p) PROVE Books'
    BY <2>2 DEF RecordTimeout
  <2>3. CASE SendPings
    BY <2>3 DEF SendPings
  <2>4. ASSUME NEW p \in Pings, NEW a \in AllAddrs, Pong(p, a) PROVE Books'
    BY <2>4 DEF Pong
  <2>5. ASSUME NEW a \in Addrs, add_peer_candidate(a) \/ set_direct_path(a) PROVE Books'
    BY <2>5 DEF add_peer_candidate, set_direct_path
  <2>6. CASE ReplacePeer
    BY <2>6 DEF ReplacePeer
  <2>7. ASSUME NEW a \in AllAddrs, Expire(a) \/ Reachability(a) PROVE Books'
    BY <2>7 DEF Expire, Reachability
  <2>8. ASSUME NEW p \in Pings, Overdue(p) PROVE Books'
    BY <2>8 DEF Overdue
  <2>9. CASE UNCHANGED paths_vars
    BY <2>9 DEF paths_vars
  <2> QED
    BY <2>1, <2>2, <2>3, <2>4, <2>5, <2>6, <2>7, <2>8, <2>9 DEF PathsNext, PingLoop
<1>3. PathInv /\ [PathsNext]_paths_vars => PathInv'
  BY PathStep
<1>4. PathInv /\ Books => PathsType
  BY DEF PathInv, PathLists, Distinct, PathsType
<1> HIDE DEF Books
<1> QED BY PathsInitially, <1>1, <1>2, <1>3, <1>4, PTL DEF PathsSpec

-----------------------------------------------------------------------------
(***************************************************************************)
(* The replay window delivers at most once, for every window width and     *)
(* every number of frames, in builds that check shifts and in builds that  *)
(* mask them.                                                              *)
(***************************************************************************)

(* Together these are inductive: what was delivered stays marked, or out of the window's reach. *)
IInv == TypeOK /\ DeliveredIsMarked

(* Moving the window keeps a marked nonce marked or moves it out, also when the shift is masked. *)
LEMMA ShiftKeepsMarks ==
    ASSUME TypeOK, NEW n \in Nonces, n > last_nonce,
           NEW m \in Nonces, m <= last_nonce,
           last_nonce - m >= W \/ last_nonce - m \in bitmap
    PROVE  n - m >= W \/ n - m \in ShiftLeft(bitmap, Shift(n))
<1>1. CASE n - last_nonce >= W
  BY <1>1, ReplayAssumption DEF TypeOK, Nonces
<1>2. CASE n - last_nonce < W
  <2>1. Shift(n) = n - last_nonce /\ Shift(n) # W
    BY <1>2, ReplayAssumption DEF Shift, TypeOK, Nonces
  <2>2. (n - m) - Shift(n) = last_nonce - m
    BY <2>1 DEF TypeOK, Nonces
  <2> QED
    BY <1>2, <2>1, <2>2, ReplayAssumption DEF ShiftLeft, Bits, TypeOK, Nonces
<1> QED
  BY <1>1, <1>2, ReplayAssumption DEF TypeOK, Nonces

(* The empty window satisfies the invariant. *)
LEMMA InitIInv ==
    ASSUME Init
    PROVE  IInv
<1>1. TypeOK
  <2>1. next_nonce \in 1 .. MaxNonce + 1 /\ last_nonce \in 0 .. MaxNonce
    BY ReplayAssumption DEF Init
  <2>2. delivered \in [Nonces -> Nat] /\ bitmap \subseteq Bits
    BY DEF Init
  <2>3. poisoned \in BOOLEAN /\ jumped \in BOOLEAN
    BY Zenon DEF Init
  <2> QED
    BY <2>1, <2>2, <2>3 DEF TypeOK
<1>2. DeliveredIsMarked
  BY DEF Init, DeliveredIsMarked
<1> QED
  BY <1>1, <1>2 DEF IInv

(* Every step keeps types and marks. *)
LEMMA StepIInv ==
    ASSUME IInv, [Next]_vars
    PROVE  IInv'
<1> USE ReplayAssumption DEF IInv, Nonces
<1>1. CASE UNCHANGED vars
  BY <1>1 DEF vars, TypeOK, DeliveredIsMarked
<1>2. CASE Send
  BY <1>2 DEF Send, TypeOK, DeliveredIsMarked
<1>3. ASSUME NEW n \in Nonces, Decrypt(n)
      PROVE  IInv'
  <2>1. CASE Advance(n)
    <3>1. TypeOK'
      BY <2>1 DEF Advance, TypeOK, ShiftLeft, Bits
    <3>2. DeliveredIsMarked'
      <4> SUFFICES ASSUME NEW m \in Nonces, delivered'[m] # 0
                   PROVE  /\ m <= last_nonce'
                          /\ last_nonce' - m >= W \/ last_nonce' - m \in bitmap'
        BY DEF DeliveredIsMarked
      <4>1. CASE m = n
        BY <2>1, <4>1 DEF Advance, TypeOK
      <4>2. CASE m # n
        <5>1. delivered[m] # 0
          BY <2>1, <4>2 DEF Advance, TypeOK
        <5>2. n - m >= W \/ n - m \in ShiftLeft(bitmap, Shift(n))
          BY <2>1, <5>1, ShiftKeepsMarks DEF Advance, DeliveredIsMarked
        <5> QED
          BY <2>1, <5>1, <5>2 DEF Advance, DeliveredIsMarked, TypeOK
      <4> QED
        BY <4>1, <4>2
    <3> QED
      BY <3>1, <3>2
  <2>2. CASE Overflow(n)
    BY <2>2 DEF Overflow, TypeOK, DeliveredIsMarked
  <2>3. CASE Fill(n)
    <3>1. last_nonce - n \in Bits
      BY <1>3, <2>3 DEF Fill, Decrypt, check_replay_window, Bits, TypeOK
    <3>2. TypeOK'
      BY <2>3, <3>1 DEF Fill, TypeOK
    <3>3. DeliveredIsMarked'
      BY <2>3 DEF Fill, TypeOK, DeliveredIsMarked
    <3> QED
      BY <3>2, <3>3
  <2> QED
    BY <1>3, <2>1, <2>2, <2>3 DEF Decrypt
<1> QED
  BY <1>1, <1>2, <1>3 DEF Next

(* The inductive invariant holds throughout. *)
THEOREM Inductive == Spec => []IInv
<1>1. Init => IInv
  BY InitIInv
<1>2. IInv /\ [Next]_vars => IInv'
  BY StepIInv
<1> QED
  BY <1>1, <1>2, PTL DEF Spec

(* Every reachable window marks what it delivered, or has moved past it. *)
THEOREM MarksDelivered == Spec => []DeliveredIsMarked
<1>1. IInv => DeliveredIsMarked
  BY DEF IInv
<1> QED
  BY <1>1, Inductive, PTL

(* Until the window moves by its whole width, only delivered nonces are marked. *)
THEOREM AcceptsLate == Spec => []LateFramesAccepted
<1> USE ReplayAssumption DEF Nonces
<1>1. Init => LateFramesAccepted
  BY DEF Init, LateFramesAccepted
<1>2. IInv /\ LateFramesAccepted /\ [Next]_vars => LateFramesAccepted'
  <2> SUFFICES ASSUME IInv, LateFramesAccepted, [Next]_vars, ~jumped',
                      NEW m \in Nonces, m <= last_nonce', last_nonce' - m \in bitmap'
               PROVE  delivered'[m] # 0
    BY DEF LateFramesAccepted
  <2> USE DEF IInv, TypeOK
  <2>1. CASE UNCHANGED vars \/ Send
    BY <2>1 DEF vars, Send, LateFramesAccepted
  <2>2. ASSUME NEW n \in Nonces, Decrypt(n)
        PROVE  delivered'[m] # 0
    <3>1. CASE Advance(n)
      <4>1. CASE m = n
        BY <3>1, <4>1 DEF Advance
      <4>2. CASE m # n
        <5>1. ~jumped /\ Shift(n) # W
          BY <3>1, Zenon DEF Advance
        <5>2. Shift(n) = n - last_nonce
          BY <5>1 DEF Shift
        <5>3. n - m \in ShiftLeft(bitmap, Shift(n))
          BY <3>1, <4>2 DEF Advance
        <5>4. last_nonce - m \in bitmap /\ m <= last_nonce
          BY <5>1, <5>2, <5>3 DEF ShiftLeft, Bits
        <5> QED
          BY <3>1, <4>2, <5>1, <5>4 DEF Advance, LateFramesAccepted
      <4> QED
        BY <4>1, <4>2
    <3>2. CASE Overflow(n)
      BY <3>2 DEF Overflow
    <3>3. CASE Fill(n)
      BY <3>3 DEF Fill, LateFramesAccepted
    <3> QED
      BY <2>2, <3>1, <3>2, <3>3 DEF Decrypt
  <2> QED
    BY <2>1, <2>2 DEF Next
<1> QED
  BY <1>1, <1>2, Inductive, PTL DEF Spec

(* A frame that passes check_replay_window was not delivered before. *)
LEMMA CheckedIsNew ==
    ASSUME IInv, NEW n \in Nonces, check_replay_window(n)
    PROVE  delivered[n] = 0
  BY ReplayAssumption DEF IInv, TypeOK, DeliveredIsMarked, check_replay_window, Nonces

(* The window implements AtMostOnce: every accepted frame is a first delivery, all else stutters. *)
THEOREM Refinement == Spec => DeliversAtMostOnce
<1>1. Init => Once!Init
  BY DEF Init, Once!Init
<1>2. IInv /\ [Next]_vars => [Once!Next]_delivered
  <2> SUFFICES ASSUME IInv, [Next]_vars
               PROVE  [Once!Next]_delivered
    OBVIOUS
  <2>1. CASE UNCHANGED vars \/ Send
    BY <2>1 DEF vars, Send
  <2>2. ASSUME NEW n \in Nonces, Decrypt(n)
        PROVE  [Once!Next]_delivered
    <3>1. delivered[n] = 0
      BY <2>2, CheckedIsNew DEF Decrypt
    <3>2. delivered' = delivered \/ delivered' = [delivered EXCEPT ![n] = 1]
      BY <2>2, <3>1 DEF Decrypt, Advance, Overflow, Fill, IInv, TypeOK
    <3> QED
      BY <3>1, <3>2 DEF Once!Next, Once!Deliver
  <2> QED
    BY <2>1, <2>2 DEF Next
<1> QED
  BY <1>1, <1>2, Inductive, PTL DEF Spec, DeliversAtMostOnce, Once!Spec

-----------------------------------------------------------------------------
(***************************************************************************)
(* SendPath: a slot has one owner, nobody writes to the slot of a call     *)
(* under way, and the scheduler does not fill up.                          *)
(***************************************************************************)

(***************************************************************************)
(* Ownership per slot, without counting owners: the freelist holds a slot  *)
(* at most once, a free or lost slot is nobody's, an owned one is one      *)
(* call's, and no slot is missing.  A call owns a slot exactly while it is *)
(* under way, and the slot's bytes are its own.  What the scheduler holds  *)
(* does not matter: no action takes a slot from there.                     *)
(***************************************************************************)
Owned(s) == \E t \in Tasks : desc[t] = s

OwnInv ==
    /\ free \in [Slots -> {0, 1}]
    /\ desc \in [Tasks -> Slots \cup {NoSlot}]
    /\ pc \in [Tasks -> Stages]
    /\ buf \in [Slots -> Tasks \cup {NoSlot}]
    /\ lost \subseteq Slots
    /\ \A t \in Tasks : pc[t] = "idle" <=> desc[t] = NoSlot
    /\ \A t, u \in Tasks : desc[t] = desc[u] /\ desc[t] # NoSlot => t = u
    /\ \A s \in Slots : /\ free[s] = 1 => ~Owned(s) /\ s \notin lost
                        /\ s \in lost => ~Owned(s)
                        /\ free[s] = 0 => Owned(s) \/ s \in lost
    /\ FramesIntact

LEMMA OwnInvInit == SendInit => OwnInv
  BY SendPathAssumption DEF SendInit, OwnInv, Owned, Stages, FramesIntact

LEMMA OwnInvOwner == OwnInv => SlotHasOneOwner
<1> SUFFICES ASSUME OwnInv, NEW s \in Slots
             PROVE  \/ free[s] = 1 /\ Holders(s) = {} /\ s \notin lost
                    \/ free[s] = 0 /\ s \notin lost /\ \E t \in Tasks : Holders(s) = {t}
                    \/ free[s] = 0 /\ Holders(s) = {} /\ s \in lost
  BY DEF SlotHasOneOwner
<1>1. CASE free[s] = 1
  BY <1>1 DEF OwnInv, Owned, Holders
<1>2. CASE free[s] = 0 /\ s \in lost
  BY <1>2 DEF OwnInv, Owned, Holders
<1>3. CASE free[s] = 0 /\ s \notin lost
  <2>1. PICK t \in Tasks : desc[t] = s
    BY <1>3 DEF OwnInv, Owned
  <2>2. Holders(s) = {t}
    BY <2>1, SendPathAssumption DEF OwnInv, Holders
  <2>3. QED
    BY <1>3, <2>2
<1>4. QED
  BY <1>1, <1>2, <1>3 DEF OwnInv

(* The steps between two steps of the slab: only how far the call is changes. *)
LEMMA OwnInvProgress ==
    ASSUME OwnInv, NEW t \in Tasks, NEW st \in Stages \ {"idle"}, pc[t] # "idle",
           pc' = [pc EXCEPT ![t] = st], UNCHANGED <<free, buf, desc, lost>>
    PROVE  OwnInv'
  BY DEF OwnInv, Owned, FramesIntact

LEMMA OwnInvStep == OwnInv /\ [SendNext]_send_vars => OwnInv'
<1> SUFFICES ASSUME OwnInv, [SendNext]_send_vars PROVE OwnInv'
  OBVIOUS
<1> USE SendPathAssumption
<1>1. ASSUME NEW t \in Tasks, NEW c \in Classes, FillSlot(t, c) PROVE OwnInv'
  <2>1. PICK s \in Slots : /\ free[s] > 0
                           /\ free' = [free EXCEPT ![s] = @ - 1]
                           /\ desc' = [desc EXCEPT ![t] = s]
                           /\ buf' = [buf EXCEPT ![s] = t]
    BY <1>1, Zenon DEF FillSlot
  <2>2. pc[t] = "idle" /\ pc' = [pc EXCEPT ![t] = "filled"] /\ lost' = lost
    BY <1>1 DEF FillSlot
  <2>3. free[s] = 1 /\ ~Owned(s) /\ s \notin lost /\ desc[t] = NoSlot
    BY <2>1, <2>2 DEF OwnInv
  <2>4. free' = [free EXCEPT ![s] = 0]
    BY <2>1, <2>3 DEF OwnInv
  <2>5. \A u \in Tasks : desc'[u] = IF u = t THEN s ELSE desc[u]
    BY <2>1 DEF OwnInv
  <2>6. \A x \in Slots : Owned(x)' <=> (x = s \/ Owned(x))
    BY <2>3, <2>5 DEF Owned
  <2>7. \A u, v \in Tasks : desc'[u] = desc'[v] /\ desc'[u] # NoSlot => u = v
    BY <2>3, <2>5 DEF OwnInv, Owned
  <2>8. FramesIntact'
    BY <2>1, <2>2, <2>3, <2>5 DEF OwnInv, Owned, FramesIntact
  <2>9. \A x \in Slots : /\ free'[x] = 1 => ~Owned(x)' /\ x \notin lost'
                         /\ x \in lost' => ~Owned(x)'
                         /\ free'[x] = 0 => Owned(x)' \/ x \in lost'
    BY <2>2, <2>3, <2>4, <2>6 DEF OwnInv
  <2>10. \A u \in Tasks : pc'[u] = "idle" <=> desc'[u] = NoSlot
    BY <2>2, <2>5 DEF OwnInv
  <2>11. QED
    BY <2>1, <2>2, <2>4, <2>7, <2>8, <2>9, <2>10 DEF OwnInv, Stages
<1>2. ASSUME NEW t \in Tasks, Push(t) PROVE OwnInv'
  BY <1>2, OwnInvProgress, Zenon DEF Push, Stages
<1>3. ASSUME NEW t \in Tasks, SendRaw(t) PROVE OwnInv'
  BY <1>3, OwnInvProgress, Zenon DEF SendRaw, Stages
<1>4. ASSUME NEW t \in Tasks, pc[t] # "idle", pc' = [pc EXCEPT ![t] = "idle"],
             desc' = [desc EXCEPT ![t] = NoSlot], UNCHANGED buf,
             \/ free' = [free EXCEPT ![desc[t]] = @ + 1] /\ lost' = lost
             \/ free' = free /\ lost' = lost \cup {desc[t]}
      PROVE  OwnInv'
  <2> DEFINE s == desc[t]
  <2>1. s \in Slots /\ Owned(s) /\ free[s] = 0 /\ s \notin lost
    BY <1>4 DEF OwnInv, Owned
  <2>2. \A u \in Tasks : desc'[u] = IF u = t THEN NoSlot ELSE desc[u]
    BY <1>4 DEF OwnInv
  <2>3. \A x \in Slots : Owned(x)' <=> (x # s /\ Owned(x))
    <3> SUFFICES ASSUME NEW x \in Slots
                 PROVE  (\E u \in Tasks : desc'[u] = x) <=> (x # s /\ \E u \in Tasks : desc[u] = x)
      BY Zenon DEF Owned
    <3>1. /\ x # NoSlot /\ s # NoSlot
          /\ \A u \in Tasks : desc[u] = s => u = t
      BY <2>1, SendPathAssumption DEF OwnInv
    <3> QED BY <2>2, <3>1
  <2>4. \/ free' = [free EXCEPT ![s] = 1] /\ lost' = lost
        \/ free' = free /\ lost' = lost \cup {s}
    <3>0. 0 + 1 = 1
      OBVIOUS
    <3>1. free[s] + 1 = 1
      BY <2>1, <3>0, Zenon
    <3>2. \/ free' = [free EXCEPT ![s] = free[s] + 1] /\ lost' = lost
          \/ free' = free /\ lost' = lost \cup {s}
      BY <1>4, Zenon
    <3> HIDE DEF s
    <3> QED BY <3>1, <3>2, Zenon
  <2>5. /\ free' \in [Slots -> {0, 1}] /\ lost' \subseteq Slots
        /\ \A x \in Slots : /\ free'[x] = 1 => ~Owned(x)' /\ x \notin lost'
                            /\ x \in lost' => ~Owned(x)'
                            /\ free'[x] = 0 => Owned(x)' \/ x \in lost'
    BY <2>1, <2>3, <2>4 DEF OwnInv
  <2>6. \A u, v \in Tasks : desc'[u] = desc'[v] /\ desc'[u] # NoSlot => u = v
    BY <2>2 DEF OwnInv
  <2>7. FramesIntact' /\ \A u \in Tasks : pc'[u] = "idle" <=> desc'[u] = NoSlot
    BY <1>4, <2>2 DEF OwnInv, FramesIntact
  <2>8. QED
    BY <1>4, <2>5, <2>6, <2>7 DEF OwnInv, Stages
<1>5. ASSUME NEW t \in Tasks, SendRawFails(t) PROVE OwnInv'
  BY <1>4, <1>5, Zenon DEF SendRawFails
<1>6. ASSUME NEW t \in Tasks, FinishSend(t) PROVE OwnInv'
  BY <1>4, <1>6, Zenon DEF FinishSend
<1>7. CASE UNCHANGED send_vars
  BY <1>7 DEF send_vars, OwnInv, Owned, FramesIntact
<1>8. QED
  BY <1>1, <1>2, <1>3, <1>5, <1>6, <1>7 DEF SendNext

(***************************************************************************)
(* Slots have one owner at a time, however many calls of send_to_peer      *)
(* interleave and whichever sends fail; a failed send loses its slot.      *)
(***************************************************************************)
THEOREM OneOwner == SendSpec => []SlotHasOneOwner
  BY OwnInvInit, OwnInvStep, OwnInvOwner, PTL DEF SendSpec

(***************************************************************************)
(* The bytes of a frame are the ones its own call wrote until send_raw has *)
(* returned.                                                               *)
(***************************************************************************)
THEOREM Intact == SendSpec => []FramesIntact
<1>1. OwnInv => FramesIntact
  BY DEF OwnInv
<1>2. QED
  BY <1>1, OwnInvInit, OwnInvStep, PTL DEF SendSpec

(***************************************************************************)
(* How long the scheduler's queues get: a call between its push and its    *)
(* pop, and a slot lost to a failed send, each stand for at most one item. *)
(***************************************************************************)
InScheduler == {t \in Tasks : pc[t] \in {"queued", "sent"}}
QueuesType == queues \in [Classes -> Seq(Slots)] /\ class \in [Tasks -> Classes]
Total(q) == Len(q["Control"]) + Len(q["Realtime"]) + Len(q["Interactive"]) + Len(q["Bulk"])

(* A push adds at most one item, and the bulk queue drops its oldest when it is full. *)
LEMMA PushFacts ==
    ASSUME NEW q \in [Classes -> Seq(Slots)], NEW c \in Classes, NEW s \in Slots
    PROVE  /\ push(q, c, s) \in [Classes -> Seq(Slots)]
           /\ Total(push(q, c, s)) <= Total(q) + 1
           /\ Len(q["Bulk"]) <= BulkCapacity => Len(push(q, c, s)["Bulk"]) <= BulkCapacity
<1>0. \A d \in Classes : q[d] \in Seq(Slots) /\ Len(q[d]) \in Nat
  OBVIOUS
<1>1. CASE c = "Bulk" /\ Len(q[c]) >= BulkCapacity
  <2>1. q[c] # <<>>
    BY <1>1, SendPathAssumption
  <2>2. /\ Tail(q[c]) \in Seq(Slots) /\ Len(Tail(q[c])) = Len(q[c]) - 1
    BY <1>0, <2>1
  <2>3. /\ Append(Tail(q[c]), s) \in Seq(Slots) /\ Len(Append(Tail(q[c]), s)) = Len(q[c])
    BY <1>0, <2>2
  <2>4. push(q, c, s) = [q EXCEPT ![c] = Append(Tail(q[c]), s)]
    BY <1>1 DEF push
  <2>5. /\ push(q, c, s) \in [Classes -> Seq(Slots)]
        /\ \A d \in Classes : Len(push(q, c, s)[d]) = Len(q[d])
    BY <2>3, <2>4
  <2> QED BY <1>0, <2>5 DEF Total, Classes
<1>2. CASE ~(c = "Bulk" /\ Len(q[c]) >= BulkCapacity)
  <2>1. /\ Append(q[c], s) \in Seq(Slots) /\ Len(Append(q[c], s)) = Len(q[c]) + 1
    BY <1>0
  <2>2. push(q, c, s) = [q EXCEPT ![c] = Append(q[c], s)]
    BY <1>2 DEF push
  <2>3. /\ push(q, c, s) \in [Classes -> Seq(Slots)]
        /\ \A d \in Classes \ {c} : Len(push(q, c, s)[d]) = Len(q[d])
        /\ Len(push(q, c, s)[c]) = Len(q[c]) + 1
    BY <2>1, <2>2
  <2> QED BY <1>0, <1>2, <2>3, SendPathAssumption, SMTT(30) DEF Total, Classes
<1> QED BY <1>1, <1>2

LEMMA TotalType ==
    ASSUME NEW q \in [Classes -> Seq(Slots)]
    PROVE  Total(q) \in Nat
<1>1. \A a, b, c, d \in Nat : a + b + c + d \in Nat
  OBVIOUS
<1>2. \A d \in Classes : Len(q[d]) \in Nat
  OBVIOUS
<1> QED BY <1>1, <1>2, Zenon DEF Total, Classes

(* A pop takes one item, when there is one. *)
LEMMA PopFacts ==
    ASSUME NEW q \in [Classes -> Seq(Slots)]
    PROVE  /\ pop(q) \in [Classes -> Seq(Slots)]
           /\ Total(pop(q)) = IF Total(q) = 0 THEN 0 ELSE Total(q) - 1
           /\ Len(pop(q)["Bulk"]) <= Len(q["Bulk"])
<1>0. \A d \in Classes : q[d] \in Seq(Slots) /\ Len(q[d]) \in Nat /\ (q[d] = <<>> <=> Len(q[d]) = 0)
  OBVIOUS
<1>1. ASSUME NEW c \in Classes, q[c] # <<>>, pop(q) = [q EXCEPT ![c] = Tail(@)]
      PROVE  /\ pop(q) \in [Classes -> Seq(Slots)]
             /\ Total(pop(q)) = Total(q) - 1 /\ Total(q) # 0
             /\ Len(pop(q)["Bulk"]) <= Len(q["Bulk"])
  <2>1. /\ Tail(q[c]) \in Seq(Slots) /\ Len(Tail(q[c])) = Len(q[c]) - 1
    BY <1>0, <1>1
  <2>2. /\ pop(q) \in [Classes -> Seq(Slots)]
        /\ \A d \in Classes \ {c} : Len(pop(q)[d]) = Len(q[d])
        /\ Len(pop(q)[c]) = Len(q[c]) - 1
    BY <1>1, <2>1
  <2>3. Len(q[c]) > 0
    BY <1>0, <1>1
  <2> DEFINE a == Len(q["Control"])
             b == Len(q["Realtime"])
             d == Len(q["Interactive"])
             e == Len(q["Bulk"])
             w == Len(pop(q)["Control"])
             x == Len(pop(q)["Realtime"])
             y == Len(pop(q)["Interactive"])
             z == Len(pop(q)["Bulk"])
  <2>4. a \in Nat /\ b \in Nat /\ d \in Nat /\ e \in Nat
    BY <1>0 DEF Classes
  <2>5. \/ a > 0 /\ w = a - 1 /\ x = b /\ y = d /\ z = e
        \/ b > 0 /\ w = a /\ x = b - 1 /\ y = d /\ z = e
        \/ d > 0 /\ w = a /\ x = b /\ y = d - 1 /\ z = e
        \/ e > 0 /\ w = a /\ x = b /\ y = d /\ z = e - 1
    BY <2>2, <2>3 DEF Classes
  <2>6. Total(q) = a + b + d + e /\ Total(pop(q)) = w + x + y + z
    BY DEF Total
  <2>7. /\ w + x + y + z = a + b + d + e - 1
        /\ a + b + d + e # 0 /\ z <= e
    <3> HIDE DEF a, b, d, e, w, x, y, z
    <3> QED BY <2>4, <2>5
  <2>8. Total(pop(q)) = Total(q) - 1 /\ Total(q) # 0
    <3> HIDE DEF a, b, d, e, w, x, y, z
    <3> QED BY <2>4, <2>5, <2>6
  <2>9. Len(pop(q)["Bulk"]) <= Len(q["Bulk"])
    BY <2>7, Zenon
  <2> QED BY <2>2, <2>8, <2>9, Zenon
<1>2. CASE \A c \in Classes : q[c] = <<>>
  BY <1>0, <1>2 DEF pop, Total, Classes
<1>3. CASE \E c \in Classes : q[c] # <<>>
  <2>1. PICK c \in Classes : q[c] # <<>> /\ pop(q) = [q EXCEPT ![c] = Tail(@)]
    BY <1>3 DEF pop, Classes
  <2> QED BY <1>1, <2>1, Zenon
<1> QED BY <1>2, <1>3

LEMMA OneMore ==
    ASSUME NEW S, IsFiniteSet(S), NEW x, x \notin S
    PROVE  Cardinality(S \cup {x}) = Cardinality(S) + 1
  BY FS_AddElement

(* How the two sets of the bound change with the stage of one call *)
LEMMA StageChange ==
    ASSUME OwnInv, NEW t \in Tasks, NEW stage \in Stages, pc' = [pc EXCEPT ![t] = stage]
    PROVE  /\ Cardinality(InScheduler) \in Nat
           /\ Cardinality(InScheduler') =
                 IF pc[t] \in {"queued", "sent"}
                 THEN IF stage \in {"queued", "sent"} THEN Cardinality(InScheduler)
                      ELSE Cardinality(InScheduler) - 1
                 ELSE IF stage \in {"queued", "sent"} THEN Cardinality(InScheduler) + 1
                      ELSE Cardinality(InScheduler)
<1>1. IsFiniteSet(InScheduler) /\ Cardinality(InScheduler) \in Nat
  BY SendPathAssumption, FS_Subset, FS_CardinalityType DEF InScheduler
<1>2. t \in InScheduler <=> pc[t] \in {"queued", "sent"}
  BY DEF InScheduler
<1>3. InScheduler' = IF stage \in {"queued", "sent"} THEN InScheduler \cup {t}
                     ELSE InScheduler \ {t}
  BY DEF InScheduler, OwnInv
<1> QED BY <1>1, <1>2, <1>3, FS_AddElement, FS_RemoveElement, Zenon

BoundInv == OwnInv /\ QueuesType /\ QueuesBounded

LEMMA BoundInvStep == BoundInv /\ [SendNext]_send_vars => BoundInv'
<1> SUFFICES ASSUME BoundInv, [SendNext]_send_vars PROVE BoundInv'
  OBVIOUS
<1>0. /\ OwnInv /\ OwnInv' /\ QueuesType
      /\ Total(queues) <= Cardinality(lost) + Cardinality(InScheduler)
      /\ Len(queues["Bulk"]) <= BulkCapacity
  BY OwnInvStep, Zenon DEF BoundInv, QueuesBounded, Queued, Total, InScheduler
<1>1. IsFiniteSet(lost) /\ Cardinality(lost) \in Nat
  BY <1>0, SendPathAssumption, FS_Subset, FS_CardinalityType DEF OwnInv
<1>2. \A c \in Classes : Len(queues[c]) \in Nat
  BY <1>0 DEF QueuesType
<1>3. Total(queues) \in Nat
  BY <1>0, TotalType DEF QueuesType
<1>4. SUFFICES /\ QueuesType'
               /\ Total(queues)' <= Cardinality(lost') + Cardinality(InScheduler')
               /\ Len(queues'["Bulk"]) <= BulkCapacity
  BY <1>0, Zenon DEF BoundInv, QueuesBounded, Queued, Total, InScheduler
<1>5. ASSUME NEW t \in Tasks, NEW c \in Classes, FillSlot(t, c)
      PROVE  /\ QueuesType'
             /\ Total(queues)' <= Cardinality(lost') + Cardinality(InScheduler')
             /\ Len(queues'["Bulk"]) <= BulkCapacity
  <2>1. /\ pc[t] = "idle" /\ pc' = [pc EXCEPT ![t] = "filled"] /\ UNCHANGED <<queues, lost>>
        /\ class' = [class EXCEPT ![t] = c]
    BY <1>5 DEF FillSlot
  <2>2. Cardinality(InScheduler') = Cardinality(InScheduler)
    BY <1>0, <2>1, StageChange, Zenon DEF Stages
  <2> QED BY <1>0, <2>1, <2>2, Zenon DEF QueuesType, Total
<1>6. ASSUME NEW t \in Tasks, Push(t)
      PROVE  /\ QueuesType'
             /\ Total(queues)' <= Cardinality(lost') + Cardinality(InScheduler')
             /\ Len(queues'["Bulk"]) <= BulkCapacity
  <2>1. /\ pc[t] = "filled" /\ pc' = [pc EXCEPT ![t] = "queued"] /\ UNCHANGED <<lost, class>>
        /\ queues' = push(queues, class[t], desc[t])
    BY <1>6 DEF Push
  <2>2. Cardinality(InScheduler') = Cardinality(InScheduler) + 1 /\ Cardinality(InScheduler) \in Nat
    BY <1>0, <2>1, StageChange, Zenon DEF Stages
  <2>3. class[t] \in Classes /\ desc[t] \in Slots
    BY <1>0, <2>1 DEF QueuesType, OwnInv
  <2>4. /\ queues' \in [Classes -> Seq(Slots)] /\ Total(queues') <= Total(queues) + 1
        /\ Len(queues'["Bulk"]) <= BulkCapacity
    BY <1>0, <2>1, <2>3, PushFacts, Zenon DEF QueuesType
  <2>5. Total(queues') \in Nat
    BY <2>4, TotalType
  <2>6. Total(queues)' = Total(queues')
    BY DEF Total
  <2>7. QueuesType' /\ lost' = lost
    BY <1>0, <2>1, <2>4 DEF QueuesType
  <2> DEFINE held == Cardinality(InScheduler)
             gone == Cardinality(lost)
             total == Total(queues)
             total2 == Total(queues')
  <2>8. /\ held \in Nat /\ gone \in Nat /\ total \in Nat /\ total2 \in Nat
        /\ total <= gone + held /\ total2 <= total + 1
    BY <1>0, <1>1, <1>3, <2>2, <2>4, <2>5, Zenon
  <2> HIDE DEF held, gone, total, total2
  <2>9. total2 <= gone + (held + 1)
    BY <2>8
  <2>10. Total(queues)' <= Cardinality(lost') + Cardinality(InScheduler')
    BY <2>2, <2>6, <2>7, <2>9, Zenon DEF held, gone, total2
  <2> QED BY <2>4, <2>7, <2>10, Zenon
<1>7. ASSUME NEW t \in Tasks, SendRaw(t)
      PROVE  /\ QueuesType'
             /\ Total(queues)' <= Cardinality(lost') + Cardinality(InScheduler')
             /\ Len(queues'["Bulk"]) <= BulkCapacity
  <2>1. /\ pc[t] = "queued" /\ pc' = [pc EXCEPT ![t] = "sent"] /\ UNCHANGED <<queues, lost, class>>
    BY <1>7 DEF SendRaw
  <2>2. Cardinality(InScheduler') = Cardinality(InScheduler)
    BY <1>0, <2>1, StageChange, Zenon DEF Stages
  <2> QED BY <1>0, <2>1, <2>2, Zenon DEF QueuesType, Total
<1>8. ASSUME NEW t \in Tasks, SendRawFails(t)
      PROVE  /\ QueuesType'
             /\ Total(queues)' <= Cardinality(lost') + Cardinality(InScheduler')
             /\ Len(queues'["Bulk"]) <= BulkCapacity
  <2>1. /\ pc[t] = "queued" /\ pc' = [pc EXCEPT ![t] = "idle"] /\ UNCHANGED <<queues, class>>
        /\ lost' = lost \cup {desc[t]}
    BY <1>8 DEF SendRawFails
  <2>2. Cardinality(InScheduler') = Cardinality(InScheduler) - 1 /\ Cardinality(InScheduler) \in Nat
    BY <1>0, <2>1, StageChange, Zenon DEF Stages
  <2>3. desc[t] \notin lost
    BY <1>0, <2>1 DEF OwnInv, Owned
  <2>4. Cardinality(lost') = Cardinality(lost) + 1
    BY <1>1, <2>1, <2>3, OneMore, Zenon
  <2>5. Total(queues)' = Total(queues)
    BY <2>1 DEF Total
  <2>6. Total(queues) <= Cardinality(lost') + Cardinality(InScheduler')
    BY <1>0, <1>1, <1>3, <2>2, <2>4
  <2> QED BY <1>0, <2>1, <2>5, <2>6 DEF QueuesType
<1>9. ASSUME NEW t \in Tasks, FinishSend(t)
      PROVE  /\ QueuesType'
             /\ Total(queues)' <= Cardinality(lost') + Cardinality(InScheduler')
             /\ Len(queues'["Bulk"]) <= BulkCapacity
  <2>1. /\ pc[t] = "sent" /\ pc' = [pc EXCEPT ![t] = "idle"] /\ UNCHANGED <<lost, class>>
        /\ queues' = pop(queues)
    BY <1>9 DEF FinishSend
  <2>2. /\ Cardinality(InScheduler') = Cardinality(InScheduler) - 1
        /\ Cardinality(InScheduler) \in Nat /\ Cardinality(InScheduler) > 0
    <3>1. IsFiniteSet(InScheduler) /\ InScheduler # {}
      BY <2>1, SendPathAssumption, FS_Subset DEF InScheduler
    <3>2. Cardinality(InScheduler) # 0
      BY <3>1, FS_EmptySet
    <3>3. /\ Cardinality(InScheduler') = Cardinality(InScheduler) - 1
          /\ Cardinality(InScheduler) \in Nat
      BY <1>0, <2>1, StageChange, Zenon DEF Stages
    <3> QED BY <3>2, <3>3
  <2>3. /\ queues' \in [Classes -> Seq(Slots)]
        /\ Total(queues') = IF Total(queues) = 0 THEN 0 ELSE Total(queues) - 1
        /\ Len(queues'["Bulk"]) <= Len(queues["Bulk"])
    BY <1>0, <2>1, PopFacts DEF QueuesType
  <2>4. Len(queues'["Bulk"]) \in Nat /\ Len(queues["Bulk"]) \in Nat
    BY <1>2, <2>3 DEF Classes
  <2>5. Total(queues)' = Total(queues')
    BY DEF Total
  <2>6. Total(queues') <= Cardinality(lost) + Cardinality(InScheduler')
    BY <1>0, <1>1, <1>3, <2>2, <2>3
  <2> QED BY <1>0, <2>1, <2>3, <2>4, <2>5, <2>6, SendPathAssumption DEF QueuesType
<1>10. CASE UNCHANGED send_vars
  BY <1>0, <1>10, Zenon DEF send_vars, QueuesType, Total, InScheduler
<1> QED
  BY <1>5, <1>6, <1>7, <1>8, <1>9, <1>10 DEF SendNext

(***************************************************************************)
(* The scheduler never holds more items than slots were lost to failed     *)
(* sends and calls are between push and pop, and the bulk queue keeps to   *)
(* its capacity, for any number of tasks and slots: its queues without a   *)
(* limit do not grow without one.                                          *)
(***************************************************************************)
THEOREM QueuesStayBounded == SendSpec => []QueuesBounded
<1>1. SendInit => BoundInv
  <2> SUFFICES ASSUME SendInit PROVE BoundInv
    OBVIOUS
  <2>1. OwnInv
    BY OwnInvInit
  <2>2. QueuesType /\ Queued = 0 /\ Len(queues["Bulk"]) <= BulkCapacity
    BY SendPathAssumption DEF SendInit, QueuesType, Queued, Classes
  <2>3. lost = {} /\ {t \in Tasks : pc[t] \in {"queued", "sent"}} = {}
    BY DEF SendInit
  <2> QED BY <2>1, <2>2, <2>3, FS_EmptySet, SMTT(30) DEF BoundInv, QueuesBounded
<1>2. BoundInv => QueuesBounded
  BY DEF BoundInv
<1> QED BY <1>1, <1>2, BoundInvStep, PTL DEF SendSpec
==============================================================================
