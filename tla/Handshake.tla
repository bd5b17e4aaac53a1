------------------------------ MODULE Handshake ------------------------------
(***************************************************************************)
(* How two edges agree on a key (crates/r2n-edge-lib, the PunchRequest and *)
(* Handshake branches of the UDP loop; crates/r2n-crypto, NoiseSession).   *)
(* A PunchRequest makes an edge the initiator of a Noise IK session: it    *)
(* sends a fresh random key in the first message, in a burst of copies.    *)
(* The other edge answers as a responder, unless it has a session of its   *)
(* own.  The network keeps every message: it may be delivered again, late, *)
(* or never.                                                               *)
(*                                                                         *)
(* A session and the key sent in it go by one number; 0 is "none".         *)
(***************************************************************************)
EXTENDS Integers

CONSTANTS
    Ends,          \* the two edges
    MaxPunches     \* bound on the PunchRequests an edge gets

ASSUME HandshakeAssumption ==
    /\ \E a, b \in Ends : a # b /\ Ends = {a, b}
    /\ 0 \notin Ends
    /\ MaxPunches \in Nat

VARIABLES
    peer,                  \* does the edge have a PeerState for the other one?
    handshake,             \* PeerState::handshake
    pending_session_key,
    cipher,
    net,                   \* the messages sent so far
    punches,               \* PunchRequests an edge handled
    owner,                 \* history: who initiated each session
    answered               \* history: the sessions a responder answered

handshake_vars == <<peer, handshake, pending_session_key, cipher, net, punches, owner, answered>>

Other(x) == CHOOSE y \in Ends : y # x
Sessions == 1 .. 2 * MaxPunches
Keys == Sessions \cup {0}

(* NoiseSession::read_message of an initiator: only the second message of its own session. *)
read_message(session, m) == m.kind = "second" /\ m.session = session

HandshakeInit ==
    /\ peer = [x \in Ends |-> FALSE]
    /\ handshake = [x \in Ends |-> 0]
    /\ pending_session_key = [x \in Ends |-> 0]
    /\ cipher = [x \in Ends |-> 0]
    /\ net = {}
    /\ punches = [x \in Ends |-> 0]
    /\ owner = [s \in Sessions |-> 0]
    /\ answered = {}

(* PeerList, or PeerUpdate Add: build_peer_state, or an update of the info only *)
PeerAdded(x) ==
    /\ peer' = [peer EXCEPT ![x] = TRUE]
    /\ UNCHANGED <<handshake, pending_session_key, cipher, net, punches, owner, answered>>

(* PeerUpdate Remove, a PeerList without the peer, leaving the room, or a restart of the edge *)
PeerRemoved(x) ==
    /\ peer' = [peer EXCEPT ![x] = FALSE]
    /\ handshake' = [handshake EXCEPT ![x] = 0]
    /\ pending_session_key' = [pending_session_key EXCEPT ![x] = 0]
    /\ cipher' = [cipher EXCEPT ![x] = 0]
    /\ UNCHANGED <<net, punches, owner, answered>>

(* A session that is still open is replaced, whether or not there is a cipher already. *)
PunchRequest(x, s) ==
    /\ peer[x] /\ punches[x] < MaxPunches /\ owner[s] = 0
    /\ owner' = [owner EXCEPT ![s] = x]
    /\ punches' = [punches EXCEPT ![x] = @ + 1]
    /\ handshake' = [handshake EXCEPT ![x] = s]
    /\ pending_session_key' = [pending_session_key EXCEPT ![x] = s]
    /\ net' = net \cup {[kind |-> "first", to |-> Other(x), session |-> s]}
    /\ UNCHANGED <<peer, cipher, answered>>

(* "Only install cipher if not already installed." *)
Installed(x, key) == IF cipher[x] = 0 THEN [cipher EXCEPT ![x] = key] ELSE cipher

(* Mutant of Finish: any second message completes the open session. *)
FinishAny(x, m) ==
    /\ peer[x] /\ m.to = x
    /\ handshake[x] # 0 /\ m.kind = "second"
    /\ handshake' = [handshake EXCEPT ![x] = 0]
    /\ cipher' = Installed(x, pending_session_key[x])
    /\ UNCHANGED <<peer, pending_session_key, net, punches, owner, answered>>

(* The open session reads its second message: the handshake is finished. *)
Finish(x, m) ==
    /\ peer[x] /\ m.to = x
    /\ handshake[x] # 0 /\ read_message(handshake[x], m)
    /\ handshake' = [handshake EXCEPT ![x] = 0]
    /\ cipher' = Installed(x, pending_session_key[x])
    /\ UNCHANGED <<peer, pending_session_key, net, punches, owner, answered>>

(* The open session cannot read the message; take() has removed it and nothing puts it back. *)
Drop(x, m) ==
    /\ peer[x] /\ m.to = x
    /\ handshake[x] # 0
    /\ ~read_message(handshake[x], m)
    /\ handshake' = [handshake EXCEPT ![x] = 0]
    /\ UNCHANGED <<peer, pending_session_key, cipher, net, punches, owner, answered>>

(* Without an open session a responder is made for the message; it can read first messages only. *)
Respond(x, m) ==
    /\ peer[x] /\ m.to = x
    /\ handshake[x] = 0 /\ m.kind = "first"
    /\ net' = net \cup {[kind |-> "second", to |-> Other(x), session |-> m.session]}
    /\ cipher' = Installed(x, m.session)
    /\ answered' = answered \cup {m.session}
    /\ UNCHANGED <<peer, handshake, pending_session_key, punches, owner>>

HandshakeNext ==
    \E x \in Ends :
        \/ PeerAdded(x)
        \/ PeerRemoved(x)
        \/ \E s \in Sessions : PunchRequest(x, s)
        \/ \E m \in net : Finish(x, m) \/ Drop(x, m) \/ Respond(x, m)

HandshakeSpec == HandshakeInit /\ [][HandshakeNext]_handshake_vars

-----------------------------------------------------------------------------

(***************************************************************************)
(* "This prevents replay window reset from burst retransmissions": as long *)
(* as an edge keeps its entry for a peer, the cipher once installed is     *)
(* never exchanged for another, whatever copies of old and new handshakes  *)
(* arrive.                                                                 *)
(***************************************************************************)
CipherStable ==
    [][\A x \in Ends : cipher[x] # 0 /\ peer'[x] => cipher'[x] = cipher[x]]_handshake_vars

(***************************************************************************)
(* The key an edge would install on completion is the one its open session *)
(* sent: handshake and pending_session_key are two mutexes that are        *)
(* written one after the other.                                            *)
(***************************************************************************)
PendingBelongsToSession ==
    \A x \in Ends : handshake[x] # 0 =>
        pending_session_key[x] = handshake[x] /\ owner[handshake[x]] = x

(***************************************************************************)
(* An edge encrypts with a key of its own making only when the other edge  *)
(* has read it: the initiator completes on the second message of its own   *)
(* session, however many sessions were started, dropped or replaced.       *)
(***************************************************************************)
OwnKeyWasRead ==
    \A x \in Ends : cipher[x] # 0 /\ owner[cipher[x]] = x => cipher[x] \in answered

(***************************************************************************)
(* "Secure tunnel establishment uses the Noise Protocol Framework ... for  *)
(* mutual authentication and session key derivation" (SECURITY.md): when   *)
(* both edges have completed a handshake they hold the same key.           *)
(***************************************************************************)
KeysAgree ==
    \A x, y \in Ends : cipher[x] # 0 /\ cipher[y] # 0 => cipher[x] = cipher[y]
============================================================================
