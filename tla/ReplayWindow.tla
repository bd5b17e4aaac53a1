---------------------------- MODULE ReplayWindow ----------------------------
(***************************************************************************)
(* The replay window of a Cipher (crates/r2n-crypto) between a sender that *)
(* numbers its frames with DataPeer::next_nonce and a network that loses,  *)
(* repeats and reorders them.  Only frames the AEAD authenticates count: a *)
(* frame that fails to decrypt changes nothing.  The bitmap is the set of  *)
(* its one bits, bit d standing for the nonce last_nonce - d.              *)
(***************************************************************************)
EXTENDS Integers

CONSTANTS
    W,               \* width of the bitmap, 64
    MaxNonce,        \* bound on the sender's counter
    Builds           \* "debug" checks the amount of a shift, "release" masks it

ASSUME ReplayAssumption ==
    /\ W \in Nat \ {0}
    /\ MaxNonce \in Nat
    /\ Builds \subseteq {"debug", "release"}

VARIABLES
    next_nonce,      \* the sender's counter
    last_nonce,
    bitmap,
    poisoned,        \* a panic under the lock poisoned the mutex
    delivered,       \* how often each nonce was accepted
    jumped           \* history: the window once moved by its whole width

vars == <<next_nonce, last_nonce, bitmap, poisoned, delivered, jumped>>

Nonces == 1 .. MaxNonce
Bits == 0 .. W - 1

TypeOK ==
    /\ next_nonce \in 1 .. MaxNonce + 1
    /\ last_nonce \in 0 .. MaxNonce
    /\ bitmap \subseteq Bits
    /\ poisoned \in BOOLEAN
    /\ delivered \in [Nonces -> Nat]
    /\ jumped \in BOOLEAN

Init ==
    /\ next_nonce = 1
    /\ last_nonce = 0
    /\ bitmap = {}
    /\ poisoned = FALSE
    /\ delivered = [n \in Nonces |-> 0]
    /\ jumped = FALSE

(* The sender takes a nonce; what happens to the frame is the network's business. *)
Send ==
    /\ next_nonce <= MaxNonce
    /\ next_nonce' = next_nonce + 1
    /\ UNCHANGED <<last_nonce, bitmap, poisoned, delivered, jumped>>

(* Mutant of check_replay_window: a nonce below the window is let through. *)
check_replay_window_open(n) ==
    n <= last_nonce => last_nonce - n >= W \/ last_nonce - n \notin bitmap

check_replay_window(n) ==
    n <= last_nonce => last_nonce - n < W /\ last_nonce - n \notin bitmap

(* bitmap << k: the shift amount of a W-bit word is taken modulo W in a release build. *)
ShiftLeft(bits, k) == {d \in Bits : d - (IF k = W THEN 0 ELSE k) \in bits}

Shift(n) == IF n - last_nonce < W THEN n - last_nonce ELSE W

(* advance_replay_window for a nonce above the window *)
Advance(n) ==
    /\ n > last_nonce
    /\ Shift(n) = W => "release" \in Builds
    /\ bitmap' = ShiftLeft(bitmap, Shift(n)) \cup {0}
    /\ last_nonce' = n
    /\ delivered' = [delivered EXCEPT ![n] = @ + 1]
    /\ jumped' = (jumped \/ Shift(n) = W)
    /\ UNCHANGED <<next_nonce, poisoned>>

(* ... whose shift overflows: the panic leaves the mutex poisoned, and decrypt returns nothing *)
Overflow(n) ==
    /\ n > last_nonce
    /\ Shift(n) = W /\ "debug" \in Builds
    /\ poisoned' = TRUE
    /\ jumped' = TRUE
    /\ UNCHANGED <<next_nonce, last_nonce, bitmap, delivered>>

(* advance_replay_window for a nonce inside it *)
Fill(n) ==
    /\ n <= last_nonce
    /\ bitmap' = bitmap \cup {last_nonce - n}
    /\ delivered' = [delivered EXCEPT ![n] = @ + 1]
    /\ UNCHANGED <<next_nonce, last_nonce, poisoned, jumped>>

(* decrypt_in_place of a frame that arrives, for the first or the n-th time *)
Decrypt(n) ==
    /\ n < next_nonce
    /\ ~poisoned
    /\ check_replay_window(n)
    /\ Advance(n) \/ Overflow(n) \/ Fill(n)

Next == Send \/ \E n \in Nonces : Decrypt(n)

Spec == Init /\ [][Next]_vars

-----------------------------------------------------------------------------

(***************************************************************************)
(* Refinement: the window lets every frame through at most once ("Replay   *)
(* attacks are prevented", SECURITY.md), whatever is repeated, reordered   *)
(* or lost, and also after a jump whose shift the release build masks.     *)
(***************************************************************************)
Once == INSTANCE AtMostOnce WITH Packets <- Nonces
DeliversAtMostOnce == Once!Spec

(***************************************************************************)
(* What the bitmap must know for that: a delivered nonce is at or below    *)
(* last_nonce, and either out of the window's reach or marked.             *)
(***************************************************************************)
DeliveredIsMarked ==
    \A n \in Nonces : delivered[n] # 0 =>
        /\ n <= last_nonce
        /\ last_nonce - n >= W \/ last_nonce - n \in bitmap

(***************************************************************************)
(* Nothing is refused without cause: until the window is moved by its      *)
(* whole width, a nonce inside it is marked only if it was delivered, so   *)
(* a late frame is accepted.  (After such a move the masked shift of       *)
(* advance_replay_window leaves old bits behind.)                          *)
(***************************************************************************)
LateFramesAccepted ==
    ~jumped => \A n \in Nonces :
        n <= last_nonce /\ last_nonce - n \in bitmap => delivered[n] # 0
=============================================================================
