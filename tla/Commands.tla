------------------------------ MODULE Commands ------------------------------
(***************************************************************************)
(* Commands of local clients (crates/r2n-edge-lib, ipc.rs and the command  *)
(* loop of Edge::run).  A connection task puts the command into a channel  *)
(* and waits 35 seconds for its reply; the loop keeps the reply's sender   *)
(* in a slot per kind of command until the supernode's answer, an error or *)
(* nothing comes.  The network loses and delays frames, but repeats none.  *)
(* An asker is one command; the supernode's answer to it goes by its name. *)
(***************************************************************************)
EXTENDS Sequences

CONSTANTS Askers, NoOne

(* What a client can be told other than an answer *)
Notices == {"nothing", "timed out", "in room", "in progress", "error"}

ASSUME CommandsAssumption == NoOne \notin Askers /\ Askers \cap Notices = {}

VARIABLES
    asker,         \* kind of each command, whether its task waits, what it was told
    commands,      \* the channel to the command loop
    pending,       \* pending_create, pending_join and pending_rooms_query
    in_room,       \* the asker that got the edge into its room
    requests,      \* requests whose answer has not come yet
    lost           \* requests or answers that the network lost

command_vars == <<asker, commands, pending, in_room, requests, lost>>

Slots == {"create", "join", "active"}
Unasked == [kind |-> "none", waiting |-> FALSE, told |-> "nothing"]

CommandsInit ==
    /\ asker = [a \in Askers |-> Unasked]
    /\ commands = <<>>
    /\ pending = [k \in Slots |-> NoOne]
    /\ in_room = NoOne
    /\ requests = {}
    /\ lost = {}

(* reply.send: a task that has given up is told nothing. *)
Told(a, what) ==
    IF asker[a].waiting THEN [asker[a] EXCEPT !.waiting = FALSE, !.told = what] ELSE asker[a]

(* handle_ipc_connection: the command is sent to the loop, with a oneshot for the reply. *)
Ask(a, kind) ==
    /\ asker[a] = Unasked
    /\ asker' = [asker EXCEPT ![a] = [kind |-> kind, waiting |-> TRUE, told |-> "nothing"]]
    /\ commands' = Append(commands, a)
    /\ UNCHANGED <<pending, in_room, requests, lost>>

(* Mutant of wait_for_command_reply: a task that gives up empties its slot. *)
wait_for_command_reply_released(a) ==
    /\ asker[a].waiting
    /\ asker' = [asker EXCEPT ![a] = Told(a, "timed out")]
    /\ pending' = [k \in Slots |-> IF pending[k] = a THEN NoOne ELSE pending[k]]
    /\ UNCHANGED <<commands, in_room, requests, lost>>

(* The 35 seconds are over, wherever the command is; nobody tells the loop. *)
wait_for_command_reply(a) ==
    /\ asker[a].waiting
    /\ asker' = [asker EXCEPT ![a] = Told(a, "timed out")]
    /\ UNCHANGED <<commands, pending, in_room, requests, lost>>

(* send_pending_reply on the given slots *)
send_pending_reply(slots, what) ==
    /\ asker' = [a \in Askers |->
                    IF \E k \in slots : pending[k] = a THEN Told(a, what) ELSE asker[a]]
    /\ pending' = [k \in Slots |-> IF k \in slots THEN NoOne ELSE pending[k]]

(* The command loop takes the first command ... *)
Command == Head(commands)
Take(kinds) ==
    /\ commands # <<>>
    /\ asker[Command].kind \in kinds
    /\ commands' = Tail(commands)

(* ... and refuses it at once: it is in a room, a slot is taken, or an invite is invalid, ... *)
InRoom == asker[Command].kind \in {"create", "join"} /\ in_room # NoOne
Refuse ==
    /\ Take(Slots)
    /\ \E reason \in {"in room", "in progress", "error"} :
        /\ (reason = "in room") <=> InRoom
        /\ reason = "in progress" <=> ~InRoom /\ pending[asker[Command].kind] # NoOne
        /\ reason = "error" => asker[Command].kind = "join"
        /\ asker' = [asker EXCEPT ![Command] = Told(Command, reason)]
    /\ UNCHANGED <<pending, in_room, requests, lost>>

Accepted ==
    /\ Take(Slots)
    /\ ~InRoom
    /\ pending[asker[Command].kind] = NoOne

(* ... or keeps the sender and sends the request, ... *)
SendRequest ==
    /\ Accepted
    /\ pending' = [pending EXCEPT ![asker[Command].kind] = Command]
    /\ requests' = requests \cup {Command}
    /\ UNCHANGED <<asker, in_room, lost>>

(* Mutant of SendRequestFails: the caller is told, the slot stays taken. *)
SendRequestFailsKept ==
    /\ Accepted
    /\ asker' = [asker EXCEPT ![Command] = Told(Command, "error")]
    /\ pending' = [pending EXCEPT ![asker[Command].kind] = Command]
    /\ UNCHANGED <<in_room, requests, lost>>

(* ... which may fail: the sender is taken out of the slot again ... *)
SendRequestFails ==
    /\ Accepted
    /\ asker' = [asker EXCEPT ![Command] = Told(Command, "error")]
    /\ UNCHANGED <<pending, in_room, requests, lost>>

(* ... or leaves the room; an open slot stays as it is. *)
Leave ==
    /\ Take({"leave"})
    /\ in_room' = NoOne
    /\ asker' = [asker EXCEPT ![Command] = Told(Command, Command)]
    /\ UNCHANGED <<pending, requests, lost>>

Lose(a) ==
    /\ a \in requests
    /\ requests' = requests \ {a}
    /\ lost' = lost \cup {a}
    /\ UNCHANGED <<asker, commands, pending, in_room>>

(* RoomCreated or JoinAccept: activate_room may fail, and refuses to replace another room. *)
Entered(a) ==
    LET kind == asker[a].kind IN
    /\ a \in requests /\ kind \in {"create", "join"}
    /\ requests' = requests \ {a}
    /\ \/ in_room = NoOne /\ in_room' = a /\ send_pending_reply({kind}, a)
       \/ in_room' = in_room /\ send_pending_reply({kind}, "error")
    /\ UNCHANGED <<commands, lost>>

(* JoinReject answers the join, Error whatever is pending; RoomsList answers the query. *)
Rejected(a) ==
    /\ a \in requests /\ asker[a].kind \in {"create", "join"}
    /\ requests' = requests \ {a}
    /\ \/ asker[a].kind = "join" /\ send_pending_reply({"join"}, "error")
       \/ send_pending_reply({"create", "join"}, "error")
    /\ UNCHANGED <<commands, in_room, lost>>

RoomsList(a) ==
    /\ a \in requests /\ asker[a].kind = "active"
    /\ requests' = requests \ {a}
    /\ send_pending_reply({"active"}, a)
    /\ UNCHANGED <<commands, in_room, lost>>

CommandsNext ==
    \/ \E a \in Askers, kind \in Slots \cup {"leave"} : Ask(a, kind)
    \/ \E a \in Askers : wait_for_command_reply(a) \/ Lose(a)
    \/ \E a \in Askers : Entered(a) \/ Rejected(a) \/ RoomsList(a)
    \/ Refuse \/ SendRequest \/ SendRequestFails \/ Leave

CommandsSpec == CommandsInit /\ [][CommandsNext]_command_vars

-----------------------------------------------------------------------------

(***************************************************************************)
(* The list of rooms a client is given is the answer to its own query,     *)
(* however late answers come and whoever gave up meanwhile: the frames     *)
(* carry no number, only the slot tells whom they are for.                 *)
(***************************************************************************)
RoomsAnswerIsOwn ==
    \A a \in Askers : asker[a].kind = "active" => asker[a].told \notin Askers \ {a}

(***************************************************************************)
(* A slot is taken only by a command whose request was sent and whose      *)
(* answer is still to come or was lost: failed sends, refusals, errors and *)
(* answers that come after the caller gave up all leave it free.           *)
(***************************************************************************)
SlotsAwaitAnswers ==
    \A k \in Slots : pending[k] # NoOne =>
        asker[pending[k]].kind = k /\ pending[k] \in requests \cup lost

(***************************************************************************)
(* "another rooms query is already in progress" (and the same for rooms    *)
(* created and joined): a command is refused with these words only while   *)
(* another of its kind is under way, that is while its client waits or its *)
(* answer can still come.                                                  *)
(***************************************************************************)
RefusedOnlyInProgress ==
    [][commands # <<>> /\ asker'[Command].told = "in progress" /\ asker[Command].waiting =>
         \E b \in Askers \ {Command} :
            /\ asker[b].kind = asker[Command].kind
            /\ asker[b].waiting \/ b \in requests]_command_vars
=============================================================================
