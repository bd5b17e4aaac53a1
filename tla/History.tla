------------------------------- MODULE History -------------------------------
(***************************************************************************)
(* The rooms an edge has been in (history.json, crates/r2n-edge-lib).  The *)
(* UDP task adds a room when it is entered, and the tasks of local clients *)
(* delete and rename entries: each reads the file, changes its copy and    *)
(* writes the file anew, on threads of their own and without a lock, and   *)
(* the edge may die at any step.  A file that cannot be parsed counts as   *)
(* empty.                                                                  *)
(***************************************************************************)
EXTENDS Lists

CONSTANTS
    HistoryTasks,
    HistoryRooms,
    GivenName,        \* the name a room has at the supernode
    RoomNames,        \* names it may be given here
    Clock,            \* what the system's clock may show, also earlier than before
    MaxHistory,       \* 20
    MaxSaves          \* bound on the entries added

ASSUME HistoryAssumption == Clock \subseteq Int /\ MaxHistory \in Nat

VARIABLES
    history,          \* the file's items; <<>> if it is missing or being written
    task,             \* each task: its copy, and (history) what the file should hold then
    whole,            \* history: what the file held when it was last whole, or after a crash
    adds,
    overlapped        \* history: a task read or wrote the file while another had its copy,
                      \* and they are not done yet

history_vars == <<history, task, whole, adds, overlapped>>

NoCopy == [pc |-> "idle", items |-> <<>>, asked |-> {}]

HistoryInit ==
    /\ history = <<>>
    /\ task = [t \in HistoryTasks |-> NoCopy]
    /\ whole = <<>>
    /\ adds = 0
    /\ overlapped = FALSE

Without(items, room) == Picked(items, {i \in DOMAIN items : items[i].room_id # room})
Busy(t) == \E u \in HistoryTasks \ {t} : task[u].pc # "idle"

(* load_history, and a change of the copy that is to be saved *)
Changed(t, items, asked) ==
    /\ task[t].pc = "idle"
    /\ task' = [task EXCEPT ![t] = [pc |-> "save", items |-> items, asked |-> Range(asked)]]
    /\ overlapped' = (overlapped \/ Busy(t))
    /\ UNCHANGED <<history, whole>>

WithItem(items, item) == Append(Without(items, item.room_id), item)

add_to_history(t, item) ==
    /\ adds < MaxSaves /\ adds' = adds + 1
    /\ Changed(t, WithItem(history, item), WithItem(whole, item))

Listed(room) == \E i \in DOMAIN history : history[i].room_id = room

(* delete_history and update_history_name answer with an error if the room is not found. *)
delete_history(t, room) ==
    /\ Listed(room)
    /\ Changed(t, Without(history, room), Without(whole, room))
    /\ UNCHANGED adds

Renamed(items, room, name) ==
    [i \in DOMAIN items |->
        IF items[i].room_id = room THEN [items[i] EXCEPT !.name = name] ELSE items[i]]

update_history_name(t, room, name) ==
    /\ Listed(room)
    /\ Changed(t, Renamed(history, room, name), Renamed(whole, room, name))
    /\ UNCHANGED adds

(* sort_by_key with Reverse: the latest first *)
Sorted(items) == SortedDown(items, [i \in DOMAIN items |-> items[i].last_joined])

(* Mutant of save_history: cut before it is sorted *)
save_history_cut(items) == Sorted(FirstOf(items, MaxHistory))

save_history(items) == FirstOf(Sorted(items), MaxHistory)

(* fs::write truncates the file ... *)
SaveOpen(t) ==
    /\ task[t].pc = "save"
    /\ task' = [task EXCEPT ![t].pc = "write", ![t].items = save_history(@)]
    /\ history' = <<>>
    /\ overlapped' = (overlapped \/ Busy(t))
    /\ UNCHANGED <<whole, adds>>

(* ... and writes it. *)
SaveFill(t) ==
    /\ task[t].pc = "write"
    /\ task' = [task EXCEPT ![t] = NoCopy]
    /\ history' = task[t].items
    /\ whole' = history'
    /\ overlapped' = Busy(t)
    /\ UNCHANGED adds

(* The edge dies, perhaps with the file truncated, and starts again. *)
Restart ==
    /\ task' = [t \in HistoryTasks |-> NoCopy]
    /\ whole' = history
    /\ overlapped' = FALSE
    /\ UNCHANGED <<history, adds>>

HistoryItems == [room_id: HistoryRooms, name: {GivenName}, last_joined: Clock]

HistoryNext ==
    \/ \E t \in HistoryTasks :
          \/ \E item \in HistoryItems : add_to_history(t, item)
          \/ \E room \in HistoryRooms : delete_history(t, room)
          \/ \E room \in HistoryRooms, name \in RoomNames : update_history_name(t, room, name)
          \/ SaveOpen(t)
          \/ SaveFill(t)
    \/ Restart

HistorySpec == HistoryInit /\ [][HistoryNext]_history_vars

-----------------------------------------------------------------------------

(***************************************************************************)
(* A save that no other task meets changes what was asked for and keeps    *)
(* the rest of what the file held, each room once, also after saves that   *)
(* met and after a crash.  Entries are left out only of a full history,    *)
(* and they are no later than any entry that stays.  (A room entered after *)
(* the clock was set back may be left out of it.)                          *)
(***************************************************************************)
LatestKept ==
    [][\A t \in HistoryTasks : SaveFill(t) /\ ~overlapped =>
         LET asked == task[t].asked
             stays == Range(history')
         IN  /\ stays \subseteq asked
             /\ \A i, j \in DOMAIN history' : history'[i].room_id = history'[j].room_id => i = j
             /\ stays # asked => Len(history') = MaxHistory
             /\ \A gone \in asked \ stays, item \in stays :
                    gone.last_joined <= item.last_joined]_history_vars
==============================================================================
