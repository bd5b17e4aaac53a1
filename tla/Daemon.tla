------------------------------- MODULE Daemon -------------------------------
(***************************************************************************)
(* Starting the programs of one machine: the edge daemon, by hand or by a  *)
(* command line client that finds none (crates/r2n-cli), and a supernode   *)
(* (apps/supernode).  They share config.toml, which each reads, changes    *)
(* and writes back without a lock (crates/r2n-config); the daemons share   *)
(* the IPC socket's path, and a UDP port if one is configured.  Any of     *)
(* them may fail or be killed between two steps.                           *)
(***************************************************************************)
EXTENDS Integers

CONSTANTS
    Daemons,        \* daemon processes
    Clis,           \* invocations of the command line client
    Supernode,      \* the supernode's process
    Missing,        \* no file, no section, no socket
    MaxIds          \* bound on the random identities drawn

VARIABLES
    file,           \* config.toml: its sections, or Missing
    prog,           \* the processes
    socket,         \* the daemon whose listener is at the IPC path
    cli,
    ids,            \* identities drawn so far
    kept,           \* history: the sections that were written, the first identity among them
    contended       \* history: two programs used the file at once, or one died writing;
                    \* what was kept is forgotten then

daemon_vars == <<file, prog, socket, cli, ids, kept, contended>>

Programs == Daemons \cup {Supernode}
Edge(id, port) == [id |-> id, port |-> port]      \* id 0: not in the file
Empty == [edge |-> Missing, supernode |-> Missing]
Edges == [id: Nat, port: {"any", "fixed"}]
Sections == [edge: Edges \cup {Missing}, supernode: {"section", Missing}]

ASSUME DaemonAssumption ==
    /\ Supernode \notin Daemons
    /\ Missing \notin Daemons \cup Edges \cup Sections \cup {"section"}
    /\ MaxIds \in Nat

(***************************************************************************)
(* The files at the start.  One without sections is read as the edge's,    *)
(* and so is an old supernode's: every field of EdgeConfig has a default.  *)
(* The supernode still starts with its settings then, but they are no      *)
(* section, and the edge's next save drops them.                           *)
(***************************************************************************)
ConfigFiles ==
    {Missing, [Empty EXCEPT !.supernode = "section"]}
        \cup {[Empty EXCEPT !.edge = Edge(0, port)] : port \in {"any", "fixed"}}

Off == [pc |-> "off", conf |-> Missing, shared |-> Missing, then |-> "off", runs |-> Missing, due |-> 0]

DaemonInit ==
    /\ file \in ConfigFiles
    /\ kept = IF file = Missing THEN Empty ELSE file
    /\ prog = [p \in Programs |-> Off]
    /\ socket = Missing
    /\ cli = [c \in Clis |-> [stage |-> "idle", daemon |-> Missing]]
    /\ ids = 0
    /\ contended = FALSE

Alive(p) == prog[p].pc \notin {"off", "dead"}
Bound(d) == Alive(d) /\ prog[d].runs # Missing       \* it has its UDP socket
Floating(p) == prog[p].runs # Missing /\ prog[p].runs.port = "any"
Dead(p) ==
    [prog EXCEPT ![p] = [Off EXCEPT !.pc = "dead",
                                    !.runs = IF Floating(p) THEN Edge(0, "any") ELSE Missing]]
Go(p, pc) == prog' = [prog EXCEPT ![p].pc = pc]

(* default_node_id and default_private_key fill in what a section does not have. *)
EdgeSection(content) == content # Missing /\ content.edge # Missing
HasId(content) == EdgeSection(content) /\ content.edge.id # 0
Parsed(section) == IF section.id = 0 THEN Edge(ids + 1, section.port) ELSE section
Drawn(content) == IF HasId(content) THEN ids ELSE ids + 1

(* EdgeConfig::load; without a section, the file is read as one that has only defaults *)
load(content) == IF EdgeSection(content) THEN Parsed(content.edge) ELSE Edge(ids + 1, "any")

-----------------------------------------------------------------------------

(* r2n daemon, run by hand, or the supernode's main *)
Start(p) ==
    /\ prog[p].pc = "off"
    /\ Go(p, "load")
    /\ UNCHANGED <<file, socket, cli, ids, kept, contended>>

Keep(sections, contending) ==
    /\ contended' = (contended \/ contending)
    /\ kept' = IF contended' THEN Empty ELSE sections

(* Someone else is about to fill the file. *)
Truncated(p) == \E q \in Programs \ {p} : prog[q].pc = "write"

(* load_or_create of the daemon: a file that is missing is created. *)
load_or_create(d, then) ==
    /\ Drawn(file) <= MaxIds
    /\ prog' = [prog EXCEPT
            ![d].pc = IF file = Missing THEN "save" ELSE then,
            ![d].conf = load(file),
            ![d].then = then,
            ![d].due = IF ~Bound(d) /\ HasId(kept) THEN kept.edge.id ELSE @]
    /\ ids' = Drawn(file)
    /\ Keep(kept, Truncated(d))
    /\ UNCHANGED <<file, socket, cli>>

Load(d) == prog[d].pc = "load" /\ load_or_create(d, "args")

(* main of the supernode: only a missing file makes it save its defaults. *)
LoadSupernode ==
    /\ prog[Supernode].pc = "load"
    /\ prog' = [prog EXCEPT ![Supernode].pc = IF file = Missing THEN "save" ELSE "up",
                            ![Supernode].then = "up"]
    /\ Keep(kept, Truncated(Supernode))
    /\ UNCHANGED <<file, socket, cli, ids>>

(* save: load_shared_config_if_present; the own section of it will be replaced, ... *)
SaveRead(p) ==
    /\ prog[p].pc = "save"
    /\ prog' = [prog EXCEPT ![p].pc = "truncate",
            ![p].shared = IF file = Missing THEN Missing
                          ELSE IF p # Supernode THEN file.supernode
                          ELSE IF EdgeSection(file) THEN load(file) ELSE Missing]
    /\ ids' = IF p = Supernode /\ EdgeSection(file) THEN Drawn(file) ELSE ids
    /\ ids' <= MaxIds
    /\ Keep(kept, Truncated(p))
    /\ UNCHANGED <<file, socket, cli>>

(* ... and fs::write, which truncates the file ... *)
SaveTruncate(p) ==
    /\ prog[p].pc = "truncate"
    /\ Go(p, "write")
    /\ file' = Empty
    /\ UNCHANGED <<socket, cli, ids, kept, contended>>

(* Mutant of Merged: the file is written from the own section alone. *)
MergedAlone(p) ==
    IF p = Supernode THEN [Empty EXCEPT !.supernode = "section"]
    ELSE [Empty EXCEPT !.edge = prog[p].conf]

Merged(p) ==
    IF p = Supernode THEN [edge |-> prog[p].shared, supernode |-> "section"]
    ELSE [edge |-> prog[p].conf, supernode |-> prog[p].shared]

Remembered(content) ==
    [edge |-> IF HasId(kept) THEN kept.edge
              ELSE IF EdgeSection(kept) /\ EdgeSection(content)
                   THEN [kept.edge EXCEPT !.id = content.edge.id]
              ELSE IF EdgeSection(kept) THEN kept.edge ELSE content.edge,
     supernode |-> IF kept.supernode # Missing THEN kept.supernode ELSE content.supernode]

(* ... and writes it; who holds what was read before will write that back. *)
SaveWrite(p) ==
    /\ prog[p].pc = "write"
    /\ prog' = [prog EXCEPT ![p].pc = prog[p].then, ![p].shared = Missing,
                            ![p].conf = IF prog[p].then = "up" THEN Missing ELSE @]
    /\ file' = Merged(p)
    /\ Keep(Remembered(Merged(p)),
            \E q \in Programs \ {p} : prog[q].pc \in {"args", "switch", "save", "truncate", "write"})
    /\ UNCHANGED <<socket, cli, ids>>

(* Arguments that differ from the configuration are saved to it; then Edge::new. *)
Args(d) ==
    /\ prog[d].pc = "args"
    /\ \E pc \in {"save", "bind"} :
        prog' = [prog EXCEPT ![d].pc = pc, ![d].then = "bind"]
    /\ UNCHANGED <<file, socket, cli, ids, kept, contended>>

-----------------------------------------------------------------------------

PortTaken(d) ==
    prog[d].conf.port = "fixed" /\ \E e \in Daemons : Bound(e) /\ prog[e].runs.port = "fixed"

(* Mutant of bind: the socket shares the port of another process. *)
bind_reusing(d) ==
    /\ prog[d].pc = "bind"
    /\ prog' = [prog EXCEPT ![d].pc = "unlink", ![d].runs = prog[d].conf,
                                   ![d].conf = Missing]
    /\ UNCHANGED <<file, socket, cli, ids, kept, contended>>

(* Edge::new: UdpTransport::bind, on any free port or on the configured one *)
bind(d) ==
    /\ prog[d].pc = "bind"
    /\ prog' = IF PortTaken(d) THEN Dead(d)
               ELSE [prog EXCEPT ![d].pc = "unlink", ![d].runs = prog[d].conf,
                                   ![d].conf = Missing]
    /\ UNCHANGED <<file, socket, cli, ids, kept, contended>>

(* Edge::run, spawn_ipc_server: whatever is at the path is removed, ... *)
Unlink(d) ==
    /\ prog[d].pc = "unlink"
    /\ Go(d, "listen")
    /\ socket' = Missing
    /\ UNCHANGED <<file, cli, ids, kept, contended>>

(* ... and a listener bound there, unless another daemon was faster. *)
Listen(d) ==
    /\ prog[d].pc = "listen"
    /\ IF socket = Missing THEN socket' = d /\ prog' = [prog EXCEPT ![d].pc = "up", ![d].then = "up"]
       ELSE socket' = socket /\ prog' = Dead(d)
    /\ UNCHANGED <<file, cli, ids, kept, contended>>

(* SwitchSupernode writes the new default to the file, unless it is the default already. *)
Switch(d) ==
    /\ prog[d].pc = "up"
    /\ load_or_create(d, "switch")

SwitchSave(d) ==
    /\ prog[d].pc = "switch"
    /\ \/ prog' = [prog EXCEPT ![d].pc = "save", ![d].then = "up"]
       \/ prog' = [prog EXCEPT ![d].pc = "up", ![d].then = "up", ![d].conf = Missing]
    /\ UNCHANGED <<file, socket, cli, ids, kept, contended>>

(* An error, a stop or a kill; the socket's file stays, and so does a truncated config.toml. *)
Ended(p) ==
    /\ prog' = Dead(p)
    /\ Keep(kept, prog[p].pc = "write")

Exit(p) ==
    /\ Alive(p)
    /\ Ended(p)
    /\ UNCHANGED <<file, socket, cli, ids>>

-----------------------------------------------------------------------------

Up(d) == Alive(d) /\ (prog[d].pc = "up" \/ prog[d].then \in {"switch", "up"})
Listening == socket # Missing /\ Alive(socket)
Stage(c, stage, d) == cli' = [cli EXCEPT ![c] = [stage |-> stage, daemon |-> d]]

(* send_command connects, or else spawns a daemon (but not in order to stop it), ... *)
Connect(c) ==
    /\ cli[c].stage = "idle"
    /\ \/ Listening /\ Stage(c, "sent", socket) /\ UNCHANGED prog
       \/ ~Listening /\ Stage(c, "done", Missing) /\ UNCHANGED prog
       \/ /\ ~Listening
          /\ \E d \in Daemons : prog[d].pc = "off" /\ Go(d, "load") /\ Stage(c, "boot", Missing)
    /\ UNCHANGED <<file, socket, ids, kept, contended>>

(* ... for which it polls 15 times, ... *)
Poll(c) ==
    /\ cli[c].stage = "boot"
    /\ \/ Listening /\ Stage(c, "sent", socket)
       \/ Stage(c, "done", Missing)
    /\ UNCHANGED <<file, prog, socket, ids, kept, contended>>

(* ... sends its command, and gets an answer or an error; after a stop the daemon exits. *)
AnswerCli(c) ==
    /\ cli[c].stage = "sent"
    /\ Stage(c, "done", Missing)
    /\ \/ UNCHANGED <<prog, kept, contended>>
       \/ Alive(cli[c].daemon) /\ Ended(cli[c].daemon)
    /\ UNCHANGED <<file, socket, ids>>

DaemonNext ==
    \/ \E p \in Programs : Start(p) \/ SaveRead(p) \/ SaveTruncate(p) \/ SaveWrite(p) \/ Exit(p)
    \/ LoadSupernode
    \/ \E d \in Daemons : Load(d) \/ Args(d) \/ bind(d) \/ Unlink(d) \/ Listen(d)
    \/ \E d \in Daemons : Switch(d) \/ SwitchSave(d)
    \/ \E c \in Clis : Connect(c) \/ Poll(c) \/ AnswerCli(c)

DaemonSpec == DaemonInit /\ [][DaemonNext]_daemon_vars

-----------------------------------------------------------------------------

(***************************************************************************)
(* With one UDP port for all, a daemon that is up stays reachable: another *)
(* that is started while it runs, by hand or by a client that polled too   *)
(* early, ends before it unlinks the IPC socket.  (With local_udp_port 0,  *)
(* the default, it takes the socket over and the first one runs on alone.) *)
(***************************************************************************)
PortGuardsSocket ==
    (\A d \in Daemons : ~Floating(d))
        => \A d \in Daemons : Up(d) => socket = d

(***************************************************************************)
(* Unless two programs use config.toml at once, or one dies while writing  *)
(* it, a section that was saved stays, the edge's identity and port with   *)
(* it, and every daemon that is started later runs under this identity.    *)
(***************************************************************************)
ConfigSurvives ==
    ~contended =>
        /\ (\A p \in Programs : prog[p].pc # "write") =>
            /\ kept.supernode # Missing => file.supernode = kept.supernode
            /\ EdgeSection(kept) => EdgeSection(file) /\ file.edge = kept.edge
        /\ \A d \in Daemons : Bound(d) /\ prog[d].due # 0 => prog[d].runs.id = prog[d].due
=============================================================================
