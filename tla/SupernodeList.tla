---------------------------- MODULE SupernodeList ----------------------------
(***************************************************************************)
(* The list of supernodes a daemon rotates through: from config.toml       *)
(* (EdgeConfig::normalize), through the daemon's argument and the resolver *)
(* (crates/r2n-cli), to Edge::supernodes and the watchdog's way around it  *)
(* (crates/r2n-edge-lib).                                                  *)
(***************************************************************************)
EXTENDS Lists

CONSTANTS
    ListFiles,     \* contents of the file: [default_supernode, supernodes]
    Hosts,         \* names of supernodes
    Resolve,       \* their addresses
    Elsewhere,     \* an address outside of the list that a user may switch to
    Blank          \* a name of white space

Names == DOMAIN Resolve \cup {Blank}

ASSUME ListAssumption ==
    /\ Hosts \subseteq DOMAIN Resolve
    /\ \A conf \in ListFiles : conf \in [default_supernode: Names, supernodes: Seq(Names)]

VARIABLES
    list_stage,
    list_conf,     \* EdgeConfig's default_supernode and supernodes
    configured,    \* history: the names the user gave
    supernodes,    \* Edge::supernodes
    current,       \* supernode_addr_shared
    tried,         \* history: addresses in use since the last switch
    rotations      \* history: rotations since then

list_vars == <<list_stage, list_conf, configured, supernodes, current, tried, rotations>>

ListInit ==
    /\ list_stage = "file"
    /\ list_conf \in ListFiles
    /\ configured = ({list_conf.default_supernode} \cup Range(list_conf.supernodes)) \ {Blank}
    /\ supernodes = <<>>
    /\ current = Elsewhere
    /\ tried = {}
    /\ rotations = 0

(* The entries other than one *)
Others(list, entry) == Picked(list, {i \in DOMAIN list : list[i] # entry})

(* EdgeConfig::normalize: no blank names, the default in the list, and a default if it can be *)
normalize(conf) ==
    LET named == Others(conf.supernodes, Blank)
        listed == IF conf.default_supernode \in {Blank} \cup Range(named) THEN named
                  ELSE <<conf.default_supernode>> \o named
    IN  [default_supernode |-> IF conf.default_supernode = Blank /\ listed # <<>>
                               THEN listed[1] ELSE conf.default_supernode,
         supernodes |-> listed]

(* Mutant of overridden: the argument is the only supernode. *)
overridden_alone(conf, name) ==
    IF name = conf.default_supernode THEN conf
    ELSE [default_supernode |-> name, supernodes |-> <<name>>]

(* The daemon's argument becomes the default, and is listed if it was not. *)
overridden(conf, name) ==
    IF name = conf.default_supernode THEN conf
    ELSE [default_supernode |-> name,
          supernodes |-> IF name \in Range(conf.supernodes) THEN conf.supernodes
                         ELSE <<name>> \o conf.supernodes]

(* Each name is looked up, the default first; its address is in the list in any case.  All *)
(* names have an address: a lookup that fails ends the daemon before it runs.              *)
resolved(conf) ==
    LET primary == Resolve[conf.default_supernode]
        addrs == [i \in DOMAIN conf.supernodes |-> Resolve[conf.supernodes[i]]]
    IN  IF primary \in Range(addrs) THEN addrs ELSE <<primary>> \o addrs

(* Vec::dedup: of equal neighbours, the first *)
dedup(list) == Picked(list, {i \in DOMAIN list : i = 1 \/ list[i] # list[i - 1]})

normalize_supernodes(primary, list) ==
    dedup(<<primary>> \o Others(list, primary))

(* next_supernode_after: by the first position of the address *)
Position(list, a) == CHOOSE i \in DOMAIN list : list[i] = a /\ \A j \in 1 .. i - 1 : list[j] # a
NextIn(list, a) ==
    IF Len(list) <= 1 THEN a
    ELSE IF a \in Range(list) THEN list[(Position(list, a) % Len(list)) + 1]
    ELSE list[1]

-----------------------------------------------------------------------------

ListLoad ==
    /\ list_stage = "file"
    /\ list_stage' = "loaded"
    /\ list_conf' = normalize(list_conf)
    /\ UNCHANGED <<configured, supernodes, current, tried, rotations>>

(* The daemon starts; without any name the lookup fails and it does not. *)
ListStart(name) ==
    /\ list_stage = "loaded" /\ name # Blank
    /\ list_stage' = "running"
    /\ list_conf' = overridden(list_conf, name)
    /\ configured' = configured \cup {name}
    /\ current' = Resolve[name]
    /\ supernodes' = normalize_supernodes(Resolve[name], resolved(list_conf'))
    /\ tried' = {Resolve[name]}
    /\ UNCHANGED rotations

(* The watchdog, the supernode being silent *)
Rotate ==
    /\ list_stage = "running" /\ rotations < Len(supernodes)
    /\ current' = NextIn(supernodes, current)
    /\ tried' = tried \cup {current'}
    /\ rotations' = rotations + 1
    /\ UNCHANGED <<list_stage, list_conf, configured, supernodes>>

SwitchTo(addr) ==
    /\ list_stage = "running"
    /\ current' = addr
    /\ tried' = {addr}
    /\ rotations' = 0
    /\ UNCHANGED <<list_stage, list_conf, configured, supernodes>>

ListNext ==
    \/ ListLoad
    \/ \E name \in Hosts \cup {list_conf.default_supernode} : ListStart(name)
    \/ Rotate
    \/ \E addr \in {Resolve[n] : n \in Hosts} \cup {Elsewhere} : SwitchTo(addr)

ListSpec == ListInit /\ [][ListNext]_list_vars

-----------------------------------------------------------------------------

(***************************************************************************)
(* As many rotations as the list is long try every supernode that the file *)
(* or the argument names.  Not so after a switch away from a list of one,  *)
(* nor when the list has an address twice: dedup removes neighbours only,  *)
(* and the way around such a list goes back to the address's first place.  *)
(***************************************************************************)
RotationCovers ==
    (/\ list_stage = "running" /\ rotations = Len(supernodes)
     /\ Len(supernodes) > 1 \/ current \in Range(supernodes)
     /\ IsInjective(supernodes))
        => {Resolve[n] : n \in configured} \subseteq tried
==============================================================================
