SPECIFICATION Spec
CONSTANTS
    g1 = g1
    g2 = g2
    n1 = n1
    n2 = n2
    Grants <- MCTwoRooms
    Peers = {}
    OsErrors = {}
    MaxInflight = 1
    NoRoom = NoRoom
    NoNet = NoNet
CHECK_DEADLOCK FALSE
INVARIANTS WiredAtomically
