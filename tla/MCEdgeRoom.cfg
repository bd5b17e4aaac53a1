SPECIFICATION Spec
CONSTANTS
    g1 = g1
    g2 = g2
    n1 = n1
    n2 = n2
    Grants <- MCAnyNet
    Peers = {p1}
    OsErrors = {"name", "route"}
    MaxInflight = 1
    NoRoom = NoRoom
    NoNet = NoNet
SYMMETRY MCSymmetry
CHECK_DEADLOCK FALSE
INVARIANTS WiredInTurn TablesAgree
PROPERTIES RoomNeverReplaced LeaveHeals
