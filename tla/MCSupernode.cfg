SPECIFICATION Spec
CONSTANTS
    NodeIds = {n1, n2}
    Addrs = {a1, a2}
    RoomIds = {r1, r2}
    Tokens = {t1, t2}
    LastHost = 2
    RoomCount = 1
    LocalNets <- MCLocalNets
    FallbackCidr = 1
    None = None
SYMMETRY MCSymmetry
INVARIANTS TypeOK LeasesSound PoolBacksRooms AnnouncesTable
PROPERTIES LeaseStable
