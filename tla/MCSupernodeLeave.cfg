SPECIFICATION Spec
CONSTANTS
    NodeIds = {n1, n2}
    Addrs = {a1, a2}
    RoomIds = {r1, r2}
    Tokens = {t1}
    LastHost = 2
    RoomCount = 2
    LocalNets <- MCLocalNets
    FallbackCidr = 2
    None = None
PROPERTIES EmptiedRoomEnds
