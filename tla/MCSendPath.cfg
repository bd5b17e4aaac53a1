SPECIFICATION MCSpec
CONSTANTS
    Tasks = {tun, ping, udp}
    Slots = {s1, s2, s3}
    BulkCapacity = 2
    NoSlot = NoSlot
    RelayFrames = {f1, f2, f3}
    RelaySlots = {r1, r2}
    RelayNodes = {n}
    RelayAddrs = {a1, a2}
    Nothing = Nothing
SYMMETRY MCSymmetry
INVARIANTS SlotHasOneOwner FramesIntact QueuesBounded RelaysIntact
CHECK_DEADLOCK FALSE
