SPECIFICATION Spec
CONSTANTS
    Self = self
    Nodes = {p, q}
    Rooms = {a, b}
    Macs = {m, n}
    PacketIds = {1}
    SEEN_FLOOD_CAPACITY = 1
    MAC_TABLE_MAX_ENTRIES = 1
    MaxFloods = 3
    None = None
SYMMETRY MCSymmetry
INVARIANTS
    RecentFloodsOnce
    ForwardsToLastHeard
    WrittenToOwnRoom
