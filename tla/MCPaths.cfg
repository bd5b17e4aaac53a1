SPECIFICATION FairSpec
CONSTANTS
    Relay = relay
    Addrs = {a,b}
    MaxScore = 2
    MaxPending = 1
PROPERTIES
    MovesToFresh
    DeadPathIsLeft
