SPECIFICATION FairSpec
CONSTANTS
    p = p
    q = q
    Supernodes <- MCSupernodes
    Targets = {x}
    Live = {q}
    Mappings = {m}
    None = None
INVARIANTS
    MappingAdvertised
    LatestRegistered
    AddressShown
PROPERTIES
    RotationFindsLive
