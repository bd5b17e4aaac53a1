SPECIFICATION MCSpec
CONSTANTS
    W = 4
    MaxNonce = 9
    Builds = {"debug", "release"}
    n1 = n1
    Clients = {c1, c2}
    NewRules <- MCNewRules
    Networks <- MCNetworks
    RateLimit = 1
    NoPort = NoPort
    Anywhere = Anywhere
    Ends = {a, b}
    MaxPunches = 2
    Askers = {a1, a2, a3}
    NoOne = NoOne
    ListFiles <- MCListFiles
    Hosts = {"x", "y"}
    Resolve <- MCResolve
    Elsewhere = Elsewhere
    Blank = Blank
    HistoryTasks = {t1, t2}
    HistoryRooms = {r1, r2}
    GivenName = n
    RoomNames = {m}
    Clock = {1, 2}
    MaxHistory = 1
    MaxSaves = 3
    MaxPort = 7
    Forward = 2
    Window = 1
    MaxDelta = 2
    TopServers = 3
    MaxPairs = 6
    Interfaces <- MCInterfaces
    Mappings = {5}
    RemoteCandidates <- MCRemoteCandidates
    NoAddr = NoAddr
    RequestedLease = 12
    MinRenew = 5
    Retry = 7
    Lifetimes = {0, 2, 8, 9}
    Patience <- MCPatience
    LocalPort = 1
    OtherPort = 2
    NoMapping = NoMapping
    Byte = 8
    Mtu = 50
    Headers = {40, 44}
    OptionLists <- MCOptionLists
    Payloads <- MCPayloads
    Pseudo = {0, 63}
    Daemons = {d1, d2}
    Clis = {k1}
    Supernode = Supernode
    Missing = Missing
    MaxIds = 2
SYMMETRY MCSymmetry
INVARIANTS
    EditsKept
    LateAtMostOne
    FloodsRouted
    OwnKeyWasRead
    RoomsAnswerIsOwn
    SlotsAwaitAnswers
    RotationCovers
    NextPortsPredicted
    PunchesMeet
    RenewedInTime
    LapsedWithdrawn
    ClampsTheList
    ChecksumsVerify
    PortGuardsSocket
    ConfigSurvives
PROPERTIES
    DeliversAtMostOnce
    LatestKept
