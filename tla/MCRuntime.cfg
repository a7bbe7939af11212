SPECIFICATION RuntimeSpec
CONSTANTS
    Sockets = {s1, s2}
    MaxListeners = 2
    MaxMessages = 2
    MaxFaults = 1
    Peers = {peer1, peer2}
    Patience = 2
    MaxPongs = 1
    MaxStops = 2
    Limit = 2
    WindowSeconds = 2
    TicksPerSecond = 3
    MaxAttempts = 3
    Contexts = 2
    Handlers = 2
    Plugins = 2
    MaxBoots = 3
    Callers = {k1, k2}
    DefaultTtl = 1
    MaxVersions = 2
    MaxClock = 3
    MaxExpiry = 6
    Versions = {1, 2, 3}
    Guarded = {2}
    Statements = 2
    Runners = {n1, n2}
    Templates <- MCTemplates
    Methods = {"GET", "POST"}
    Paths <- MCPaths
    Included <- MCIncluded
    SourcePrefix <- MCSourcePrefix
    Mounts <- MCMounts
    MaxRoutes = 3
    Stacks <- MCStacks
    MinimumSize = 2
    MaxBody = 1
    MaxSize = 2
    Callbacks = {g1, g2}
    Priorities = {0, 1}
    Dispatches = {d1}
    MaxRegistrations = 3
    Contents = {c1, c2}
    Edits = {e1}
    Bodies <- MCBodies
    MaxRevisions = 2
    MaxMishaps = 1
CHECK_DEADLOCK FALSE
INVARIANTS
    RuntimeTypeOK
    SocketsAreServed
    NothingKept
    LimitsHold
    ContextsAreClosed
    DeletedStaysAway
    SchemaMatchesRecords
    MatchIsBest
    AnsweredOnce
    EachListenerHears
PROPERTIES
    Delivered
    BeatsEnd
    DueIsPublished
