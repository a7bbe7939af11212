SPECIFICATION AdminSpec
CONSTANTS
    Backends = {"SQLite", "PostgreSQL", "ORM"}
    Clients = {x1, x2, x3}
    MaxMutations = 3
    Pruners = {p1, p2}
    Verifiers = {v1}
    AnchorsKept = 1
    MaxEntries = 3
    MaxPrunes = 2
    Workers = {w1}
    Admins = {root, ann}
    Managers = {root}
    Tokens = {t1}
    Requests = {r1, r2}
    MaxMinted = 1
    MaxFailures = 1
    DevicesKept = 1
    MaxDrawn = 3
    MaxReboots = 2
    Contents = {c1}
    Edits = {e1, e2}
    Bodies <- Body
    MaxRevisions = 2
    MaxMishaps = 2
    Files = {f1}
    Servers = {srv1, srv2}
    TotalSize = 4
    MaxChunk = 2
    Members = {q1, q2}
    MaxPublished = 2
    MaxSendFaults = 1
    Enforcers = {u1, u2}
    MaxPolicies = 2
    MaxTroubles = 1
    Publishers = {b1, b2}
    LockTtl = 2
CHECK_DEADLOCK FALSE
INVARIANTS
    AdminTypeOK
    RevocationHolds
    TrailIsSound
    MutationsKept
    CredentialsEnd
    UploadIsWhole
    RoomHearsOnce
    PolicyArrives
    OnePublisher
PROPERTIES
    LiveNeedsPermission
