CONSTANTS
    p1 = p1  p2 = p2  t3 = t3  t4 = t4  k1 = k1  k2 = k2  o1 = o1  o2 = o2  f1 = f1  f2 = f2
    NoDriver = NoDriver  NoDigest = NoDigest  Garbage = Garbage  Torn = Torn  NoKey = NoKey
    Procs = {p1, p2}
    Keys = {k1, k2}
    Packaged = {k1}
    Incomplete = {k1, k2}
    Drivers = {p1, p2}
    ObjectKeys = {k1, k2}
    Digests = {o1, o2}
    Objects <- BuildObjects
    PhaseKeys = {k2}
    PackagedAction <- BuildPackagedAction
    PackagedBlob <- BuildPackagedBlob
    MaxFaults = 2
    Threads = {p1, p2, t3, t4}
    EmitKeys = {k1, k2}
    Paths = {f1, f2}
    Assignments <- BuildAssignments
    Charge <- BuildCharge
    Budgets = {2, 3}
    Others = {1}
    MaxRuns = 3
    N = 3
    Jobs = 3
    Verdicts = {"ok", "err", "panic"}
    Kinds = {"hit", "fresh", "reused", "stale", "keyerr"}
    Setups = {"ok", "stage", "pgo", "target"}
    FrontMayFail = TRUE
    SpawnMayFail = TRUE
    Calls = {p1, p2}
    Streams = {"out", "err"}
    Chunks = 3
    PipeCap = 1
    Tools = 2
    MaxWrites = 3
    Foreign = 2
    Faults = TRUE
    ReadsFail = TRUE
    MAX_UNPERSISTED_REJECTIONS = 1
    Parts = {"unit", "object", "memo", "shared", "pipeline", "failing", "callers", "pump", "isolate"}
SPECIFICATION BuildSpec
SYMMETRY Symmetric
INVARIANTS
    TypeOK
    NoReachableAction
    OwnRejectionSticks
    NoRevokedHit
    ObjectsRight
    MemoRight
    Charged
    PipelineRight
    LinkRight
