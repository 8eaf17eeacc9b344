CONSTANTS
    t1 = t1  t2 = t2  p1 = p1  p2 = p2  p3 = p3  c1 = c1  c2 = c2
    Nobody = Nobody  NoPid = NoPid  Us = Us  Pid1 = Pid1  None = None
    Clients = {t1, t2}
    Handlers = {p1, p2}
    NumSignals = 2
    GENERATION_MAX = 2
    Handles = {c1, c2}
    Scopes = {t1, t2}
    Pids = {p1, p2}
    MaxForks = 1
    MaxThefts = 1
    Conns = {p1, p2, p3}
    Capacity = 2
    Parts = {"signals", "procs", "dbpool"}
CHECK_DEADLOCK FALSE
SPECIFICATION ResSpec
SYMMETRY Symmetric
INVARIANTS LeaseExact PoolSound
PROPERTY ScopesExclusive
