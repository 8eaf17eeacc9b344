CONSTANTS
    t1 = t1  t2 = t2  p1 = p1  p2 = p2  p3 = p3  c1 = c1
    NoPid = NoPid  Us = Us  Pid1 = Pid1  None = None
    Workers = {t1, t2}
    Caller = caller
    MaxGens = 1
    MaxTasks = 2
    Pool = {t1, t2}
    Calling = caller
    Counts = {1, 3}
    IN_STRIDE = 8
    OUT_STRIDE = 8
    WORK_WEIGHT = 1
    ResultMod = 4
    RegisterMod = 8
    MaxPasses = 2
    PAR_MIN_CHUNK = 1
    PAR_MAX_WORK_WEIGHT = 4
    Parts = {"tasks", "batch", "par", "tree"}
CHECK_DEADLOCK FALSE
SPECIFICATION RtFairSpec
PROPERTIES
    TasksProgress
    CallReturns
    DropReturns
