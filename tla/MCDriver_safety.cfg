CONSTANTS
    s1 = s1  s2 = s2  x1 = x1  x2 = x2  NoSignal = NoSignal  NoProc = NoProc
    Procs = {x1, x2}
    Drivers = {"sqlite", "postgres"}
    Policy <- Mixed
    Tampers = {}
    MaxFaults = 4
    MaxEdits = 1
    Inputs = 2
    MaxChanges = 2
    MaxTries = 2
    MoveBack = FALSE
    Faults = {"signal", "fatal", "call"}
    Parts = {"row", "chatter", "interrupted", "watch", "migrate", "tampered"}
CHECK_DEADLOCK FALSE
SPECIFICATION DriverSpec
SYMMETRY Symmetric
INVARIANTS
    RowsRight
    SignalsArbitrated
    WatchRight
    HistoryTrue
