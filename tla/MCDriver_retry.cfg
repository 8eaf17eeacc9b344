CONSTANTS
    s1 = s1  s2 = s2  x1 = x1  x2 = x2  NoSignal = NoSignal  NoProc = NoProc
    Procs = {x1, x2}
    Drivers = {"postgres"}
    Policy <- OneFile
    Tampers = {}
    MaxFaults = 2
    MaxEdits = 0
    Inputs = 2
    MaxChanges = 2
    MaxTries = 2
    MoveBack = FALSE
    Faults = {"signal", "fatal", "call"}
    Parts = {"migrate"}
CHECK_DEADLOCK FALSE
SPECIFICATION DriverSpec
INVARIANT OnlyOnce
