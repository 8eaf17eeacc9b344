CONSTANTS
    s1 = s1  s2 = s2  x1 = x1  x2 = x2  NoSignal = NoSignal  NoProc = NoProc
    Procs = {x1, x2}
    Drivers = {"sqlite", "postgres"}
    Policy <- Mixed
    Tampers = {}
    MaxFaults = 3
    MaxEdits = 1
    Inputs = 2
    MaxChanges = 2
    MaxTries = 2
    MoveBack = FALSE
    Faults = {"signal", "fatal", "call"}
    Parts = {"waking", "exiting", "events", "audit"}
CHECK_DEADLOCK FALSE
SPECIFICATION DriverFairSpec
PROPERTIES
    RunnerExits
    EventuallyCurrent
