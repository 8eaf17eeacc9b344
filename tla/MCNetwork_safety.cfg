CONSTANTS
    MaxOps = 2  Extras = 1
    e1 = e1  e2 = e2  w1 = w1  w2 = w2  s1 = s1  f1 = f1  f2 = f2  f3 = f3
    NoBucket = NoBucket  Free = Free  None = None
    Parts = {"pool", "stream", "park", "promise", "kv", "messages", "control"}
SPECIFICATION NetSpec
SYMMETRY Symmetric
INVARIANTS
    RepliesMatched
    FramesRight
PROPERTIES
    ConnectionsRight
    ParkedRight
