SPECIFICATION Spec
CONSTANTS
    e1 = e1  e2 = e2  n1 = n1  h1 = h1  h2 = h2  w1 = w1  w2 = w2
    Events = {e1}
    Numbers = {n1}
    From <- OneSender1
    Text <- OneStop
    Line <- OtherLine
    Handlers = {h1}
    Workers = {w1}
    None = None
    MaxAttempts = 2
    MaxFaults = 0
    Timely = {e1}
INVARIANTS
    AckedStopIsSuppressed
