SPECIFICATION FairSpec
CONSTANTS
    e1 = e1  e2 = e2  n1 = n1  h1 = h1  h2 = h2  w1 = w1  w2 = w2
    Events = {e1, e2}
    Numbers = {n1}
    From <- OneSender
    Text <- StopThenOther
    Line <- BothLines
    Handlers = {h1, h2}
    Workers = {w1}
    None = None
    MaxAttempts = 2
    MaxFaults = 1
    Timely = {e1}
INVARIANTS
    TypeOK
    MainLineStopIsSuppressed
    StopReachesHighLevel
    ForwardedOnce
PROPERTIES
    ImplementsInbox
    EveryMessageEnds
