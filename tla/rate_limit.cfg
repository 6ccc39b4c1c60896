SPECIFICATION Spec
CONSTANTS
    t1 = t1  t2 = t2  t3 = t3  w1 = w1  w2 = w2
    note = note  archive = archive  c1 = c1  c2 = c2  c3 = c3
    Texts = {t1, t2, t3}
    Planners = {w1}
    Nobody = Nobody
    NoText = NoText
    Rates <- TwoPerPeriod
    Day = 4
    Opens = 1
    Closes = 3
    Zone <- OneZone
    MaxTime = 3
    MaxRollbacks = 0
    CRMJobs = {}
    Archives = {}
    CRMWorkers = {}
    NoCRMJob = NoCRMJob
    CRMRetryLimit = 1
    MaxMishaps = 0
    Callers = {}
    LastFile = 0
    Starters = {}
    NoStarter = NoStarter
    MaxBreaks = 0
    p1 = p1  p2 = p2  b1 = b1  b2 = b2  s1 = s1  s2 = s2
    Calls = {}
    Callbacks = {}
    States = {}
    None = None
    MaxTokens = 0
    MaxFaults = 0
INVARIANTS
    RateLimit
CHECK_DEADLOCK FALSE
