SPECIFICATION Spec
CONSTANTS
    t1 = t1  t2 = t2  t3 = t3  w1 = w1  w2 = w2
    note = note  archive = archive  c1 = c1  c2 = c2  c3 = c3
    Texts = {t1, t2, t3}
    Planners = {w1, w2}
    Nobody = Nobody
    NoText = NoText
    Rates <- TwoRates
    Day = 4
    Opens = 1
    Closes = 3
    Zone <- TwoZones
    MaxTime = 4
    MaxRollbacks = 1
    CRMJobs = {note, archive}
    Archives = {archive}
    CRMWorkers = {c1, c2}
    NoCRMJob = NoCRMJob
    CRMRetryLimit = 2
    MaxMishaps = 2
    Callers = {c1, c2, c3}
    LastFile = 3
    Starters = {c1, c2, c3}
    NoStarter = NoStarter
    MaxBreaks = 2
    p1 = p1  p2 = p2  b1 = b1  b2 = b2  s1 = s1  s2 = s2
    Calls = {p1, p2}
    Callbacks = {b1, b2}
    States = {s1, s2}
    None = None
    MaxTokens = 4
    MaxFaults = 1
INVARIANTS
    TypeOK
    TextsInTurn
    HeldBackOnlyByOthers
    SleepsUntilOpening
    NotesAreExplained
    OneSetPerCaller
    StartsOnWholeSchema
    ReadIsCurrent
    NoUsedTokenPresented
    StaysConnected
    SingleUseState
PROPERTIES
    CRMJobsEnd
    CallsEnd
CHECK_DEADLOCK FALSE
