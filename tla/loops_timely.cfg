SPECIFICATION LoopSpec
CONSTANTS
    e1 = e1  e2 = e2  w1 = w1  w2 = w2  r1 = r1  r2 = r2  p1 = p1  p2 = p2
    Enrollments = {e1, e2}
    Offered <- RecurringAndSingle
    MaxOccurrences = 2
    Workers = {w1, w2}
    Replies = {r1}
    Repliers = {p1}
    None = None
    MaxFaults = 1
    MaxLostCommits = 0
    StallsPossible = FALSE
    j1 = j1  j2 = j2  n1 = n1
    Jobs = {j1, j2}
    Numbers = {n1}
    NumberOf <- OneRecipient
    NoJob = NoJob
    RetryLimit = 2
INVARIANTS
    SentIsExact
    ExclusiveEnrollment
    ExclusiveClaim
PROPERTIES
    RepeatsAreApart
    WorkflowsProgress
    ImplementsOutbox
    EveryJobSettles
