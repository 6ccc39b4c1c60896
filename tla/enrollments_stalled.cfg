SPECIFICATION Spec
CONSTANTS
    e1 = e1  e2 = e2  w1 = w1  w2 = w2  r1 = r1  r2 = r2  p1 = p1  p2 = p2
    Enrollments = {e1}
    Offered <- AnyKind
    MaxOccurrences = 2
    Workers = {w1, w2}
    Replies = {r1}
    Repliers = {p1, p2}
    None = None
    MaxFaults = 2
    MaxLostCommits = 1
    StallsPossible = TRUE
SYMMETRY ProcessSymmetry
INVARIANTS
    TypeOK
    OccurrencesInOrder
    OneOutcome
PROPERTIES
    ClosedSendsNothing
    ImplementsCampaign
