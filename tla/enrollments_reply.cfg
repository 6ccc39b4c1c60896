SPECIFICATION Spec
CONSTANTS
    e1 = e1  e2 = e2  w1 = w1  w2 = w2  r1 = r1  r2 = r2  p1 = p1  p2 = p2
    Enrollments = {e1}
    Offered <- OneRecurring
    MaxOccurrences = 2
    Workers = {w1}
    Replies = {r1}
    Repliers = {p1}
    None = None
    MaxFaults = 0
    MaxLostCommits = 0
    StallsPossible = FALSE
PROPERTIES
    StopOnAnyReply
