SPECIFICATION Spec
CONSTANTS
    j1 = j1  j2 = j2  n1 = n1  n2 = n2  w1 = w1  w2 = w2
    Jobs = {j1, j2}
    Numbers = {n1}
    NumberOf <- OneRecipient
    Workers = {w1, w2}
    NoJob = NoJob
    RetryLimit = 2
    MaxFaults = 2
    StallsPossible = TRUE
SYMMETRY WorkerSymmetry
INVARIANTS
    TypeOK
    SentWasAccepted
    OneLateSendPerWorker
    OnePausedSendPerWorker
