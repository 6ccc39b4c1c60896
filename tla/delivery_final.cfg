SPECIFICATION Spec
CONSTANTS
    e1 = e1  e2 = e2  m1 = m1  h1 = h1  h2 = h2  w1 = w1
    Events = {e1, e2}
    Messages = {m1}
    About <- OneMessage
    Report <- SentThenDelivered
    Handlers = {h1}
    Workers = {w1}
    None = None
    MaxAttempts = 2
    MaxFaults = 0
    Timely = {e1, e2}
PROPERTIES
    FinalStatusStays
