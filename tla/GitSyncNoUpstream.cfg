CONSTANTS
    c1 = c1
    e1 = e1
    e2 = e2
    r1 = r1
    Edits = {e1}
    RemoteEdits = {r1}
    Callers = {c1}
    Ticker = Ticker
    NoHolder = NoHolder
    Stray = FALSE
    HasUpstream = FALSE
    Faults <- RetriedFaults
    Budget <- PublishBudget
SPECIFICATION Spec
INVARIANT
    UnpushedIsTracked
CHECK_DEADLOCK FALSE
