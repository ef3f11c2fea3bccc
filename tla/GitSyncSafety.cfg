CONSTANTS
    c1 = c1
    e1 = e1
    e2 = e2
    r1 = r1
    Edits = {e1, e2}
    RemoteEdits = {r1}
    Callers = {c1}
    Ticker = Ticker
    NoHolder = NoHolder
    Stray = FALSE
    HasUpstream = TRUE
    Faults <- AllFaults
    Budget <- SafetyBudget
SPECIFICATION Spec
INVARIANTS
    TypeOK
    OneGitOperation
    NoRecordedChangeDropped
    NoCommitDuringOperation
    SyncInvariant
PROPERTY
    CommitsIntact
CHECK_DEADLOCK FALSE
SYMMETRY EditSymmetry
