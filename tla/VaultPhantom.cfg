CONSTANTS
    p1 = p1
    p2 = p2
    w1 = w1
    w2 = w2
    x1 = x1
    Clients = {p1, p2}
    Externals = {}
    Slots = {w1, w2}
    Kinds = {"save"}
    Faults = {}
    Timely = TRUE
    ErrorsCap = 1
    MaxRestarts = 0
    Original = Original
    None = None
    Corrupt = Corrupt
SPECIFICATION Spec
PROPERTY
    NoPhantomChange
CHECK_DEADLOCK FALSE
