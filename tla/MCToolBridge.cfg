SPECIFICATION BridgeSpec
CONSTANTS
    k1 = k1
    k2 = k2
    r1 = r1
    r2 = r2
    c1 = c1
    c2 = c2
    c3 = c3
    Key = {k1, k2}
    Request = {r1, r2}
    Pid = {p1}
    Terminal <- Kinds
    None = None
    MaxEntries = 1
    MaxHistory = 2
    GenerationMax = 3
    SeqMax = 2
    MaxStragglers = 0
    Caller = {c1, c2, c3}
    Carries <- MCCarries
INVARIANTS
    AtMostOneSpawn
    ClosedBeforeReturn
    NothingLeftBehind
PROPERTIES
    EveryCallReturns
CHECK_DEADLOCK FALSE
