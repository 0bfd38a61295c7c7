SPECIFICATION RegistrySpec
CONSTANTS
    Key = {k1, k2, k3}
    Request = {r1, r2}
    Pid = {p1}
    Terminal = {t1, t2}
    None = None
    MaxEntries = 2
    MaxHistory = 2
    GenerationMax = 3
    SeqMax = 2
    MaxStragglers = 1
SYMMETRY KeySymmetry
INVARIANTS
    EntryAccounting
    GenerationsDistinct
PROPERTIES
    NotStartedProofHolds
    DispatchNeverRegresses
CHECK_DEADLOCK FALSE
