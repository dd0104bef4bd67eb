SPECIFICATION Spec
CONSTANTS
    MaxClients = 3
    Callers = {drainer}
    Topics = {state}
    Values = {}
    WillTopic = state
    Lost = lost
    Empty = empty
    Filters = {f1, f2}
    Restorer = restorer
    drainer = drainer
    restorer = restorer
    state = state
    lost = lost
    empty = empty
    f1 = f1
    f2 = f2
INVARIANTS
    TypeOK
    NoStrayClient
    NothingWaitsOnADeadSession
    FailedSessionEnds
    RoutesRestored
    OutageReportedOnce
PROPERTIES
    FailedSessionKeepsItsWill
    LinkPromised
SYMMETRY FilterSymmetry
CHECK_DEADLOCK FALSE
