SPECIFICATION RuntimeSpec
CONSTANTS
    MaxClients = 2
    MaxPending = 4
    MaxReadings = 1
    Callers = {drainer}
    Drainer = drainer
    Restorer = restorer
    Topics <- MCTopics
    Values <- MCValues
    WillTopic = state
    DescTopic = description
    PowerTopic = power
    Described = described
    Ready = ready
    Final = final
    Lost = lost
    Empty = empty
    Filters = {}
    drainer = drainer
    restorer = restorer
    state = state
    description = description
    power = power
    described = described
    ready = ready
    final = final
    lost = lost
    empty = empty
INVARIANTS
    StoppedPanelIsNotReady
CHECK_DEADLOCK FALSE
