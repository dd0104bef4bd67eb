SPECIFICATION RuntimeFairSpec
CONSTANTS
    MaxClients = 3
    MaxPending = 4
    MaxReadings = 1
    Callers = {drainer}
    Drainer = drainer
    Restorer = restorer
    Topics <- MCTopics
    Values <- MCValues
    WillTopic = state
    DescTopic = description
    PowerTopic = power
    Described = described
    Ready = ready
    Final = final
    Lost = lost
    Empty = empty
    Filters = {f1}
    drainer = drainer
    restorer = restorer
    state = state
    description = description
    power = power
    described = described
    ready = ready
    f1 = f1
    final = final
    lost = lost
    empty = empty
INVARIANTS
    QueuedFarewellIsHeard
    ReadyIsDescribed
    LiveTreeIsCurrent
PROPERTIES
    NoReadyAfterFinal
    StopEnds
    RunningPanelBecomesReady
    LinkKeptUp
    NothingOutlivesTheLink
CHECK_DEADLOCK FALSE
