SPECIFICATION Spec
CONSTANTS
    Entities = {load, pv}
    Times = {3, 30}
    Speeds = {1, 3}
    FirstWall = 8
    LastWall = 11
    Never = Never
    Params <- MCParams
    History <- MCHistory
    Recorded <- MCRecorded
    Period = 2
    Lag = 2
    Lookback = 4
    Horizons = {6, 9}
    MaxViews = 2
    load = load
    pv = pv
INVARIANTS
    SimTypeOK
    ReplayIsRecorded
PROPERTIES
    ClockKeepsItsRate
