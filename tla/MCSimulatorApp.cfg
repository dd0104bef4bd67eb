SPECIFICATION FairSpec
CONSTANTS
    Configs = {a, b}
    Contents = {c1, c1b, c2, broken}
    Broken = {broken}
    Serials = {s1, s2}
    SerialOf <- MCSerialOf
    BasePort = 1
    LastPort = 3
    BusyChoices <- MCBusyChoices
    MaxAttempts = 2
    InitialDisks <- MCInitialDisks
    MaxEdits = 1
    NoFile = NoFile
    NoHash = NoHash
    Invalid = Invalid
    AllConfigs = AllConfigs
    NoConfig = NoConfig
    Nobody = Nobody
    a = a
    b = b
    c1 = c1
    c1b = c1b
    c2 = c2
    broken = broken
    s1 = s1
    s2 = s2
INVARIANTS
    OnePanelPerSerial
    RegistriesAgree
    Reconciled
PROPERTIES
    StopTakesEffect
    StartTakesEffect
    ShutdownCompletes
CHECK_DEADLOCK FALSE
