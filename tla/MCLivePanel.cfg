SPECIFICATION Spec
CONSTANTS
  oven = oven
  pump = pump
  first = first
  second = second
  Circuits <- MCCircuits
  Files <- MCFiles
  Shipped <- MCShipped
  Recorded <- MCRecorded
  Drawn <- MCDrawn
  Typicals = {5}
  HoursPerDay = 3
  DaysPerWeek = 2
  Evening = {2}
  Night = {0}
  CycleOn = {0, 2}
  Sunlight <- MCSunlight
  TickSlots <- MCTickSlots
  MinPoints = 4
  MaxCalls = 2
  None = None
INVARIANTS
  BeforeIsTheRecording
  AfterIsWhatRuns
  ReplaysAsSeen
PROPERTIES
  RelayHolds
