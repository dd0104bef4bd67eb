SPECIFICATION Spec
CONSTANTS
  None = None
  Absent = Absent
  NotWatts = NotWatts
  DefaultWatts = 5000
  Commissionable = {"pv"}
  Rated = {Absent, 4000}
  Tops = {None, 6000}
  Overs = {None, 4000}
  Sections = {None, 6000}
  Feeds = {None, "solar_inverter"}
  MaxLoads = 1
  MaxEdits = 2
  Files <- MCFiles
  Names <- MCNames
  Forms <- MCForms
  Spaces <- MCSpaces
  Totals = {4, 6}
  Capacities = {None, 0}
INVARIANTS
  SaveIsNeverRefused
  CloneRepublishes
PROPERTIES
  EditsSettleRatings
  KeepsPromise
CHECK_DEADLOCK FALSE
