SPECIFICATION Spec
CONSTANTS
  None = None
  Stale = Stale
  Defaults = {"default"}
  FirstDefault = "default"
  Owned = {"clone", "second"}
  Panels = {"nt"}
  CloneFile <- MCCloneFile
  Shipped <- MCShipped
  Slots = {s1, s2}
  MaxCalls = 4
INVARIANTS
  EditorFileExists
PROPERTIES
  DefaultsOnlyCloned
SYMMETRY MCSymmetry
CHECK_DEADLOCK FALSE
