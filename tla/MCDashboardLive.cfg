SPECIFICATION Spec
CONSTANTS
  None = None
  Stale = Stale
  Defaults = {"default"}
  FirstDefault = "default"
  Owned = {"clone", "second"}
  Panels = {"nt"}
  CloneFile <- MCCloneFile
  Shipped <- MCShipped
  Slots = {s1}
  MaxCalls = 3
INVARIANTS
  HashMeansCurrent
CHECK_DEADLOCK FALSE
