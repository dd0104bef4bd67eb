SPECIFICATION Spec
CONSTANTS
  p1 = p1
  p2 = p2
  root = root
  circuit = circuit
  charger = charger
  Panels <- MCPanels
  Hosts <- MCHosts
  Tree <- MCTree
  Parent <- MCParent
  Root = root
  Slots = {s1, s2}
  MaxIssued = 2
  MaxScrapes = 2
  MaxFaults = 1
  Files = 2
  Origin <- MCOrigin
  None = None
INVARIANTS
  KeptBrokerWorked
  ScrapeIsWhole
PROPERTIES
  SecretsStayKnown
  ScrapesEnd
CHECK_DEADLOCK FALSE
