---- MODULE MCSourcePanel ----
\* Two panels, one of them with a device behind a device, two scrapes at once.
EXTENDS SourcePanel, TLC

CONSTANTS p1, p2, root, circuit, charger

MCTree == {circuit, charger}
MCParent == (circuit :> root) @@ (charger :> circuit)
MCPanels == {p1, p2}
MCOrigin == <<p1, p2>>
MCHosts == {p1}
====
