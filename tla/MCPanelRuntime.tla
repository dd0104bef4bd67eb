--------------------------- MODULE MCPanelRuntime ---------------------------
(***************************************************************************)
(* Small instances of PanelRuntime: payloads and topics are strings here   *)
(* because a reading is a number and TLC compares it with the others.      *)
(***************************************************************************)
EXTENDS PanelRuntime

MCTopics == {WillTopic, DescTopic, PowerTopic}
MCValues == {Described, Ready, Final} \union (0..MaxReadings)
=============================================================================
