------------------------------ MODULE MCEdges ------------------------------
(* The parts that talk to the outside: the device connector with its file, the
   Modbus connection, the telnet session and the browser page. They share no
   state, so a behaviour is one of a single part while the others rest. *)
EXTENDS MCDeviceConnector, ModbusLink, CtTelnet, Browser

CONSTANTS a, b

EdgesInit == Init /\ LinkInit /\ TelnetInit /\ BrowserInit

ConnectorRests == Init /\ file = {} /\ UNCHANGED vars
LinkRests == LinkInit /\ UNCHANGED linkVars
TelnetRests == TelnetInit /\ UNCHANGED telnetVars
BrowserRests == BrowserInit /\ selected = a /\ UNCHANGED browserVars

EdgesNext ==
  \/ Next /\ LinkRests /\ TelnetRests /\ BrowserRests
  \/ LinkNext /\ ConnectorRests /\ TelnetRests /\ BrowserRests
  \/ TelnetNext /\ ConnectorRests /\ LinkRests /\ BrowserRests
  \/ BrowserNext /\ ConnectorRests /\ LinkRests /\ TelnetRests

EdgesSpec ==
  EdgesInit /\ [][EdgesNext]_<<vars, linkVars, telnetVars, browserVars>> /\ BrowserFairness
=============================================================================
