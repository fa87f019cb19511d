SPECIFICATION Spec
CONSTANTS
  Switches <- MCSwitches
  Hosts <- MCHosts
  HostPorts <- MCHostPorts
  Attached <- MCAttached
  PortMapOf <- MCPortMapOf
  NoHost = NoHost
  Excusable = {"lab7"}
  Threshold = 2
  HardTimeout = 2
  Grace = 1
  SuppressTime = 2
PROPERTIES
  DroppedEverywhere
