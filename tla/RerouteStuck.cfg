SPECIFICATION FairAgentSpec
CONSTANTS
  Switches <- MCSwitches
  CoreSwitch = "core"
  ItSwitch = "it"
  PolicySwitches = {"it"}
  IdleSwitches <- MCNone
  Ports <- MCUplinkOnly
  CorePort = "uplink"
  SwitchOf <- MCUplinkSwitchOf
  Capacity <- MCUplinkCapacity
  Rates <- MCRates
  MlActions <- MCOneAction
  ManualSettings <- MCNone
  Modes <- MCNone
  Effects <- MCEffects
  InitThr <- MCInitThr
  DqnSettings = {TRUE}
  DecisionTimeout = 2
  NoFile = NoFile
PROPERTIES
  CalmReleases
