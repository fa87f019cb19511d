SPECIFICATION FairSpec
CONSTANTS
  Switches <- MCSwitches
  CoreSwitch = "core"
  ItSwitch = "it"
  PolicySwitches = {"it"}
  IdleSwitches <- MCNone
  Ports <- MCUplinkOnly
  CorePort = "uplink"
  SwitchOf <- MCUplinkSwitchOf
  Capacity <- MCUplinkCapacity
  Rates <- MCRates
  MlActions <- MCOneAction
  ManualSettings <- MCManual
  Modes <- MCModes
  Effects <- MCEffects
  InitThr <- MCInitThr
  DqnSettings = {TRUE, FALSE}
  DecisionTimeout = 2
  NoFile = NoFile
PROPERTIES
  SustainedCongestionReroutes
  ManualSettingsPrevail
  CalmReleasesDirectly
