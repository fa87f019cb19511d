SPECIFICATION Spec
CONSTANTS
  Switches <- MCSwitches
  CoreSwitch = "core"
  ItSwitch = "it"
  PolicySwitches = {"it"}
  IdleSwitches <- MCItOnly
  Ports <- MCPorts
  CorePort = "uplink"
  SwitchOf <- MCSwitchOf
  Capacity <- MCCapacity
  Rates <- MCRates
  MlActions <- MCMlActions
  ManualSettings <- MCManual
  Modes = {"exam"}
  Effects <- MCEffects
  InitThr <- MCInitThr
  DqnSettings = {TRUE, FALSE}
  DecisionTimeout = 2
  NoFile = NoFile
INVARIANTS
  TypeOK
  ThresholdOrder
  PendingBounded
PROPERTIES
  CongestionAnswered
  ReleaseOnlyOnLowSample
  NoCongestedGiveUp
