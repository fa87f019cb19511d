SPECIFICATION FairSpec
CONSTANTS
  Modes = {"normal", "exam"}
  OverrideModes = {"exam"}
  Normal = "normal"
PROPERTY StopEnds
