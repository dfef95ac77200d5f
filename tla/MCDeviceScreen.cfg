SPECIFICATION FairSpec
CONSTANTS
  Configs <- MCConfigs
  MaxRotations = 2
  MaxMouse = 3
INVARIANTS StaleIsFlagged NoStuckPointer TouchesLand
PROPERTIES FrameOfCurrentScreen EncoderFollows
