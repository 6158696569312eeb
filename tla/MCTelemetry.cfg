CONSTANTS
  LeaseIds = {l1}
  Uptimes = {0, 1}
  UnitsPerSecond = 2
  WarningThreshold = 1
  ErrorThreshold = 2
  LongestTick = 1
  CameraStatuses <- MCCameraStatuses
  MotorStates <- MCMotorStates
  MaxSignals = 2
  MaxEvents = 2
  None = None

SPECIFICATION FairSpec
CHECK_DEADLOCK FALSE

INVARIANTS
  ColourIsHonest
  ViewsFollow
  CameraStateIsShown

PROPERTIES
  LossIsShown
