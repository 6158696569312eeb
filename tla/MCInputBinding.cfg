SPECIFICATION FairSpec
CONSTANTS
  Inputs <- MCInputs
  Devices <- MCDevices
  CellOrder <- MCOrder
  External <- MCExternal
  Bindings = {good, broken}
  Broken = {broken}
  None = None
  Target = Target
  Busy = Busy
  AllBound = AllBound
  MaxRequests = 2
  MaxSignals = 3
INVARIANTS
  CaptureIsAwaited
  DialogFollows
PROPERTIES
  CrashCostsOneDevice
  CancelHitsItsAim
  CancelIsHeard
