CONSTANTS
  LampMax = 1
  LampSpeed = 1
  LampStep = 1
  PitchMax = 1
  PitchSpeed = 1
  BallastMax = 1
  BallastSpeed = 1
  DepthSpeed = 1
  MaxDepth = 1
  Cameras <- MCCameras
  Axes <- MCAxes
  Deltas = {1}
  FirstCamera <- MCFirstCamera
  MaxRequests = 1
  MaxSignals = 0
  TestedBallastSpeed = 1

SPECIFICATION Spec

INVARIANTS
  IntentsInRange
  PanelsFollow

PROPERTIES
  LastWordIsSent
