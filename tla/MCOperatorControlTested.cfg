CONSTANTS
  LampMax = 20
  LampSpeed = 5
  LampStep = 5
  PitchMax = 2
  PitchSpeed = 1
  BallastMax = 20
  BallastSpeed = 5
  DepthSpeed = 1
  MaxDepth = 1
  Cameras <- MCCameras
  Axes <- MCAxes
  Deltas = {1}
  FirstCamera <- MCFirstCamera
  MaxRequests = 1
  MaxSignals = 0
  TestedBallastSpeed = 2

SPECIFICATION Spec


PROPERTIES
  BallastMovesAsTested
