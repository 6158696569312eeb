CONSTANT MaxEvents = 4

SPECIFICATION Spec
CHECK_DEADLOCK FALSE

INVARIANT
  TelemetryReleaseIsProcessed
