CONSTANTS
  Resources = {r1}
  LeaseIds = {l1, l2}
  Callers = {controller}
  IssuerErrors = {"failed"}
  MaxPosted = 2
  None = None

SPECIFICATION SystemFairSpec

INVARIANTS
  PendingTracked

PROPERTIES
  LossIsNoticed
  AcquireIsAnswered
