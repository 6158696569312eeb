CONSTANTS
  LeaseIds = {l1, l2}
  Endpoints = {e1, e2}
  HalfLease = 2
  RetryDelay = 3
  LongestTick = 2
  None = None

SPECIFICATION FairSpec

INVARIANTS
  SubscriptionIsCurrent
  PipelineIsCurrent
  StoppedHoldsNothing
  StatusIsHonest
  RenewalIsPrompt

PROPERTIES
  Recovers
