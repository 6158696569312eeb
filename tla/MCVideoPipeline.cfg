CONSTANTS
  Endpoints = {e1, e2}
  SourceCount = 7
  TailCount = 3
  MaxLost = 4
  MaxMessages = 2
  None = None

SPECIFICATION FairSpec

INVARIANTS
  OneSinkOnItem
  NothingElseIsLost

PROPERTIES
  ImplementsPlayer
  Heals
