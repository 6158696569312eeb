CONSTANT MaxEvents = 4

SPECIFICATION FairSpec
CHECK_DEADLOCK FALSE

INVARIANTS
  TypeOK
  NoTickOnDestroyed
  NoTickAfterStop
  LostOnlyWithItsEvent

PROPERTIES
  OnlyKnownHangs
