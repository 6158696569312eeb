CONSTANTS
  Keys = {k1, k2}
  MaxPending = 2
  None = None
  Neutral = 0
  NoSource = NoSource
  KeyboardAxis = KeyboardAxis
  GamepadAxis = GamepadAxis
  Stick = {0, 1}

SPECIFICATION FairSpec

INVARIANTS
  KeysFollow
  MoverIsFollowed

PROPERTIES
  LettingGoStops
