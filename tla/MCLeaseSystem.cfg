CONSTANTS
  Resources = {r1, r2}
  LeaseIds = {l1, l2}
  Callers = {controller}
  IssuerErrors = {"failed", "notReady"}
  MaxPosted = 2
  None = None

SPECIFICATION SystemSpec
SYMMETRY Symmetry

INVARIANTS
  ClientAndCacheAgree
  GivenUpForGood
  NeverRefused

PROPERTIES
  NotReadyWedges
