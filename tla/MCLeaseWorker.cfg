CONSTANTS
  Resources = {r1, r2}
  LeaseIds = {l1}
  Callers = {t1, t2}
  IssuerErrors = {"failed", "notReady"}
  MaxPosted = 2
  None = None

SPECIFICATION FairSpec

INVARIANTS
  TypeOK
  NoLostWakeup

PROPERTIES
  ImplementsFairMailbox
