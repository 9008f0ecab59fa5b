\* Two requests, possibly under one id, two callers, two io threads; an id
\* may be cancelled twice, which can stop the program (NoLockCycle).
SPECIFICATION Spec
CONSTANTS
  Sessions = {s1, s2}
  Ids = {i1, i2}
  Users = {u1, u2}
  Workers = {w1, w2}
  None = None
  MaxCancels = 2
  MaxParts = 1
  UniqueIds = FALSE
SYMMETRY ThreadSymmetry
CHECK_DEADLOCK FALSE
INVARIANTS
  TypeOK
  HandlersSerialised
  CancelFlagNotRaced
  OutcomeHonest
PROPERTIES
  NoNewOpAfterCancel
  ImplementsLifecycle
