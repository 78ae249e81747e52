SPECIFICATION Spec
CONSTANTS
  random = random
  ucb = ucb
  ucb2 = ucb2
  NoTrial = NoTrial
  Coordinates <- Three
  Selections <- ThreeSelections
  Protected = TRUE
  Prefix = 2
  Horizon = 3
  MaxAttempts = 4
  MaxLosses = 0
CHECK_DEADLOCK FALSE
INVARIANTS
  CommittedRowsExact
  AcknowledgedIsDurable
  AttemptsAccounted
  CompletedIsBacked
  HeldOutIsProtected
PROPERTIES
  ProgressKept
  ImplementsLifecycle
