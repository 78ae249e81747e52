SPECIFICATION DamagedSpec
CONSTANTS
  random = random
  ucb = ucb
  ucb2 = ucb2
  NoTrial = NoTrial
  Coordinates <- Two
  Selections <- TwoSelections
  Protected = FALSE
  Prefix = 1
  Horizon = 2
  MaxAttempts = 3
  MaxLosses = 1
CHECK_DEADLOCK FALSE
INVARIANT
  NoSilentReset
