\* Three request keys, one worker place, one queue place, disk for two jobs.
CONSTANTS
  Jobs = {j1, j2, j3}
  Plans <- MCOutputPlans
  Workers = {w1, w2}
  NoPlan = NoPlan
  NoJob = NoJob
  MaxJobs = 3
  MaxRunning = 1
  MaxQueued = 1
  MaxMemory = 2
  MaxRetained = 3
  MaxAttempts = 1
SPECIFICATION Spec
SYMMETRY JobSymmetry
CHECK_DEADLOCK FALSE
INVARIANTS SlotsRespected QueueBounded RetainedBounded
