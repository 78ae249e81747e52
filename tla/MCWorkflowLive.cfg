\* Two jobs and one worker place, after the last fault.
CONSTANTS
  Jobs = {j1, j2}
  Plans <- MCSmallPlans
  Workers = {w1}
  NoPlan = NoPlan
  NoJob = NoJob
  MaxJobs = 2
  MaxRunning = 1
  MaxQueued = 1
  MaxMemory = 1
  MaxRetained = 2
  MaxAttempts = 2
SPECIFICATION LiveSpec
CHECK_DEADLOCK FALSE
PROPERTIES QueuedServed ClaimsAreRun
