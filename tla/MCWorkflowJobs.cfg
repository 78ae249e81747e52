\* Two jobs of either kind compete for two worker places.
CONSTANTS
  Jobs = {j1, j2}
  Plans <- MCPlans
  Workers = {w1, w2, w3}
  NoPlan = NoPlan
  NoJob = NoJob
  MaxJobs = 2
  MaxRunning = 2
  MaxQueued = 0
  MaxMemory = 2
  MaxRetained = 2
  MaxAttempts = 2
SPECIFICATION Spec
SYMMETRY JobSymmetry
CHECK_DEADLOCK FALSE
INVARIANTS ExclusiveOwnership MemoryRespected WorkIsAccounted FreshWorker
  CompletedIsReadable
PROPERTIES CleanupSafety ImplementsLifecycle
