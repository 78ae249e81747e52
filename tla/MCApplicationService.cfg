\* Three commands for two slots, one queue place and two units of memory, and
\* one import that weighs as much as two commands: three places in the table.
CONSTANTS
  Requests = {r1, r2, r3}
  Imports = {i1}
  Allowances <- MCAllowances
  MaxJobs = 3
  MaxRunning = 2
  MaxQueued = 1
  MaxMemory = 2
  MaxRetained = 3
  OutputCap = 2
SPECIFICATION FairSpec
CHECK_DEADLOCK FALSE
INVARIANTS PolicyRespected ClosedIsClean
PROPERTIES FirstTerminalWins AdmittedEnds
