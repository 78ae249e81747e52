\* Two callers, two coordinator slots, at most one failure.
CONSTANTS
  Callers = {c1, c2}
  Coordinators = {s1, s2}
  NoOne = NoOne
  MaxRunning = 1
  MaxGeneration = 3
  MaxFaults = 1
SPECIFICATION FairSpec
INVARIANTS QueuedIsWatched SingleCoordinator AckedIsSeen
PROPERTY QueuedSeen
