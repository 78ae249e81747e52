\* An import, a replay, two evaluators and a client; three accesses, two tries.
CONSTANTS
  Imports = {i1}
  Replays = {d1}
  Evaluators = {v1, v2}
  Clients = {c1}
  NoOne = NoOne
  MaxAttempts = 1
  MaxMarkers = 2
  MaxHistory = 3
  MaxTries = 2
  MaxAccesses = 3
SPECIFICATION Spec
SYMMETRY MCSymmetry
\* Every process may have finished.
CHECK_DEADLOCK FALSE
INVARIANTS ReadsAreReserved ConflictIsProgress
PROPERTIES ExposureCounted ImplementsLog
