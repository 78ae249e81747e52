\* Two callers, three rows each, a queue and a batch of two: a put can wait, a
\* batch can fail half way, and the writer can be restarted twice.
CONSTANTS
  Callers = {a, b}
  NoOne = NoOne
  Sentinel = Sentinel
  Capacity = 2
  BatchSize = 2
  MaxRows = 3
  MaxStarts = 3
  MaxFailures = 1
SPECIFICATION Spec
INVARIANTS RowsAccounted OrderKept OneDrainer
PROPERTIES StopDrains StopReturns
\* The callers may stop calling.
CHECK_DEADLOCK FALSE
