\* The bounds of MCResultsWriter.cfg; the failure is what matters.
CONSTANTS
  Callers = {a, b}
  NoOne = NoOne
  Sentinel = Sentinel
  Capacity = 2
  BatchSize = 2
  MaxRows = 3
  MaxStarts = 3
  MaxFailures = 1
SPECIFICATION Spec
PROPERTY StopWaitsToDrain
\* The callers may stop calling.
CHECK_DEADLOCK FALSE
