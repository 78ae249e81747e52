\* Three invocations of a grid of two cells, of two builds each.
CONSTANTS
  a = a
  b = b
  Grid <- MCTwoCells
  Invocations = {p1, p2, p3}
  Builds = 2
  NoOne = NoOne
SPECIFICATION Spec
SYMMETRY MCSymmetry
\* Every invocation may be over.
CHECK_DEADLOCK FALSE
INVARIANTS NativeExclusive OneVerdict EvidenceAttributed ReceiptHonest
