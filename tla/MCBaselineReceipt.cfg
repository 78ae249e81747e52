\* Three invocations of a grid of one cell: an attempt nobody waits for goes on
\* after the grid was published.
CONSTANTS
  a = a
  b = b
  Grid <- MCOneCell
  Invocations = {p1, p2, p3}
  Builds = 1
  NoOne = NoOne
SPECIFICATION Spec
SYMMETRY MCSymmetry
CHECK_DEADLOCK FALSE
INVARIANTS ReceiptStands
