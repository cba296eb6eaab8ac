\* One cell with one request is enough.
CONSTANTS
  Cells = 2
  Configs = {c1}
  Requests = 1
  Missing = Missing
  MaxCrashes = 0
  MaxBad = 1
SPECIFICATION Spec
INVARIANT AggregatesHoldValidCells
CHECK_DEADLOCK FALSE
