\* Three cells of two requests, two configurations, two crashes, two invalid measurements.
CONSTANTS
  Cells = 3
  Configs = {c1, c2}
  Requests = 2
  Missing = Missing
  MaxCrashes = 2
  MaxBad = 2
SPECIFICATION Spec
INVARIANTS TypeOK FinishedMatrixIsWhole OneConfiguration
PROPERTIES ValidCellsAreKept MatrixIsFinished
\* A finished matrix is not started again.
CHECK_DEADLOCK FALSE
