\* All stages, two invocations on one directory.
CONSTANTS
  Aime = aime25
  Ifeval = ifeval
  Gpqa = gpqa
  Candidates <- MCCandidates
  MaxRuns = 2
SPECIFICATION CSpec
INVARIANTS CTypeOK CleanExitIsReportable
PROPERTY PerfIsReached
\* The bounded invocations end.
CHECK_DEADLOCK FALSE
