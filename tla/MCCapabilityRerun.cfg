\* GPQA in a directory with other results.
CONSTANTS
  Aime = aime25
  Ifeval = ifeval
  Gpqa = gpqa
  Candidates <- MCCandidates
  MaxRuns = 2
SPECIFICATION CSpec
PROPERTY FirstGpqaRunIsScored
CHECK_DEADLOCK FALSE
