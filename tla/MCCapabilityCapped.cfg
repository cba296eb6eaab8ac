\* A capped GPQA response in the robust score.
CONSTANTS
  Aime = aime25
  Ifeval = ifeval
  Gpqa = gpqa
  Candidates <- MCCandidates
  MaxRuns = 2
SPECIFICATION CSpec
INVARIANT CappedIsForcedIncorrect
CHECK_DEADLOCK FALSE
