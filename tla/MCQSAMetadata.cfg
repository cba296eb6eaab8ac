\* Three builders; up to three requests of up to four rows, more than a ring holds.
CONSTANTS
  MaxReqs = 3
  MaxQuery = 4
  MaxStart = 3
  MaxPad = 1
  Builders <- MCBuilders
  TokenTile = 4
  WorkTile = 3
  Stale = Stale
SPECIFICATION Spec
INVARIANTS TypeOK AgreesWithFallback EveryItemOnce SlotsAreDistinct
\* One launch; it ends.
CHECK_DEADLOCK FALSE
