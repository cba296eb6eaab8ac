\* Every combination of sizes, every ratio up to 4 and up to 9 drafts, and the manager block of the model (3232 tokens).
CONSTANTS
  BlockSizes <- MCBlockSizes
  DefaultBlock = 4
  Configs <- MCConfigs
  Ratios = {1, 2, 3, 4}
  Drafts = {0, 1, 5, 9}
  MaxCapacity = 48
SPECIFICATION SizesSpec
INVARIANTS SizesTypeOK PagesUnify RatioStillDivides SpanFits SmallestDivisor
PROPERTY EndsIfSpanFits
CHECK_DEADLOCK FALSE
