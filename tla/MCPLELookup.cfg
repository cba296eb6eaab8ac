SPECIFICATION LSpec
CONSTANTS
  NumReqs = 2
  N = 2
  HeadsPer = 1
  VocabBase = 2
  Divisor = 14
  DenseLayer = 1
  Words <- MCWords
  MaxWord = 255
  Mix <- MCMix
  BlockT = 2
  NumDrafts = 2
  MaxPadding = 1
  MaxSeq = 4
  MaxPrompt = 3
  MaxStep = 4
  VocabRows <- MCRows
  Parts = 3
  NumRanks = 2
  Width = 1
  ReadRows = 2
  SliceRows = 4
  Checkpoints <- MCCheckpoints
  HashFiles <- MCHashFiles
  OwnBuffers <- MCOwnBuffers
  Modes = {"vram", "disk", "resident"}
  Garbage = Garbage
INVARIANTS LTypeOK AgreesWithTorch WindowsAreOfTheText TokensGetTheirRows IntactIsNotRefused
