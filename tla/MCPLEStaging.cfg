\* Two layers, three steps of up to two rows read one by one.
CONSTANTS
  Layers = 2
  MaxTokens = 2
  MinRows = 1
  ChunkRows = 1
  MaxSteps = 3
  Zero = Zero
  Stale = Stale
SPECIFICATION Spec
INVARIANTS TypeOK ForwardSeesItsRows NoReadOverQueuedCopy
PROPERTIES ShortReadEndsEngine StepsAreComputed
