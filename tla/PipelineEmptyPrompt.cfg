\* Two stages and prefill batches without a token to extend.
SPECIFICATION SafeSpec
CONSTANTS
  P = 2
  MaxIter = 4
  Strategy = "off"
  Chunks = {1}
  OrigChunk = 1
  FlushInputs = {FALSE}
  BatchKinds = {"none", "forward", "empty"}
  Collective = "buffered"
INVARIANTS
  ResultsFromLastStage
