\* Two stages, greedy dynamic chunks, flushes, collectives that synchronise all ranks.
SPECIFICATION Spec
CONSTANTS
  P = 2
  MaxIter = 6
  Strategy = "greedy"
  Chunks = {1, 2}
  OrigChunk = 1
  FlushInputs = {FALSE, TRUE}
  BatchKinds = {"none", "forward"}
  Collective = "barrier"
INVARIANTS
  ChannelInStep
  ChunkAgreement
PROPERTIES
  EveryRankCompletes
