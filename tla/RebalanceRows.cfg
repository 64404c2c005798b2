\* Two stages without mixed batches: all requests of a slot end while another waits.
SPECIFICATION Spec
CONSTANTS
  N = 2
  Backlog = 0
  P = 2
  Chunks <- MCChunks
  Tokens <- MCShortTokens
  BaseUnit = 2
  Alpha = 4
  TpotFirst = {TRUE}
  Headroom = {FALSE}
  Mixed = FALSE
INVARIANTS
  RowsAligned
