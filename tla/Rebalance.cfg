\* Two stages, mixed batches: short prompts and one that passes from slot to slot.
SPECIFICATION Spec
CONSTANTS
  N = 7
  Backlog = 5
  P = 2
  Chunks <- MCChunks
  Tokens <- MCTokens
  BaseUnit = 2
  Alpha = 4
  TpotFirst = {TRUE, FALSE}
  Headroom = {TRUE, FALSE}
  Mixed = TRUE
INVARIANTS
  OnePlace
  RowsAligned
  PendingQuiet
PROPERTIES
  PendingResumed
