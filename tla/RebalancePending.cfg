\* Three stages: requests end while long prompts pass from slot to slot.
SPECIFICATION Spec
CONSTANTS
  N = 9
  Backlog = 7
  P = 3
  Chunks <- MCLongChunks
  Tokens <- MCLongTokens
  BaseUnit = 2
  Alpha = 4
  TpotFirst = {TRUE}
  Headroom = {FALSE}
  Mixed = FALSE
INVARIANTS
  IdleMeansEmpty
