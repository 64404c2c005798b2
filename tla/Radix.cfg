SPECIFICATION Spec
CONSTANTS
  a = a
  b = b
  Vocabulary = {a, b}
  N = 4
  Prompts <- MCPrompts
  MaxNew <- MCMaxNew
  Slots = {1, 2, 3, 4, 5, 6, 7, 8, 9}
  ChunkSize = 4
  RetractSteps = 2
INVARIANTS SlotsOwnedOnce LocksMatchHolders KVMatchesTokens AdmittedFits
CHECK_DEADLOCK FALSE
