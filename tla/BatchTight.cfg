\* Two slots, little memory, as many rows as one slot may run, a cache flush: the process may
\* exit, and then stops.
SPECIFICATION SafeSpec
CONSTANTS
  P = 2
  r1 = r1
  r2 = r2
  r3 = r3
  NoReq = NoReq
  Req = {r1, r2, r3}
  Prompt <- MCPromptShort
  MaxNew <- MCMaxNewLong
  NumRows = 2
  KVSize = 9
  ChunkSize = 2
  MaxPrefill = 4
  MaxRunning = 2
  RetractSteps = 2
  Mixed = FALSE
  Logprob = {}
  Ratios = {0, 1}
  Scale = 1
  EarlyStop = FALSE
  MayAbort = {r3}
  MaxFlush = 1
PROPERTIES
  FinishedForGood
CHECK_DEADLOCK FALSE
