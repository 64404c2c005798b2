\* Two slots that share little memory.
SPECIFICATION SafeSpec
CONSTANTS
  P = 2
  r1 = r1
  r2 = r2
  r3 = r3
  NoReq = NoReq
  Req = {r1, r2, r3}
  Prompt <- MCPromptShort
  MaxNew <- MCMaxNewLong
  NumRows = 4
  KVSize = 9
  ChunkSize = 2
  MaxPrefill = 4
  MaxRunning = 3
  RetractSteps = 2
  Mixed = FALSE
  Logprob = {}
  Ratios = {0, 1}
  Scale = 1
  EarlyStop = FALSE
  MayAbort = {}
  MaxFlush = 0
INVARIANTS
  SpaceForLastRequest
CHECK_DEADLOCK FALSE
