\* Two slots that hold one running request each.
SPECIFICATION SafeSpec
CONSTANTS
  P = 2
  r1 = r1
  r2 = r2
  r3 = r3
  NoReq = NoReq
  Req = {r1, r2, r3}
  Prompt <- MCPrompt
  MaxNew <- MCMaxNew
  NumRows = 4
  KVSize = 24
  ChunkSize = 2
  MaxPrefill = 4
  MaxRunning = 1
  RetractSteps = 1
  Mixed = FALSE
  Logprob = {}
  Ratios = {1}
  Scale = 1
  EarlyStop = FALSE
  MayAbort = {}
  MaxFlush = 0
INVARIANTS
  PoolsFullWhenIdle
CHECK_DEADLOCK FALSE
