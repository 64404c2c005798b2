\* Two slots and an abort at any time.
SPECIFICATION SafeSpec
CONSTANTS
  P = 2
  r1 = r1
  r2 = r2
  r3 = r3
  NoReq = NoReq
  Req = {r1, r2, r3}
  Prompt <- MCPrompt
  MaxNew <- MCMaxNew
  NumRows = 4
  KVSize = 24
  ChunkSize = 2
  MaxPrefill = 4
  MaxRunning = 3
  RetractSteps = 1
  Mixed = FALSE
  Logprob = {}
  Ratios = {0, 1}
  Scale = 1
  EarlyStop = TRUE
  MayAbort = {r2}
  MaxFlush = 0
PROPERTIES
  AbortMarksRunning
CHECK_DEADLOCK FALSE
