\* One slot, little memory, optimistic admission: requests are retracted and run again.
SPECIFICATION Spec
CONSTANTS
  P = 1
  r1 = r1
  r2 = r2
  r3 = r3
  NoReq = NoReq
  Req = {r1, r2, r3}
  Prompt <- MCPromptShort
  MaxNew <- MCMaxNewLong
  NumRows = 4
  KVSize = 9
  ChunkSize = 2
  MaxPrefill = 4
  MaxRunning = 3
  RetractSteps = 2
  Mixed = FALSE
  Logprob = {}
  Ratios = {0, 1}
  Scale = 1
  EarlyStop = TRUE
  MayAbort = {r1}
  MaxFlush = 0
INVARIANTS
  KVAccounted
  NeverExits
PROPERTIES
  ImplementsRequestService
