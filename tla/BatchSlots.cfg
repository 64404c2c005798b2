\* Three slots; decode steps are mixed into prefill batches unless r3 is among the requests.
SPECIFICATION Spec
CONSTANTS
  P = 3
  r1 = r1
  r2 = r2
  r3 = r3
  NoReq = NoReq
  Req = {r1, r2, r3}
  Prompt <- MCPrompt
  MaxNew <- MCMaxNew
  NumRows = 4
  KVSize = 30
  ChunkSize = 3
  MaxPrefill = 4
  MaxRunning = 3
  RetractSteps = 1
  Mixed = TRUE
  Logprob = {r3}
  Ratios = {1}
  Scale = 1
  EarlyStop = TRUE
  MayAbort = {r2}
  MaxFlush = 0
INVARIANTS
  RowsAccounted
  KVAccounted
  OnePlace
  ChunksCounted
  OutputLenAgrees
PROPERTIES
  ImplementsRequestService
