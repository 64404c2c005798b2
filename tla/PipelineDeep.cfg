\* Three stages, no chunk synchronisation: every plan of up to seven iterations.
SPECIFICATION Spec
CONSTANTS
  P = 3
  MaxIter = 7
  Strategy = "off"
  Chunks = {1}
  OrigChunk = 1
  FlushInputs = {FALSE}
  BatchKinds = {"none", "forward"}
  Collective = "buffered"
INVARIANTS
  TypeOK
  StageMatchesBatch
  ScheduledOnResults
  SlotsInStep
  BoundedLead
PROPERTIES
  ImplementsService
