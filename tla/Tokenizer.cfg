CONSTANTS
  c1 = c1  c2 = c2
  Reader = {c1, c2}
  Writer = {u1}
  Rid <- MCRid
  Workloads <- MCWorkloads
SPECIFICATION Spec
INVARIANTS
  UpdatesRunAlone
  NoLostWakeup
  NoAnswerSpansUpdate
PROPERTIES
  Served
  StatesCleared
CHECK_DEADLOCK FALSE
