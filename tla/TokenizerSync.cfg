CONSTANTS
  c1 = c1  c2 = c2
  Reader = {c1, c2}
  Writer = {u1}
  Rid <- MCRid
  Workloads <- MCWorkloads
SPECIFICATION Spec
INVARIANT
  SyncFindsIdle
CHECK_DEADLOCK FALSE
