SPECIFICATION FairSpec
CONSTANTS
  Calls = {c1, c2, c3}
  c1 = c1
  c2 = c2
  c3 = c3
  Worker = Worker
  Rx = Rx
  Remover = Remover
  None = None
  ArraySize = 3
  MaxQueued = 2
  Cfms = {"a", "b"}
  Kinds <- LateKinds
  MayTimeout = FALSE
  MayFail = FALSE
  MayKill = FALSE
  MayRemove = FALSE
PROPERTY PollingEnds
CHECK_DEADLOCK FALSE
