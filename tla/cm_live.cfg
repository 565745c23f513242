SPECIFICATION FairSpec
CONSTANTS
  Calls = {c1, c2}
  c1 = c1
  c2 = c2
  Worker = Worker
  Rx = Rx
  Remover = Remover
  None = None
  ArraySize = 2
  MaxQueued = 2
  Cfms = {"a", "b"}
  Kinds <- LiveKinds
  MayTimeout = FALSE
  MayFail = FALSE
  MayKill = TRUE
  MayRemove = FALSE
INVARIANT ListIntact
INVARIANT NoOops
PROPERTY CallsReturn
PROPERTY ListEmpties
CHECK_DEADLOCK FALSE
